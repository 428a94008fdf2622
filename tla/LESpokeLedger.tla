---------------------------- MODULE LESpokeLedger ----------------------------
(***************************************************************************)
(* Theorems about what LESpoke's ledger holds, for every set of domains,   *)
(* targets and handlers and every bound: a change that is not in the file  *)
(* is owed a save, and no task takes an entry back to older material.      *)
(***************************************************************************)
EXTENDS LESpokeProofs

-----------------------------------------------------------------------------
(* A change that is not saved yet is owed a save.                          *)

\* The renewal task starts a scan without a change of an earlier one.
FreshFlag == loop.pc \in {"prepare", "sleep"} => loop.changed = FALSE

\* A connect task has only agent targets in hand.
HoldsAgents ==
  \A h \in Handlers :
    /\ \A d \in Domains, t \in Targets : <<d, t>> \in held[h] => t \in AgentTargets
    /\ task[h].op = "connect" => task[h].req \subseteq AgentTargets

LInv == IInv /\ FreshFlag /\ HoldsAgents /\ SomebodyWillSave

\* What a step takes from the bounds.
LEMMA SpendCounts ==
  ASSUME used \in Budget, NEW c \in Nat, NEW f \in Nat, Spend(c, f)
  PROVE  /\ used'.faults = used.faults + f
         /\ used'.restarts = used.restarts /\ used'.crashes = used.crashes
BY DEF Budget, Spend

\* The change is saved, a fault or a cancellation excuses it, or it is marked.
Settled ==
  \/ Unmarked(certs) = Unmarked(file) \/ used.faults # 0 \/ used.restarts # 0
  \/ loop.changed = TRUE

\* The tables (but for agents' markers) and the flag stay, and so does a renew command under way.
Still ==
  /\ UNCHANGED <<Unmarked(certs), Unmarked(file)>> /\ loop'.changed = loop.changed
  /\ used'.faults = 0 => used.faults = 0
  /\ used'.restarts = 0 => used.restarts = 0
  /\ \A h \in Handlers : task[h].op = "renew" => task'[h].op = "renew"

LEMMA SettledOwes == Settled' => SomebodyWillSave'
BY DEF Settled, SomebodyWillSave

LEMMA StillOwes == SomebodyWillSave /\ Still => SomebodyWillSave'
BY DEF Still, SomebodyWillSave

\* A handler that commits either saves or fails to.
LEMMA CommitSettles ==
  ASSUME IInv, NEW tab, NEW dels, NEW adds, NEW saved \in BOOLEAN,
         NEW c \in Nat, NEW f \in Nat, Spend(c, f + FaultUnless(saved)),
         Commit(tab, dels, adds, saved)
  PROVE  Settled'
<1>1. CASE saved
  BY <1>1 DEF Commit, Save, Settled
<1>2. CASE ~saved
  <2>1. f + FaultUnless(saved) \in Nat /\ f + FaultUnless(saved) > 0
    BY <1>2 DEF FaultUnless
  <2>2. used'.faults = used.faults + (f + FaultUnless(saved)) /\ used.faults \in Nat
    BY <2>1, SpendCounts DEF IInv, TypeOK, Budget
  <2>3. used'.faults # 0
    BY <2>1, <2>2
  <2> QED
    BY <2>3 DEF Settled
<1> QED
  BY <1>1, <1>2

\* The step commits an edit and takes c commands and a fault for each failure.
Commits(c) ==
  \E f \in Nat, saved \in BOOLEAN :
    /\ Spend(c, f + FaultUnless(saved))
    /\ \E tab, dels, adds : Commit(tab, dels, adds, saved)

LEMMA CommitsOwe ==
  ASSUME IInv, NEW c \in Nat, Commits(c) PROVE SomebodyWillSave'
BY CommitSettles, SettledOwes DEF Commits

LEMMA CommitSpends ==
  ASSUME NEW c \in Nat, NEW saved \in BOOLEAN, Spend(c, FaultUnless(saved)),
         NEW tab, NEW dels, NEW adds, Commit(tab, dels, adds, saved)
  PROVE  Commits(c)
<1>1. FaultUnless(saved) = 0 + FaultUnless(saved)
  BY DEF FaultUnless
<1> QED
  BY <1>1 DEF Commits

\* Material that makes no difference leaves the entry as it was.
LEMMA SameMaterial ==
  ASSUME IInv, NEW d \in Domains, NEW m \in Nat, snap[d] # None,
         ~Differs(d, m), WriteHeld(d, Refreshed(Held(d), m))
  PROVE  certs' = certs
<1>1. Held(d) \in Entry
  BY HeldIsEntry
<1>2. Refreshed(Held(d), m) = Held(d)
  BY <1>1 DEF Differs, Refreshed, Entry
<1> QED
  BY <1>2 DEF WriteHeld, Held, IInv, TypeOK

\* The scan's look at one domain: what it changes it marks.
LEMMA ReconcileOwes ==
  ASSUME LInv, NEW d \in Domains, NEW m \in {live[d], 0}, Reconcile(d, m),
         Spend(0, ReadCost(d, m)), loop'.changed = (loop.changed \/ Differs(d, m)),
         UNCHANGED <<file, task>>
  PROVE  SomebodyWillSave'
<1>1. m \in Nat /\ loop.changed \in BOOLEAN
  BY DEF LInv, IInv, TypeOK, LoopState
<1>2. CASE Differs(d, m)
  BY <1>2, SettledOwes DEF Settled
<1>3. CASE ~Differs(d, m)
  <2>1. certs' = certs /\ loop'.changed = loop.changed
    BY <1>1, <1>3, SameMaterial DEF LInv, Reconcile
  <2>2. used'.faults = used.faults + ReadCost(d, m) /\ used'.restarts = used.restarts
        /\ used.faults \in Nat /\ ReadCost(d, m) \in Nat
    BY SpendCounts, CostsAreNat DEF LInv, IInv, TypeOK, Budget
  <2>3. used'.faults = 0 => used.faults = 0
    BY <2>2
  <2> QED
    BY <2>1, <2>2, <2>3, StillOwes DEF LInv, Still
<1> QED
  BY <1>2, <1>3

\* The stamps of a connect task are markers of agent targets.
LEMMA StampedUnmarked ==
  ASSUME IInv, HoldsAgents, NEW h \in Handlers
  PROVE  Unmarked(Stamped(h)) = Unmarked(certs)
<1> SUFFICES ASSUME NEW d \in Domains
             PROVE  Unmarked(Stamped(h))[d] = Unmarked(certs)[d]
  BY DEF Unmarked
<1>1. CASE certs[d] = None
  <2>1. Stamped(h)[d] = None
    BY <1>1 DEF Stamped
  <2> QED
    BY <1>1, <2>1 DEF Unmarked
<1>2. CASE certs[d] # None
  <2>1. certs[d] \in Entry /\ Stamped(h)[d] # None
    BY <1>2, StampedType DEF IInv, TypeOK
  <2> DEFINE marks == [t \in Targets |-> IF <<d, t>> \in held[h] THEN task[h].mat
                                        ELSE certs[d].pushed[t]]
             bare(f) == [t \in Targets |-> IF t \in AgentTargets THEN 0 ELSE f[t]]
  <2>2. Stamped(h)[d] = [certs[d] EXCEPT !.pushed = marks]
    BY <1>2 DEF Stamped
  <2>3. bare(marks) = bare(certs[d].pushed)
    BY DEF HoldsAgents
  <2>4. Unmarked(certs)[d] = [certs[d] EXCEPT !.pushed = bare(certs[d].pushed)]
    BY <1>2 DEF Unmarked
  <2>5. Unmarked(Stamped(h))[d]
          = [Stamped(h)[d] EXCEPT !.pushed = bare(Stamped(h)[d].pushed)]
    BY <2>1 DEF Unmarked
  <2> HIDE DEF marks, bare
  <2>6. Stamped(h)[d].pushed = marks
    BY <2>1, <2>2 DEF Entry
  <2> QED
    BY <2>1, <2>2, <2>3, <2>4, <2>5, <2>6 DEF Entry
<1> QED
  BY <1>1, <1>2

LEMMA LoopStepOwes == LInv /\ LoopStep => SomebodyWillSave'
<1> SUFFICES ASSUME LInv, LoopStep PROVE SomebodyWillSave'
  OBVIOUS
<1>1. CASE StartScan \/ Wake
  <2>1. loop.changed = FALSE
    BY <1>1 DEF StartScan, Wake, LInv, FreshFlag
  <2>2. loop'.changed = FALSE
    BY <1>1 DEF StartScan, Wake, GoTo
  <2> QED
    BY <1>1, <2>1, <2>2, StillOwes DEF StartScan, Wake, LInv, Still
<1>2. ASSUME NEW d \in Domains, NotDue(d) PROVE SomebodyWillSave'
  <2>1. PICK m \in {live[d], 0} :
          /\ Reconcile(d, m) /\ Spend(0, ReadCost(d, m))
          /\ loop' = [loop EXCEPT !.changed = @ \/ Differs(d, m)]
    BY <1>2 DEF NotDue
  <2>2. loop'.changed = (loop.changed \/ Differs(d, m))
    BY <2>1 DEF LInv, IInv, TypeOK, LoopState
  <2> QED
    BY <1>2, <2>1, <2>2, ReconcileOwes DEF NotDue
<1>3. ASSUME NEW d \in Domains, StartRenewal(d) PROVE SomebodyWillSave'
  <2>1. PICK m \in {live[d], 0} :
          /\ Reconcile(d, m) /\ Spend(0, ReadCost(d, m))
          /\ loop' = [pc |-> "renew", cur |-> d,
                      changed |-> loop.changed \/ Differs(d, m)]
    BY <1>3 DEF StartRenewal
  <2>2. loop'.changed = (loop.changed \/ Differs(d, m))
    BY <2>1
  <2> QED
    BY <1>3, <2>1, <2>2, ReconcileOwes DEF StartRenewal
<1>4. ASSUME NEW d \in Domains, AbortScan(d) PROVE SomebodyWillSave'
  <2>1. used'.faults = used.faults + 1 /\ used.faults \in Nat
    BY <1>4, SpendCounts DEF AbortScan, LInv, IInv, TypeOK, Budget
  <2>2. used'.faults # 0
    BY <2>1
  <2> QED
    BY <2>2, SettledOwes DEF Settled
<1>5. CASE RecordRenewal \/ RenewalTimeout
  <2>1. loop'.changed = TRUE
    BY <1>5 DEF RecordRenewal, RenewalTimeout, Notify
  <2> QED
    BY <2>1, SettledOwes DEF Settled
<1>6. CASE SkipRemoved \/ Notified
  <2>1. loop'.changed = loop.changed
    BY <1>6 DEF SkipRemoved, Notified, LInv, IInv, TypeOK, LoopState
  <2> QED
    BY <1>6, <2>1, StillOwes DEF SkipRemoved, Notified, LInv, Still
<1>7. CASE EndScan
  <2>1. PICK saved \in BOOLEAN :
          /\ ~loop.changed => saved
          /\ Spend(0, FaultUnless(saved))
          /\ file' = IF loop.changed /\ saved THEN certs ELSE file
    BY <1>7 DEF EndScan
  <2>2. loop'.changed = FALSE /\ UNCHANGED <<certs, task>>
    BY <1>7 DEF EndScan, GoTo
  <2>3. used'.faults = used.faults + FaultUnless(saved) /\ used'.restarts = used.restarts
        /\ used.faults \in Nat
    BY <2>1, SpendCounts, CostsAreNat DEF LInv, IInv, TypeOK, Budget
  <2>4. CASE saved /\ loop.changed
    BY <2>1, <2>2, <2>4, SettledOwes DEF Settled
  <2>5. CASE ~saved
    <3>1. used'.faults # 0
      BY <2>3, <2>5 DEF FaultUnless
    <3> QED
      BY <3>1, SettledOwes DEF Settled
  <2>6. CASE ~loop.changed
    <3>1. loop.changed = FALSE
      BY <2>6 DEF LInv, IInv, TypeOK, LoopState
    <3>2. file' = file /\ used'.faults = used.faults
      BY <2>1, <2>3, <2>6 DEF FaultUnless
    <3> QED
      BY <2>2, <2>3, <3>1, <3>2, StillOwes DEF LInv, Still
  <2> QED
    BY <2>4, <2>5, <2>6
<1> QED
  BY <1>1, <1>2, <1>3, <1>4, <1>5, <1>6, <1>7 DEF LoopStep

LEMMA ResumeOwes ==
  ASSUME LInv, NEW h \in Handlers, Resume(h) PROVE SomebodyWillSave'
<1> USE CostsAreNat
<1>1. CASE IssueDone(h)
  <2>1. CASE res[h] = "ok"
    <3>1. PICK m \in {live[task[h].dom], 0}, saved \in BOOLEAN :
            /\ Spend(0, ReadCost(task[h].dom, m) + FaultUnless(saved))
            /\ \E tab, dels, adds : Commit(tab, dels, adds, saved)
      BY <1>1, <2>1 DEF IssueDone
    <3> QED
      BY <3>1, CommitsOwe DEF LInv, Commits
  <2>2. CASE res[h] # "ok"
    <3>1. PICK saved \in BOOLEAN :
            Spend(0, FaultUnless(saved)) /\ RecordIssue(task[h].dom, saved)
      BY <1>1, <2>2 DEF IssueDone
    <3> QED
      BY <3>1, CommitSpends, CommitsOwe DEF RecordIssue, LInv
  <2> QED
    BY <2>1, <2>2
<1>2. CASE RevokeDone(h)
  <2>1. CASE res[h] = "ok"
    <3>1. Commits(0)
      BY CommitSpends, <1>2, <2>1 DEF RevokeDone
    <3> QED
      BY <3>1, CommitsOwe DEF LInv
  <2>2. CASE res[h] # "ok"
    <3>1. \A g \in Handlers : task[g].op = "renew" => task'[g].op = "renew"
      BY <1>2, <2>2 DEF RevokeDone, Awaits, Finish, LInv, IInv, TypeOK
    <3> QED
      BY <1>2, <2>2, <3>1, StillOwes DEF RevokeDone, LInv, Still
  <2> QED
    BY <2>1, <2>2
<1>3. ASSUME NEW t \in AgentTargets, DeployDone(h, t) PROVE SomebodyWillSave'
  <2>1. CASE certs[task[h].dom] # None
    <3>1. Commits(0)
      BY CommitSpends, <1>3, <2>1 DEF DeployDone
    <3> QED
      BY <3>1, CommitsOwe DEF LInv
  <2>2. CASE certs[task[h].dom] = None
    <3>1. \A g \in Handlers : task[g].op = "renew" => task'[g].op = "renew"
      BY <1>3, <2>2 DEF DeployDone, Finish, LInv, IInv, TypeOK
    <3> QED
      BY <1>3, <2>2, <3>1, StillOwes DEF DeployDone, LInv, Still
  <2> QED
    BY <2>1, <2>2
<1>4. CASE RenewOutcome(h)
  <2>1. task'[h].op = "renew"
    BY <1>4 DEF RenewOutcome, Awaits, LInv, IInv, TypeOK, TaskState
  <2> QED
    BY <2>1 DEF SomebodyWillSave
<1>5. ASSUME NEW d \in Domains, RenewNext(h, d) PROVE SomebodyWillSave'
  <2>1. task[h].op = "renew" /\ task'[h].op = task[h].op
    BY <1>5 DEF RenewNext, RenewMoves, Awaits, LInv, IInv, TypeOK, TaskState
  <2> QED
    BY <2>1 DEF SomebodyWillSave
<1>6. CASE RenewDone(h)
  <2>1. PICK saved \in BOOLEAN : Spend(0, FaultUnless(saved)) /\ Save(certs, saved)
    BY <1>6 DEF RenewDone
  <2>2. used'.faults = used.faults + FaultUnless(saved) /\ used.faults \in Nat
    BY <2>1, SpendCounts DEF LInv, IInv, TypeOK, Budget
  <2>3. CASE saved
    BY <1>6, <2>1, <2>3, SettledOwes DEF RenewDone, Save, Settled
  <2>4. CASE ~saved
    <3>1. used'.faults # 0
      BY <2>2, <2>4 DEF FaultUnless
    <3> QED
      BY <3>1, SettledOwes DEF Settled
  <2> QED
    BY <2>3, <2>4
<1>7. CASE RenewAborts(h)
  <2>1. used'.faults = used.faults + 1 /\ used.faults \in Nat
    BY <1>7, SpendCounts DEF RenewAborts, LInv, IInv, TypeOK, Budget
  <2>2. used'.faults # 0
    BY <2>1
  <2> QED
    BY <2>2, SettledOwes DEF Settled
<1>8. CASE PushNext(h)
  <2>1. \A g \in Handlers : task[g].op = "renew" => task'[g].op = "renew"
    BY <1>8 DEF PushNext, BeginPush, Suspend, LInv, IInv, TypeOK
  <2>2. Unmarked(certs') = Unmarked(certs) /\ UNCHANGED <<file, loop, used>>
    BY <1>8, StampedUnmarked DEF PushNext, LInv
  <2> QED
    BY <2>1, <2>2, StillOwes DEF LInv, Still
<1>9. CASE PushesDone(h)
  <2>1. PICK ok \in BOOLEAN, saved \in BOOLEAN :
          /\ ~(task[h].flag \/ ok) => saved
          /\ Spend(0, FaultUnless(saved))
          /\ file' = IF (task[h].flag \/ ok) /\ saved THEN Stamped(h) ELSE file
    BY <1>9 DEF PushesDone
  <2>2. certs' = Stamped(h) /\ loop' = loop /\ Unmarked(certs') = Unmarked(certs)
    BY <1>9, StampedUnmarked DEF PushesDone, LInv
  <2>3. used'.faults = used.faults + FaultUnless(saved)
        /\ used'.restarts = used.restarts /\ used.faults \in Nat
    BY <2>1, SpendCounts DEF LInv, IInv, TypeOK, Budget
  <2>4. CASE file' = Stamped(h)
    BY <2>2, <2>4, SettledOwes DEF Settled
  <2>5. CASE ~saved
    <3>1. used'.faults # 0
      BY <2>3, <2>5 DEF FaultUnless
    <3> QED
      BY <3>1, SettledOwes DEF Settled
  <2>6. CASE saved /\ file' = file
    <3>1. used'.faults = used.faults
      BY <2>3, <2>6 DEF FaultUnless
    <3>2. \A g \in Handlers : task[g].op = "renew" => task'[g].op = "renew"
      BY <1>9 DEF PushesDone, Finish, LInv, IInv, TypeOK
    <3> QED
      BY <2>2, <2>3, <2>6, <3>1, <3>2, StillOwes DEF LInv, Still
  <2> QED
    BY <2>1, <2>4, <2>5, <2>6
<1> QED
  BY <1>1, <1>2, <1>3, <1>4, <1>5, <1>6, <1>7, <1>8, <1>9 DEF Resume

LEMMA CommandOwes == LInv /\ Command => SomebodyWillSave'
<1> SUFFICES ASSUME LInv, Command PROVE SomebodyWillSave'
  OBVIOUS
<1>1. CASE UpdateConfig
  <2>1. used'.restarts = used.restarts + 1 /\ used.restarts \in Nat
    BY <1>1 DEF UpdateConfig, LInv, IInv, TypeOK, Budget
  <2>2. used'.restarts # 0
    BY <2>1
  <2> QED
    BY <2>2, SettledOwes DEF Settled
<1>2. ASSUME NEW d \in Domains,
             \/ RefuseIssue(d)
             \/ \E t \in Targets :
                  \/ AddTarget(d, t) \/ RemoveTarget(d, t)
                  \/ \E v \in 1..issued[d] : MarkDistributed(d, t, v)
      PROVE  SomebodyWillSave'
  <2>1. CASE RefuseIssue(d)
    <3>1. Commits(1)
      BY <2>1, CommitSpends DEF RefuseIssue, RecordIssue
    <3> QED
      BY <3>1, CommitsOwe DEF LInv
  <2>2. ASSUME NEW t \in Targets, AddTarget(d, t) PROVE SomebodyWillSave'
    <3>1. Commits(1)
      BY <2>2, CommitSpends DEF AddTarget
    <3> QED
      BY <3>1, CommitsOwe DEF LInv
  <2>3. ASSUME NEW t \in Targets, RemoveTarget(d, t) PROVE SomebodyWillSave'
    <3>1. Commits(1)
      BY <2>3, CommitSpends DEF RemoveTarget
    <3> QED
      BY <3>1, CommitsOwe DEF LInv
  <2>4. ASSUME NEW t \in Targets, NEW v \in 1..issued[d], MarkDistributed(d, t, v)
        PROVE  SomebodyWillSave'
    <3>1. Commits(1)
      BY <2>4, CommitSpends DEF MarkDistributed
    <3> QED
      BY <3>1, CommitsOwe DEF LInv
  <2> QED
    BY <1>2, <2>1, <2>2, <2>3, <2>4
<1>3. ASSUME NEW h \in Handlers, Request(h) PROVE SomebodyWillSave'
  <2>1. PICK op \in {"issue", "renew", "revoke", "deploy", "connect"} :
          \E d, pc, todo, req, flag, m : Suspend(h, op, d, pc, todo, req, flag, m)
    <3>1. ASSUME NEW d \in Domains, Connect(h, d)
          PROVE  \E pc, todo, req, flag, m :
                   Suspend(h, "connect", d, pc, todo, req, flag, m)
      BY <3>1 DEF Connect, BeginPush
    <3> QED
      BY <1>3, <3>1
         DEF Request, SetClientAuth, IssueCert, RenewCert, RevokeCert, DeployToAgent
  <2>2. task[h] = Idle /\ Spend(1, 0) /\ UNCHANGED <<certs, file, loop>>
    BY <1>3 DEF Request, SetClientAuth, IssueCert, RenewCert, RevokeCert,
      DeployToAgent, Connect
  <2>3. \A g \in Handlers : task[g].op = "renew" => task'[g].op = "renew"
    BY <2>1, <2>2 DEF Suspend, Idle, LInv, IInv, TypeOK
  <2>4. used'.faults = used.faults + 0 /\ used'.restarts = used.restarts
        /\ used.faults \in Nat
    BY <2>2, SpendCounts DEF LInv, IInv, TypeOK, Budget
  <2>5. used'.faults = used.faults
    BY <2>4
  <2> QED
    BY <2>2, <2>3, <2>4, <2>5, StillOwes DEF LInv, Still
<1> QED
  BY <1>1, <1>2, <1>3 DEF Command

LEMMA OutsideOwes == LInv /\ (Certbot \/ Environment \/ Crash) => SomebodyWillSave'
<1> SUFFICES ASSUME LInv, Certbot \/ Environment \/ Crash PROVE SomebodyWillSave'
  OBVIOUS
<1>1. CASE Certbot
  BY <1>1, StillOwes
     DEF Certbot, CertbotSucceeds, CertbotFails, Exit, LInv, Still
<1>2. CASE Environment
  <2>1. used'.faults = used.faults /\ used'.restarts = used.restarts
    BY <1>2 DEF Environment, RenewedOutOfBand, Age, LInv, IInv, TypeOK, Budget
  <2> QED
    BY <1>2, <2>1, StillOwes DEF Environment, RenewedOutOfBand, Age, LInv, Still
<1>3. CASE Crash
  BY <1>3, SettledOwes DEF Crash, Settled
<1> QED
  BY <1>1, <1>2, <1>3

LEMMA FreshFlagNext == IInv /\ FreshFlag /\ Next => FreshFlag'
<1> SUFFICES ASSUME IInv, FreshFlag, Next PROVE FreshFlag'
  OBVIOUS
<1>1. CASE UNCHANGED loop
  BY <1>1 DEF FreshFlag
<1>2. ASSUME NEW pc, GoTo(pc) PROVE FreshFlag'
  BY <1>2 DEF GoTo, FreshFlag
<1>3. CASE loop'.pc \in {"scan", "renew", "notify"}
  BY <1>3 DEF FreshFlag
<1>4. CASE LoopStep
  <2>1. CASE StartScan \/ EndScan \/ Wake \/ \E d \in Domains : AbortScan(d)
    BY <1>2, <2>1 DEF StartScan, EndScan, Wake, AbortScan
  <2>2. CASE \/ SkipRemoved \/ RecordRenewal \/ RenewalTimeout \/ Notified
             \/ \E d \in Domains : NotDue(d) \/ StartRenewal(d)
    <3>1. loop'.pc \in {"scan", "renew", "notify"}
      <4>1. ASSUME NEW d \in Domains, NotDue(d) PROVE loop'.pc = "scan"
        BY <4>1 DEF NotDue, Reconcile, IInv, TypeOK, LoopState
      <4>2. ASSUME NEW d \in Domains, StartRenewal(d) PROVE loop'.pc = "renew"
        BY <4>2 DEF StartRenewal
      <4>3. CASE RecordRenewal \/ RenewalTimeout
        BY <4>3 DEF RecordRenewal, RenewalTimeout, Notify
      <4>4. CASE SkipRemoved \/ Notified
        BY <4>4 DEF SkipRemoved, Notified, IInv, TypeOK, LoopState
      <4> QED
        BY <2>2, <4>1, <4>2, <4>3, <4>4
    <3> QED
      BY <1>3, <3>1
  <2> QED
    BY <1>4, <2>1, <2>2 DEF LoopStep
<1>5. ASSUME NEW h \in Handlers, Resume(h) PROVE UNCHANGED loop
  BY <1>5 DEF Resume, IssueDone, RevokeDone, RenewOutcome, RenewNext, RenewDone,
    RenewAborts, DeployDone, PushNext, PushesDone
<1>6. CASE Command
  <2>1. ASSUME NEW h \in Handlers, Request(h) PROVE UNCHANGED loop
    BY <2>1 DEF Request, SetClientAuth, IssueCert, RenewCert, RevokeCert,
      DeployToAgent, Connect
  <2> QED
    BY <1>1, <1>2, <1>6, <2>1 DEF Command, UpdateConfig, RefuseIssue, AddTarget,
      RemoveTarget, MarkDistributed
<1>7. CASE Certbot \/ Environment
  BY <1>1, <1>7 DEF Certbot, CertbotSucceeds, CertbotFails, Exit, Environment,
    RenewedOutOfBand, Age
<1>8. CASE Crash
  BY <1>2, <1>8 DEF Crash
<1> QED
  BY <1>1, <1>4, <1>5, <1>6, <1>7, <1>8 DEF Next

LEMMA HoldsNext == IInv /\ HoldsAgents /\ Next => HoldsAgents'
<1> SUFFICES ASSUME IInv, HoldsAgents, Next PROVE HoldsAgents'
  OBVIOUS
<1> DEFINE Less == \A g \in Handlers :
             /\ held'[g] \subseteq held[g]
             /\ task'[g].op = "connect" =>
                  task[g].op = "connect" /\ task'[g].req = task[g].req
<1>1. Less => HoldsAgents'
  BY DEF HoldsAgents
<1>2. ASSUME NEW h \in Handlers, NEW d \in Domains, NEW rest, NEW match, NEW flag,
             NEW objects, BeginPush(h, d, rest, match, flag, objects),
             match \subseteq AgentTargets
      PROVE  HoldsAgents'
  <2>1. /\ task'[h].op = "connect" /\ task'[h].req = match
        /\ \A g \in Handlers : g # h => task'[g] = task[g] /\ held'[g] = held[g]
    BY <1>2 DEF BeginPush, Suspend, IInv, TypeOK
  <2>2. \A x \in Domains, t \in Targets : <<x, t>> \in held'[h] => t \in AgentTargets
    BY <1>2, NamesAssumption DEF BeginPush, IInv, TypeOK
  <2> QED
    BY <1>2, <2>1, <2>2 DEF HoldsAgents
<1>3. CASE UNCHANGED <<task, held>>
  BY <1>1, <1>3
<1>4. ASSUME NEW h \in Handlers, Resume(h) PROVE HoldsAgents'
  <2>1. CASE PushNext(h)
    BY <1>2, <2>1 DEF PushNext, HoldsAgents, IInv, TypeOK, TaskState
  <2>2. CASE PushesDone(h)
    <3>1. /\ task'[h].op = "idle" /\ held'[h] = {}
          /\ \A g \in Handlers : g # h => task'[g] = task[g] /\ held'[g] = held[g]
      BY <2>2 DEF PushesDone, Finish, Idle, IInv, TypeOK
    <3> QED
      BY <1>1, <3>1
  <2>3. CASE RenewOutcome(h) \/ \E d \in Domains : RenewNext(h, d)
    <3>1. held' = held
      BY <2>3 DEF RenewOutcome, RenewNext
    <3>2. CASE RenewOutcome(h)
      <4>1. \A g \in Handlers : task'[g].op = task[g].op /\ task'[g].req = task[g].req
        BY <3>2 DEF RenewOutcome, IInv, TypeOK, TaskState
      <4> QED
        BY <1>1, <3>1, <4>1
    <3>3. ASSUME NEW d \in Domains, RenewNext(h, d) PROVE HoldsAgents'
      <4>1. \A g \in Handlers : task'[g].op = task[g].op /\ task'[g].req = task[g].req
        BY <3>3 DEF RenewNext, IInv, TypeOK, TaskState
      <4> QED
        BY <1>1, <3>1, <4>1
    <3> QED
      BY <2>3, <3>2, <3>3
  <2>4. CASE \/ IssueDone(h) \/ RevokeDone(h) \/ RenewDone(h) \/ RenewAborts(h)
             \/ \E t \in AgentTargets : DeployDone(h, t)
    <3>1. task'[h].op = "idle" /\ \A g \in Handlers : g # h => task'[g] = task[g]
      <4>1. Finish(h)
        BY <2>4 DEF IssueDone, RevokeDone, RenewDone, RenewAborts, DeployDone
      <4> QED
        BY <4>1 DEF Finish, Idle, IInv, TypeOK
    <3>2. \A g \in Handlers : held'[g] \subseteq held[g]
      BY <2>4 DEF IssueDone, RevokeDone, RenewDone, RenewAborts, DeployDone, Detach
    <3> QED
      BY <1>1, <3>1, <3>2
  <2> QED
    BY <1>4, <2>1, <2>2, <2>3, <2>4 DEF Resume
<1>5. CASE Command
  <2>1. ASSUME NEW d \in Domains, NEW t \in Targets, RemoveTarget(d, t)
        PROVE  HoldsAgents'
    BY <1>1, <2>1 DEF RemoveTarget
  <2>2. ASSUME NEW h \in Handlers, NEW d \in Domains, Connect(h, d)
        PROVE  HoldsAgents'
    BY <1>2, <2>2 DEF Connect
  <2>3. ASSUME NEW h \in Handlers, Request(h), \A d \in Domains : ~Connect(h, d)
        PROVE  HoldsAgents'
    <3>1. PICK op \in {"issue", "renew", "revoke", "deploy"} :
            \E d, pc, todo, req, flag, m : Suspend(h, op, d, pc, todo, req, flag, m)
      BY <2>3
         DEF Request, SetClientAuth, IssueCert, RenewCert, RevokeCert, DeployToAgent
    <3>2. task'[h].op = op /\ \A g \in Handlers : g # h => task'[g] = task[g]
      BY <3>1 DEF Suspend, IInv, TypeOK
    <3>3. held' = held
      BY <2>3
         DEF Request, SetClientAuth, IssueCert, RenewCert, RevokeCert, DeployToAgent
    <3> QED
      BY <1>1, <3>2, <3>3
  <2>4. ASSUME NEW d \in Domains,
               \/ RefuseIssue(d)
               \/ \E t \in Targets : \/ AddTarget(d, t)
                                    \/ \E v \in 1..issued[d] : MarkDistributed(d, t, v)
        PROVE  HoldsAgents'
    BY <1>3, <2>4 DEF RefuseIssue, AddTarget, MarkDistributed
  <2>5. CASE UpdateConfig
    BY <1>3, <2>5 DEF UpdateConfig
  <2> QED
    BY <1>5, <2>1, <2>2, <2>3, <2>4, <2>5 DEF Command, Request
<1>6. CASE LoopStep
  BY <1>3, <1>6 DEF LoopStep, StartScan, NotDue, StartRenewal, AbortScan, SkipRemoved,
    RecordRenewal, RenewalTimeout, Notified, EndScan, Wake
<1>7. CASE Certbot \/ Environment
  BY <1>3, <1>7 DEF Certbot, CertbotSucceeds, CertbotFails, Exit, Environment,
    RenewedOutOfBand, Age
<1>8. CASE Crash
  BY <1>1, <1>8 DEF Crash, Idle
<1> QED
  BY <1>4, <1>5, <1>6, <1>7, <1>8 DEF Next

\* As long as no save failed and no renewal task was cancelled, a change to the
\* ledger that is not in its file, other than the push marker of an agent target,
\* is owed a save: by the renewal task's `changed` flag or by a renew command
\* (le_spoke.py:253, 838).  A connect task in which no deploy succeeded leaves
\* such markers unsaved (le_spoke.py:1042-1053).
THEOREM SavesAreOwed == Spec => []SomebodyWillSave
<1>1. Init => LInv
  <2>1. Init => FreshFlag
    BY DEF Init, FreshFlag
  <2>2. Init => SomebodyWillSave
    BY DEF Init, SomebodyWillSave
  <2>3. Init => HoldsAgents
    BY DEF Init, HoldsAgents, Idle
  <2> QED
    BY <2>1, <2>2, <2>3, InitInv DEF LInv
<1>2. LInv /\ UNCHANGED vars => LInv'
  <2>1. LInv /\ UNCHANGED vars => IInv'
    BY NextInv DEF LInv
  <2> QED
    BY <2>1 DEF LInv, vars, FreshFlag, HoldsAgents, SomebodyWillSave
<1>3. LInv /\ Next => LInv'
  BY NextInv, FreshFlagNext, HoldsNext, LoopStepOwes, ResumeOwes, CommandOwes, OutsideOwes
     DEF LInv, Next
<1>4. LInv => SomebodyWillSave
  BY DEF LInv
<1> QED
  BY <1>1, <1>2, <1>3, <1>4, PTL DEF Spec

-----------------------------------------------------------------------------
(* No task takes an entry back to older material.                          *)

\* What a table knows of a domain is not newer than what is on disk, unless the
\* files are gone, and never newer than what was issued.
KnownAt(tab, d) ==
  tab[d] # None =>
    tab[d].mat <= issued[d] /\ (live[d] = 0 \/ tab[d].mat <= live[d])

MaterialKnown ==
  \A d \in Domains : live[d] <= issued[d] /\ KnownAt(certs, d) /\ KnownAt(file, d)

\* A handler that certbot runs for waits for that very run.
RunMatches ==
  bot # None /\ bot.who \in Handlers =>
    /\ res[bot.who] = "run" /\ task[bot.who].pc = "certbot"
    /\ task[bot.who].op = bot.op /\ task[bot.who].dom = bot.dom

\* While the outcome of an issue that succeeded waits to be delivered, its files
\* stay on disk: certbot's next run does not end before.
IssuedOnDisk ==
  \A h \in Handlers :
    res[h] = "ok" /\ task[h].op = "issue" => live[task[h].dom] # 0

MInv == IInv /\ MaterialKnown /\ RunMatches /\ IssuedOnDisk

\* The material that a step of the spoke gives an entry: what it had, what is on
\* disk, or none in a new entry and after a read that failed.
Takes(d) ==
  \/ certs'[d] = certs[d]
  \/ certs'[d] = None
  \/ certs'[d].mat = live[d] /\ live[d] # 0
  \/ certs[d] # None /\ certs'[d].mat = certs[d].mat
  \/ certs'[d].mat = 0 /\ (certs[d] = None \/ used'.faults > used.faults)

\* A step of the spoke itself, which a restart and certbot are not.
SpokeStep ==
  /\ \A d \in Domains : Takes(d)
  /\ file' \in {file, certs'}
  /\ UNCHANGED disk
  /\ certs' \in Table

Advances(d) ==
  certs[d] # None /\ certs'[d] # None =>
    \/ certs'[d].mat >= certs[d].mat
    \/ certs'[d].mat = 0 /\ used'.faults > used.faults

LEMMA SpokeStepAdvances ==
  ASSUME MInv, SpokeStep, NEW d \in Domains PROVE Advances(d)
<1>1. /\ certs[d] # None => certs[d] \in Entry
      /\ certs'[d] # None => certs'[d] \in Entry
      /\ live[d] \in Nat
  BY DEF MInv, IInv, TypeOK, SpokeStep, Table
<1>2. Takes(d) /\ (certs[d] # None => live[d] = 0 \/ certs[d].mat <= live[d])
  BY DEF SpokeStep, MInv, MaterialKnown, KnownAt
<1> QED
  BY <1>1, <1>2 DEF Takes, Advances, Entry

LEMMA SpokeStepKnows == MInv /\ SpokeStep => MaterialKnown'
<1> SUFFICES ASSUME MInv, SpokeStep, NEW d \in Domains
             PROVE  live'[d] <= issued'[d] /\ (KnownAt(certs, d))' /\ (KnownAt(file, d))'
  BY DEF MaterialKnown
<1>1. /\ certs[d] # None => certs[d] \in Entry
      /\ certs'[d] # None => certs'[d] \in Entry
      /\ live[d] \in Nat /\ issued[d] \in Nat /\ live' = live /\ issued' = issued
  BY DEF MInv, IInv, TypeOK, SpokeStep, Table, disk
<1>2. Takes(d) /\ live[d] <= issued[d] /\ KnownAt(certs, d) /\ KnownAt(file, d)
  BY DEF SpokeStep, MInv, MaterialKnown
<1>3. (KnownAt(certs, d))'
  BY <1>1, <1>2 DEF Takes, KnownAt, Entry
<1>4. (KnownAt(file, d))'
  <2>1. CASE file' = file
    BY <1>1, <1>2, <2>1 DEF KnownAt
  <2>2. CASE file' = certs'
    BY <1>3, <2>2 DEF KnownAt
  <2> QED
    BY <2>1, <2>2 DEF SpokeStep
<1> QED
  BY <1>1, <1>2, <1>3, <1>4

\* The edits of an entry and its material.
LEMMA EditMaterial ==
  ASSUME NEW e \in Entry, NEW t \in Targets, NEW m \in Nat, NEW v \in Nat
  PROVE  /\ AddedTarget(e, t).mat = e.mat
         /\ RemovedTarget(e, t).mat = e.mat
         /\ Pushed(e, t, v).mat = e.mat
         /\ Pushed(AddedTarget(e, t), t, v).mat = e.mat
         /\ RenewFailed(e).mat = e.mat
         /\ Refreshed(e, m).mat = (IF m = 0 THEN e.mat ELSE m)
         /\ Renewed(e, m).mat = (IF m = 0 THEN e.mat ELSE m)
BY DEF Entry, AddedTarget, RemovedTarget, Pushed, RenewFailed, Refreshed, Renewed

\* A step that edits one entry, or none.
LEMMA EditIsSpokeStep ==
  ASSUME IInv, IInv', NEW d \in Domains, Takes(d), file' \in {file, certs'},
         UNCHANGED disk, \A x \in Domains : x # d => certs'[x] = certs[x]
  PROVE  SpokeStep
BY DEF SpokeStep, Takes, IInv, TypeOK, Table

LEMMA LeaveIsSpokeStep ==
  ASSUME IInv, UNCHANGED <<certs, disk>>, file' \in {file, certs}
  PROVE  SpokeStep
BY DEF SpokeStep, Takes, IInv, TypeOK, Table

LEMMA CommitEdits ==
  ASSUME IInv, NEW d \in Domains, NEW e, NEW dels, NEW adds, NEW saved \in BOOLEAN,
         Commit([certs EXCEPT ![d] = e], dels, adds, saved)
  PROVE  /\ certs'[d] = e
         /\ \A x \in Domains : x # d => certs'[x] = certs[x]
         /\ file' \in {file, certs'}
BY DEF IInv, TypeOK, Commit, Save

\* A renewal outcome, or the scan's look, writes through the snapshot's object.
LEMMA WriteHeldTakes ==
  ASSUME IInv, NEW d \in Domains, NEW e, snap[d] # None, WriteHeld(d, e),
         \/ e.mat = live[d] /\ live[d] # 0
         \/ e.mat = Held(d).mat
  PROVE  /\ Takes(d)
         /\ \A x \in Domains : x # d => certs'[x] = certs[x]
<1>1. CASE snap[d] = Attached
  <2>1. certs' = [certs EXCEPT ![d] = e] /\ Held(d) = certs[d] /\ certs[d] # None
    BY <1>1 DEF WriteHeld, Held, IInv, AttachedInLedger
  <2> QED
    BY <2>1 DEF Takes, IInv, TypeOK
<1>2. CASE snap[d] # Attached
  BY <1>2 DEF WriteHeld, Takes
<1> QED
  BY <1>1, <1>2

LEMMA LoopStepTakes ==
  ASSUME MInv, IInv', LoopStep PROVE SpokeStep
<1>1. CASE StartScan \/ SkipRemoved \/ Notified \/ Wake \/ EndScan
  <2>1. UNCHANGED <<certs, disk>> /\ file' \in {file, certs}
    BY <1>1 DEF StartScan, SkipRemoved, Notified, Wake, EndScan
  <2> QED
    BY <2>1, LeaveIsSpokeStep DEF MInv
<1>2. ASSUME NEW d \in Domains, NotDue(d) \/ StartRenewal(d) \/ AbortScan(d)
      PROVE  SpokeStep
  <2>1. PICK m \in {live[d], 0} : Reconcile(d, m)
    BY <1>2 DEF NotDue, StartRenewal, AbortScan
  <2>2. snap[d] # None /\ Held(d) \in Entry /\ m \in Nat
    BY <2>1, HeldIsEntry DEF Reconcile, MInv, IInv, TypeOK
  <2>3. Refreshed(Held(d), m).mat = (IF m = 0 THEN Held(d).mat ELSE m)
    BY <2>2 DEF Refreshed, Entry
  <2>4. Takes(d) /\ \A x \in Domains : x # d => certs'[x] = certs[x]
    BY <2>1, <2>2, <2>3, WriteHeldTakes DEF Reconcile, MInv
  <2>5. UNCHANGED <<file, disk>>
    BY <1>2 DEF NotDue, StartRenewal, AbortScan
  <2> QED
    BY <2>4, <2>5, EditIsSpokeStep DEF MInv
<1>3. CASE RecordRenewal \/ RenewalTimeout
  <2> DEFINE d == loop.cur
  <2>1. d \in Domains /\ snap[d] # None /\ live[d] \in Nat
    BY <1>3 DEF MInv, IInv, TypeOK, TasksKnowDomain, RecordRenewal, RenewalTimeout,
      RenewalOutcome
  <2>2. Held(d) \in Entry
    BY <2>1, HeldIsEntry DEF MInv
  <2>3. \E e : WriteHeld(d, e) /\ (\/ e.mat = live[d] /\ live[d] # 0
                                   \/ e.mat = Held(d).mat)
    <3>1. \A m \in Nat : Renewed(Held(d), m).mat = (IF m = 0 THEN Held(d).mat ELSE m)
      BY <2>2 DEF Renewed, Refreshed, Entry
    <3>2. RenewFailed(Held(d)).mat = Held(d).mat
      BY <2>2 DEF RenewFailed, Entry
    <3> QED
      BY <1>3, <2>1, <3>1, <3>2 DEF RecordRenewal, RenewalTimeout, Notify
  <2>4. UNCHANGED <<file, disk>>
    BY <1>3 DEF RecordRenewal, RenewalTimeout
  <2> HIDE DEF d
  <2>5. Takes(d) /\ \A x \in Domains : x # d => certs'[x] = certs[x]
    BY <2>1, <2>3, WriteHeldTakes DEF MInv
  <2> QED
    BY <2>1, <2>4, <2>5, EditIsSpokeStep DEF MInv
<1> QED
  BY <1>1, <1>2, <1>3 DEF LoopStep

LEMMA RecordIssueTakes ==
  ASSUME MInv, IInv', NEW d \in Domains, NEW saved \in BOOLEAN,
         RecordIssue(d, saved), UNCHANGED disk
  PROVE  SpokeStep
<1>1. Commit([certs EXCEPT ![d] = Refused(certs[d])], {}, {<<d, Managed>>}, saved)
  BY DEF RecordIssue
<1>2. /\ certs'[d] = Refused(certs[d])
      /\ \A x \in Domains : x # d => certs'[x] = certs[x]
      /\ file' \in {file, certs'}
  BY <1>1, CommitEdits DEF MInv
<1>3. IF certs[d] = None THEN certs'[d].mat = 0 ELSE certs'[d].mat = certs[d].mat
  BY <1>2 DEF Refused, Entry, MInv, IInv, TypeOK
<1>4. Takes(d)
  BY <1>3 DEF Takes
<1> QED
  BY <1>2, <1>4, EditIsSpokeStep DEF MInv

LEMMA IssueDoneTakes ==
  ASSUME MInv, IInv', NEW h \in Handlers, IssueDone(h) PROVE SpokeStep
<1>1. PICK d \in Domains, ts \in SUBSET Targets :
        d = task[h].dom /\ ts = task[h].req
  BY DEF MInv, IInv, TypeOK, TasksKnowDomain, IssueDone, Awaits, TaskState
<1>2. CASE res[h] = "ok"
  <2>1. PICK m \in {live[d], 0}, saved \in BOOLEAN :
          /\ Spend(0, ReadCost(d, m) + FaultUnless(saved))
          /\ Commit([certs EXCEPT ![d] = Reissued(certs[d], m, ts)], {},
                    {<<d, Managed>>} \cup ({d} \X ts), saved)
    BY <1>1, <1>2 DEF IssueDone
  <2>2. /\ certs'[d] = Reissued(certs[d], m, ts)
        /\ \A x \in Domains : x # d => certs'[x] = certs[x]
        /\ file' \in {file, certs'}
    BY <2>1, CommitEdits DEF MInv
  <2>3. certs'[d].mat = m
    BY <2>2 DEF Reissued
  <2>4. live[d] # 0 /\ live[d] \in Nat
    BY <1>1, <1>2 DEF MInv, IInv, TypeOK, IssuedOnDisk, IssueDone, Awaits
  <2>5. m = 0 => used'.faults > used.faults
    <3>1. /\ ReadCost(d, m) + FaultUnless(saved) \in Nat
          /\ m = 0 => ReadCost(d, m) + FaultUnless(saved) > 0
      BY <2>4 DEF ReadCost, FaultUnless
    <3> HIDE DEF ReadCost, FaultUnless
    <3>2. /\ used'.faults = used.faults + (ReadCost(d, m) + FaultUnless(saved))
          /\ used.faults \in Nat
      BY <2>1, <3>1, SpendCounts DEF MInv, IInv, TypeOK, Budget
    <3> QED
      BY <3>1, <3>2
  <2>6. Takes(d)
    BY <2>3, <2>4, <2>5 DEF Takes
  <2> QED
    BY <2>2, <2>6, EditIsSpokeStep DEF MInv, IssueDone
<1>3. CASE res[h] # "ok"
  <2>1. PICK saved \in BOOLEAN : RecordIssue(d, saved)
    BY <1>1, <1>3 DEF IssueDone
  <2> QED
    BY <2>1, RecordIssueTakes DEF IssueDone
<1> QED
  BY <1>2, <1>3

LEMMA ResumeTakes ==
  ASSUME MInv, IInv', NEW h \in Handlers, Resume(h) PROVE SpokeStep
<1>1. CASE RevokeDone(h)
  <2>1. task[h].dom \in Domains /\ UNCHANGED disk
    BY <1>1 DEF MInv, IInv, TypeOK, TasksKnowDomain, RevokeDone, Awaits
  <2>2. CASE res[h] = "ok"
    <3>1. PICK d \in Domains, saved \in BOOLEAN :
            Commit([certs EXCEPT ![d] = None], FactsOf(d), {}, saved)
      BY <1>1, <2>1, <2>2 DEF RevokeDone
    <3>2. /\ certs'[d] = None
          /\ \A x \in Domains : x # d => certs'[x] = certs[x]
          /\ file' \in {file, certs'}
      BY <3>1, CommitEdits DEF MInv
    <3> QED
      BY <2>1, <3>2, EditIsSpokeStep DEF MInv, Takes
  <2>3. CASE res[h] # "ok"
    BY <1>1, <2>1, <2>3, LeaveIsSpokeStep DEF RevokeDone, MInv
  <2> QED
    BY <2>2, <2>3
<1>2. ASSUME NEW t \in AgentTargets, DeployDone(h, t) PROVE SpokeStep
  <2>1. PICK d \in Domains, m \in Nat : d = task[h].dom /\ m = task[h].mat
    BY <1>2 DEF MInv, IInv, TypeOK, TasksKnowDomain, DeployDone, TaskState
  <2>2. UNCHANGED disk
    BY <1>2 DEF DeployDone
  <2>3. CASE certs[d] = None
    BY <1>2, <2>1, <2>2, <2>3, LeaveIsSpokeStep DEF DeployDone, MInv
  <2>4. CASE certs[d] # None
    <3>1. PICK saved \in BOOLEAN :
            Commit([certs EXCEPT ![d] = Pushed(AddedTarget(certs[d], t), t, m)],
                   {}, {<<d, t>>}, saved)
      BY <1>2, <2>1, <2>4 DEF DeployDone
    <3>2. /\ certs'[d] = Pushed(AddedTarget(certs[d], t), t, m)
          /\ \A x \in Domains : x # d => certs'[x] = certs[x]
          /\ file' \in {file, certs'}
      BY <3>1, CommitEdits DEF MInv
    <3>3. certs[d] \in Entry
      BY <2>4 DEF MInv, IInv, TypeOK
    <3>4. Takes(d)
      BY <2>1, <2>4, <3>2, <3>3, EditMaterial, NamesAssumption DEF Takes
    <3> QED
      BY <2>2, <3>2, <3>4, EditIsSpokeStep DEF MInv
  <2> QED
    BY <2>3, <2>4
<1>3. CASE RenewOutcome(h)
  <2>1. PICK d \in Domains : d = task[h].dom
    BY <1>3 DEF MInv, IInv, TypeOK, TasksKnowDomain, RenewOutcome, Awaits, TaskState
  <2>2. /\ certs[d] # None /\ certs[d] \in Entry /\ live[d] \in Nat
        /\ certs \in [Domains -> Entry \cup {None}]
    BY <1>3, <2>1 DEF RenewOutcome, MInv, IInv, TypeOK
  <2>3. PICK e : /\ certs' = [certs EXCEPT ![d] = e]
                 /\ \/ e.mat = live[d] /\ live[d] # 0
                    \/ e.mat = certs[d].mat
    <3>1. \A m \in Nat : Renewed(certs[d], m).mat = (IF m = 0 THEN certs[d].mat ELSE m)
      BY <2>2 DEF Renewed, Refreshed, Entry
    <3>2. RenewFailed(certs[d]).mat = certs[d].mat
      BY <2>2 DEF RenewFailed, Entry
    <3> QED
      BY <1>3, <2>1, <2>2, <3>1, <3>2 DEF RenewOutcome
  <2>4. certs'[d] = e /\ \A x \in Domains : x # d => certs'[x] = certs[x]
    BY <2>2, <2>3
  <2>5. UNCHANGED <<file, disk>>
    BY <1>3 DEF RenewOutcome
  <2>6. Takes(d)
    BY <2>2, <2>3, <2>4 DEF Takes
  <2> QED
    BY <2>4, <2>5, <2>6, EditIsSpokeStep DEF MInv
<1>4. CASE RenewDone(h) \/ RenewAborts(h) \/ \E d \in Domains : RenewNext(h, d)
  <2>1. UNCHANGED <<certs, disk>> /\ file' \in {file, certs}
    BY <1>4 DEF RenewDone, Save, RenewAborts, RenewNext
  <2> QED
    BY <2>1, LeaveIsSpokeStep DEF MInv
<1>5. CASE PushNext(h) \/ PushesDone(h)
  <2>1. /\ certs' = Stamped(h) /\ file' \in {file, certs'} /\ UNCHANGED disk
    BY <1>5 DEF PushNext, PushesDone
  <2>2. ASSUME NEW d \in Domains PROVE Takes(d)
    BY <2>1 DEF Stamped, Takes, MInv, IInv, TypeOK, Entry
  <2> QED
    BY <2>1, <2>2, StampedType DEF SpokeStep, MInv, Table
<1> QED
  BY <1>1, <1>2, <1>3, <1>4, <1>5, IssueDoneTakes DEF Resume

LEMMA CommandTakes ==
  ASSUME MInv, IInv', Command PROVE SpokeStep
<1>1. CASE UpdateConfig
  BY <1>1, LeaveIsSpokeStep DEF UpdateConfig, MInv
<1>2. ASSUME NEW d \in Domains, RefuseIssue(d) PROVE SpokeStep
  BY <1>2, RecordIssueTakes DEF RefuseIssue
<1>3. ASSUME NEW d \in Domains, NEW t \in Targets,
             \/ AddTarget(d, t) \/ RemoveTarget(d, t)
             \/ \E v \in 1..issued[d] : MarkDistributed(d, t, v)
      PROVE  SpokeStep
  <2>1. certs[d] # None /\ certs[d] \in Entry /\ UNCHANGED disk /\ issued[d] \in Nat
    BY <1>3 DEF AddTarget, RemoveTarget, MarkDistributed, MInv, IInv, TypeOK
  <2>2. ASSUME NEW e, NEW dels, NEW adds, NEW saved \in BOOLEAN,
               e.mat = certs[d].mat,
               Commit([certs EXCEPT ![d] = e], dels, adds, saved)
        PROVE  SpokeStep
    <3>1. /\ certs'[d] = e
          /\ \A x \in Domains : x # d => certs'[x] = certs[x]
          /\ file' \in {file, certs'}
      BY <2>2, CommitEdits DEF MInv
    <3>2. Takes(d)
      BY <2>1, <2>2, <3>1 DEF Takes
    <3> QED
      BY <2>1, <3>1, <3>2, EditIsSpokeStep DEF MInv
  <2>3. CASE AddTarget(d, t)
    <3>1. AddedTarget(certs[d], t).mat = certs[d].mat
      BY <2>1, EditMaterial
    <3> QED
      BY <2>2, <2>3, <3>1 DEF AddTarget
  <2>4. CASE RemoveTarget(d, t)
    <3>1. RemovedTarget(certs[d], t).mat = certs[d].mat
      BY <2>1, EditMaterial
    <3> QED
      BY <2>2, <2>4, <3>1 DEF RemoveTarget
  <2>5. ASSUME NEW v \in 1..issued[d], MarkDistributed(d, t, v) PROVE SpokeStep
    <3>1. Pushed(certs[d], t, v).mat = certs[d].mat
      BY <2>1, EditMaterial
    <3> QED
      BY <2>2, <2>5, <3>1 DEF MarkDistributed
  <2> QED
    BY <1>3, <2>3, <2>4, <2>5
<1>4. ASSUME NEW h \in Handlers, Request(h) PROVE SpokeStep
  <2>1. UNCHANGED <<certs, file, disk>>
    BY <1>4 DEF Request, SetClientAuth, IssueCert, RenewCert, RevokeCert,
      DeployToAgent, Connect
  <2> QED
    BY <2>1, LeaveIsSpokeStep DEF MInv
<1> QED
  BY <1>1, <1>2, <1>3, <1>4 DEF Command

\* A step in which every handler stays as it is, or moves on while certbot does
\* not run for it, and no run starts for a handler.
LEMMA RunsKept ==
  ASSUME RunMatches, IssuedOnDisk, live' = live,
         bot' = bot \/ bot' = None \/ bot'.who \notin Handlers,
         \A g \in Handlers :
           \/ task'[g] = task[g] /\ res'[g] = res[g]
           \/ /\ bot = None \/ bot.who # g
              /\ res'[g] # "ok" \/ task'[g].op # "issue"
  PROVE  RunMatches' /\ IssuedOnDisk'
BY DEF RunMatches, IssuedOnDisk

\* A handler that certbot does not run for.
NotRunFor(h) == bot = None \/ bot.who # h

LEMMA WhoIsNotRunFor ==
  ASSUME MInv, NEW h \in Handlers,
         \/ res[h] \in Finished
         \/ task[h].pc # "certbot"
         \/ task[h].op \notin {"issue", "renew", "revoke"}
  PROVE  NotRunFor(h)
<1>1. bot # None => bot.op \in {"issue", "renew", "revoke"}
  BY DEF MInv, IInv, TypeOK, Run
<1> QED
  BY <1>1 DEF MInv, RunMatches, NotRunFor, Finished

\* A handler asks for a run and waits for it.
LEMMA LaunchMatches ==
  ASSUME MInv, NEW h \in Handlers, NotRunFor(h), NEW op, NEW d, NEW flag,
         Launch(h, op, d, flag), live' = live,
         task'[h].pc = "certbot", task'[h].op = op, task'[h].dom = d,
         \A g \in Handlers : g # h => task'[g] = task[g]
  PROVE  RunMatches' /\ IssuedOnDisk'
<1>1. /\ \A g \in Handlers : g # h => res'[g] = res[g]
      /\ res'[h] = (IF bot = None THEN "run" ELSE "fail")
  BY DEF Launch, MInv, IInv, TypeOK, Tasks
<1>2. CASE bot = None
  <2>1. bot'.who = h /\ bot'.op = op /\ bot'.dom = d
    BY <1>2 DEF Launch
  <2> QED
    BY <1>1, <1>2, <2>1 DEF RunMatches, IssuedOnDisk, MInv
<1>3. CASE bot # None
  <2>1. bot' = bot /\ bot.who # h
    BY <1>3 DEF Launch, NotRunFor
  <2> QED
    BY <1>1, <1>3, <2>1 DEF RunMatches, IssuedOnDisk, MInv
<1> QED
  BY <1>2, <1>3

LEMMA LoopStepRuns ==
  ASSUME MInv, LoopStep PROVE RunMatches' /\ IssuedOnDisk'
<1>1. UNCHANGED <<task, live>>
  BY DEF LoopStep, StartScan, NotDue, StartRenewal, AbortScan, SkipRemoved,
    RecordRenewal, RenewalTimeout, Notified, EndScan, Wake, disk
<1>2. Loop \notin Handlers
  BY NamesAssumption
<1>3. \A g \in Handlers : res'[g] = res[g]
  BY <1>2 DEF LoopStep, StartScan, NotDue, StartRenewal, AbortScan, SkipRemoved,
    RecordRenewal, RenewalTimeout, Notified, EndScan, Wake, Notify, Launch, MInv, IInv,
    TypeOK, Tasks
<1>4. bot' = bot \/ bot' = None \/ bot'.who \notin Handlers
  <2>1. CASE \E d \in Domains : StartRenewal(d)
    <3>1. bot' = bot \/ bot'.who = Loop
      BY <2>1 DEF StartRenewal, Launch
    <3> QED
      BY <1>2, <3>1
  <2>2. CASE RenewalTimeout
    <3>1. bot # None /\ bot.who = Loop
      BY <2>2 DEF RenewalTimeout, MInv, IInv, WaiterOwnsRun, Tasks
    <3>2. bot'.who = None
      BY <2>2, <3>1 DEF RenewalTimeout, MInv, IInv, TypeOK, Run
    <3> QED
      BY <3>2, NamesAssumption DEF Tasks
  <2>3. CASE \/ StartScan \/ SkipRemoved \/ RecordRenewal \/ Notified \/ EndScan \/ Wake
             \/ \E d \in Domains : NotDue(d) \/ AbortScan(d)
    BY <2>3 DEF StartScan, NotDue, AbortScan, SkipRemoved, RecordRenewal, Notified,
      EndScan, Wake
  <2> QED
    BY <2>1, <2>2, <2>3 DEF LoopStep
<1> QED
  BY <1>1, <1>3, <1>4, RunsKept DEF MInv

\* A handler that ends, or goes on to its event, once certbot does not run for it.
LEMMA HandlerMoves ==
  ASSUME MInv, NEW h \in Handlers, NotRunFor(h), UNCHANGED <<disk, bot>>,
         res' = [res EXCEPT ![h] = "none"],
         \A g \in Handlers : g # h => task'[g] = task[g]
  PROVE  RunMatches' /\ IssuedOnDisk'
<1>1. \A g \in Handlers : IF g = h THEN res'[g] = "none" ELSE res'[g] = res[g]
  BY DEF MInv, IInv, TypeOK, Tasks
<1> QED
  BY <1>1, RunsKept DEF NotRunFor, MInv, disk

LEMMA ResumeRuns ==
  ASSUME MInv, NEW h \in Handlers, Resume(h) PROVE RunMatches' /\ IssuedOnDisk'
<1>1. CASE \/ IssueDone(h) \/ RevokeDone(h) \/ RenewDone(h) \/ RenewAborts(h)
           \/ PushesDone(h) \/ \E t \in AgentTargets : DeployDone(h, t)
  <2>1. NotRunFor(h)
    BY <1>1, WhoIsNotRunFor
       DEF IssueDone, RevokeDone, RenewDone, RenewAborts, DeployDone, PushesDone,
           RenewMoves, Awaits
  <2>2. Finish(h) /\ UNCHANGED <<disk, bot>>
    BY <1>1 DEF IssueDone, RevokeDone, RenewDone, RenewAborts, DeployDone, PushesDone
  <2>3. \A g \in Handlers : g # h => task'[g] = task[g]
    BY <2>2 DEF Finish, MInv, IInv, TypeOK
  <2> QED
    BY <2>1, <2>2, <2>3, HandlerMoves DEF Finish
<1>2. CASE RenewOutcome(h)
  <2>1. NotRunFor(h)
    BY <1>2, WhoIsNotRunFor DEF RenewOutcome, Awaits
  <2>2. \A g \in Handlers : g # h => task'[g] = task[g]
    BY <1>2 DEF RenewOutcome, MInv, IInv, TypeOK
  <2> QED
    BY <1>2, <2>1, <2>2, HandlerMoves DEF RenewOutcome
<1>3. ASSUME NEW d \in Domains, RenewNext(h, d) PROVE RunMatches' /\ IssuedOnDisk'
  <2>1. NotRunFor(h)
    BY <1>3, WhoIsNotRunFor DEF RenewNext, RenewMoves, Awaits
  <2>2. task[h].op = "renew" /\ task[h] \in TaskState
    BY <1>3 DEF RenewNext, RenewMoves, Awaits, MInv, IInv, TypeOK
  <2>3. /\ task'[h].pc = "certbot" /\ task'[h].op = "renew" /\ task'[h].dom = d
        /\ \A g \in Handlers : g # h => task'[g] = task[g]
    BY <1>3, <2>2 DEF RenewNext, MInv, IInv, TypeOK, TaskState
  <2>4. Launch(h, "renew", d, task[h].flag) /\ live' = live
    BY <1>3 DEF RenewNext, disk
  <2> QED
    BY <2>1, <2>3, <2>4, LaunchMatches
<1>4. CASE PushNext(h)
  <2>1. NotRunFor(h) /\ UNCHANGED <<res, bot, live>>
    BY <1>4, WhoIsNotRunFor DEF PushNext, disk
  <2>2. task'[h].op = "connect" /\ \A g \in Handlers : g # h => task'[g] = task[g]
    BY <1>4 DEF PushNext, BeginPush, Suspend, MInv, IInv, TypeOK
  <2> QED
    BY <2>1, <2>2, RunsKept DEF NotRunFor, MInv
<1> QED
  BY <1>1, <1>2, <1>3, <1>4 DEF Resume

\* A command that reaches certbot waits for the run it asked for.
LEMMA SuspendMatches ==
  ASSUME MInv, NEW h \in Handlers, task[h] = Idle, NEW op, NEW d, NEW flag,
         NEW todo, NEW req,
         Suspend(h, op, d, "certbot", todo, req, flag, 0), Launch(h, op, d, flag),
         live' = live
  PROVE  RunMatches' /\ IssuedOnDisk'
<1>1. NotRunFor(h)
  BY WhoIsNotRunFor DEF Idle
<1>2. /\ task'[h].pc = "certbot" /\ task'[h].op = op /\ task'[h].dom = d
      /\ \A g \in Handlers : g # h => task'[g] = task[g]
  BY DEF Suspend, MInv, IInv, TypeOK
<1> QED
  BY <1>1, <1>2, LaunchMatches

LEMMA CommandRuns ==
  ASSUME MInv, Command PROVE RunMatches' /\ IssuedOnDisk'
<1>1. CASE UpdateConfig
  <2>1. \A g \in Handlers : res'[g] = res[g]
    BY <1>1, NamesAssumption DEF UpdateConfig, MInv, IInv, TypeOK, Tasks
  <2>2. bot' = bot \/ bot'.who \notin Handlers
    <3>1. CASE res[Loop] = "run"
      <4>1. bot # None
        BY <3>1 DEF MInv, IInv, WaiterOwnsRun, Tasks
      <4>2. bot'.who = None
        BY <1>1, <3>1, <4>1 DEF UpdateConfig, MInv, IInv, TypeOK, Run
      <4> QED
        BY <4>2, NamesAssumption DEF Tasks
    <3>2. CASE res[Loop] # "run"
      BY <1>1, <3>2 DEF UpdateConfig
    <3> QED
      BY <3>1, <3>2
  <2>3. UNCHANGED <<task, live>>
    BY <1>1 DEF UpdateConfig, disk
  <2> QED
    BY <2>1, <2>2, <2>3, RunsKept DEF MInv
<1>2. ASSUME NEW d \in Domains,
             \/ RefuseIssue(d)
             \/ \E t \in Targets :
                  \/ AddTarget(d, t) \/ RemoveTarget(d, t)
                  \/ \E v \in 1..issued[d] : MarkDistributed(d, t, v)
      PROVE  RunMatches' /\ IssuedOnDisk'
  <2>1. UNCHANGED <<task, res, bot, live>>
    BY <1>2 DEF RefuseIssue, AddTarget, RemoveTarget, MarkDistributed, disk
  <2> QED
    BY <2>1, RunsKept DEF MInv
<1>3. ASSUME NEW h \in Handlers, Request(h) PROVE RunMatches' /\ IssuedOnDisk'
  <2>1. task[h] = Idle /\ live' = live
    BY <1>3 DEF Request, SetClientAuth, IssueCert, RenewCert, RevokeCert,
      DeployToAgent, Connect, disk
  <2>2. ASSUME NEW d \in Domains, NEW ts, NEW force, IssueCert(h, d, ts, force)
        PROVE  RunMatches' /\ IssuedOnDisk'
    BY <2>1, <2>2, SuspendMatches DEF IssueCert
  <2>3. ASSUME NEW d \in Domains, NEW ds, NEW force, RenewCert(h, d, ds, force)
        PROVE  RunMatches' /\ IssuedOnDisk'
    BY <2>1, <2>3, SuspendMatches DEF RenewCert
  <2>4. ASSUME NEW d \in Domains, NEW delete, RevokeCert(h, d, delete)
        PROVE  RunMatches' /\ IssuedOnDisk'
    BY <2>1, <2>4, SuspendMatches DEF RevokeCert
  <2>5. ASSUME NEW d \in Domains, DeployToAgent(h, d)
        PROVE  RunMatches' /\ IssuedOnDisk'
    <3>1. NotRunFor(h) /\ UNCHANGED <<res, bot>>
      BY <2>1, <2>5, WhoIsNotRunFor DEF Idle, DeployToAgent
    <3>2. /\ task'[h].op = "deploy"
          /\ \A g \in Handlers : g # h => task'[g] = task[g]
      BY <2>5 DEF DeployToAgent, Suspend, MInv, IInv, TypeOK
    <3> QED
      BY <2>1, <3>1, <3>2, RunsKept DEF NotRunFor, MInv
  <2>6. ASSUME NEW d \in Domains, Connect(h, d) PROVE RunMatches' /\ IssuedOnDisk'
    <3>1. NotRunFor(h) /\ UNCHANGED <<res, bot>>
      BY <2>1, <2>6, WhoIsNotRunFor DEF Idle, Connect
    <3>2. /\ task'[h].op = "connect"
          /\ \A g \in Handlers : g # h => task'[g] = task[g]
      BY <2>6 DEF Connect, BeginPush, Suspend, MInv, IInv, TypeOK
    <3> QED
      BY <2>1, <3>1, <3>2, RunsKept DEF NotRunFor, MInv
  <2> QED
    BY <1>3, <2>2, <2>3, <2>4, <2>5, <2>6 DEF Request, SetClientAuth
<1> QED
  BY <1>1, <1>2, <1>3 DEF Command

-----------------------------------------------------------------------------
(* What certbot writes, and restarts.                                      *)

\* What a run leaves on disk is a new version, the one that is there, or none.
LEMMA EffectIs ==
  ASSUME MInv, bot # None, NEW v \in Effect(bot) \cup {live[bot.dom]}
  PROVE  /\ v \in NewVersion(bot.dom) \cup {live[bot.dom], 0}
         /\ v \in Effect(bot) /\ bot.op = "issue" => v # 0
<1>1. bot.op \in {"issue", "renew", "revoke"} /\ bot.dom \in Domains
      /\ issued[bot.dom] \in Nat
  BY DEF MInv, IInv, TypeOK, Run
<1>2. \A x \in NewVersion(bot.dom) : x # 0
  BY <1>1 DEF NewVersion
<1>3. CASE bot.op = "issue"
  BY <1>2, <1>3 DEF Effect
<1>4. CASE bot.op = "renew"
  BY <1>4 DEF Effect
<1>5. CASE bot.op = "revoke"
  BY <1>5 DEF Effect
<1> QED
  BY <1>1, <1>3, <1>4, <1>5

\* Whatever certbot writes, what the tables know stays known.
LEMMA WriteKnows ==
  ASSUME MInv, NEW d \in Domains, NEW v \in NewVersion(d) \cup {live[d], 0},
         Write(d, v), UNCHANGED <<certs, file>>
  PROVE  MaterialKnown'
<1> SUFFICES ASSUME NEW x \in Domains
             PROVE  live'[x] <= issued'[x] /\ (KnownAt(certs, x))' /\ (KnownAt(file, x))'
  BY DEF MaterialKnown
<1>1. /\ live[x] \in Nat /\ issued[x] \in Nat /\ live[x] <= issued[x]
      /\ KnownAt(certs, x) /\ KnownAt(file, x)
      /\ certs[x] # None => certs[x].mat \in Nat
      /\ file[x] # None => file[x].mat \in Nat
  BY DEF MInv, IInv, TypeOK, MaterialKnown, Entry
<1>2. CASE x # d
  <2>1. live'[x] = live[x] /\ issued'[x] = issued[x]
    BY <1>2 DEF Write, MInv, IInv, TypeOK
  <2> QED
    BY <1>1, <2>1 DEF KnownAt
<1>3. CASE x = d
  <2>1. live'[x] = v /\ issued'[x] = (IF v > issued[x] THEN v ELSE issued[x])
    BY <1>3 DEF Write, MInv, IInv, TypeOK
  <2>2. v = issued[x] + 1 \/ v = live[x] \/ v = 0
    BY <1>3 DEF NewVersion
  <2> QED
    BY <1>1, <2>1, <2>2 DEF KnownAt
<1> QED
  BY <1>2, <1>3

LEMMA CertbotKnows ==
  ASSUME MInv, Certbot
  PROVE  MaterialKnown' /\ RunMatches' /\ IssuedOnDisk'
<1>1. bot # None /\ NothingPending /\ bot' = None /\ UNCHANGED <<certs, file, task>>
  BY DEF Certbot, CertbotSucceeds, CertbotFails, Exit
<1>2. PICK v \in Effect(bot) \cup {live[bot.dom]} : Write(bot.dom, v)
  BY DEF Certbot, CertbotSucceeds, CertbotFails
<1>3. bot.dom \in Domains
  BY <1>1 DEF MInv, IInv, TypeOK, Run
<1>4. v \in NewVersion(bot.dom) \cup {live[bot.dom], 0}
  BY <1>1, EffectIs
<1>5. MaterialKnown'
  BY <1>1, <1>2, <1>3, <1>4, WriteKnows
<1>6. RunMatches'
  BY <1>1 DEF RunMatches
<1>7. IssuedOnDisk'
  <2> SUFFICES ASSUME NEW h \in Handlers, res'[h] = "ok", task'[h].op = "issue"
               PROVE  live'[task'[h].dom] # 0
    BY DEF IssuedOnDisk
  <2>1. CertbotSucceeds /\ bot.who = h
    <3>1. res[h] # "ok"
      BY <1>1 DEF NothingPending, Finished, Tasks
    <3>2. ASSUME NEW outcome, Exit(outcome) PROVE bot.who = h /\ outcome = "ok"
      <4>1. h \in Tasks /\ res \in [Tasks -> {"none", "run", "ok", "fail"}]
        BY DEF Tasks, MInv, IInv, TypeOK
      <4> QED
        BY <3>1, <3>2, <4>1 DEF Exit
    <3>3. ~CertbotFails
      BY <3>2 DEF CertbotFails
    <3>4. CertbotSucceeds
      BY <3>3 DEF Certbot
    <3> QED
      BY <3>2, <3>4 DEF CertbotSucceeds
  <2>2. bot.op = "issue" /\ bot.dom = task[h].dom
    BY <1>1, <2>1 DEF MInv, RunMatches
  <2>3. PICK w \in Effect(bot) : Write(bot.dom, w)
    BY <2>1 DEF CertbotSucceeds
  <2>4. w # 0
    BY <1>1, <2>2, <2>3, EffectIs
  <2> QED
    BY <1>1, <1>3, <2>2, <2>3, <2>4 DEF Write, MInv, IInv, TypeOK
<1> QED
  BY <1>5, <1>6, <1>7

LEMMA EnvironmentKnows ==
  ASSUME MInv, Environment
  PROVE  MaterialKnown' /\ RunMatches' /\ IssuedOnDisk'
<1>1. ASSUME NEW d \in Domains, Age(d)
      PROVE  MaterialKnown' /\ RunMatches' /\ IssuedOnDisk'
  <2>1. UNCHANGED <<certs, file, live, issued, bot, res, task>>
    BY <1>1 DEF Age
  <2> QED
    BY <2>1 DEF MInv, MaterialKnown, KnownAt, RunMatches, IssuedOnDisk
<1>2. ASSUME NEW d \in Domains, RenewedOutOfBand(d)
      PROVE  MaterialKnown' /\ RunMatches' /\ IssuedOnDisk'
  <2>1. UNCHANGED <<certs, file, bot, res, task>>
    BY <1>2 DEF RenewedOutOfBand
  <2>2. PICK v \in NewVersion(d) : Write(d, v)
    BY <1>2 DEF RenewedOutOfBand
  <2>3. MaterialKnown'
    BY <2>1, <2>2, WriteKnows
  <2>4. \A x \in Domains : live[x] # 0 => live'[x] # 0
    <3>1. v # 0
      BY <2>2 DEF NewVersion, MInv, IInv, TypeOK
    <3> QED
      BY <2>2, <3>1 DEF Write, MInv, IInv, TypeOK
  <2>5. \A h \in Handlers : task[h].op = "issue" => task[h].dom \in Domains
    BY DEF MInv, IInv, TasksKnowDomain
  <2>6. RunMatches' /\ IssuedOnDisk'
    BY <2>1, <2>4, <2>5 DEF MInv, RunMatches, IssuedOnDisk
  <2> QED
    BY <2>3, <2>6
<1> QED
  BY <1>1, <1>2 DEF Environment

LEMMA CrashKnows ==
  ASSUME MInv, Crash
  PROVE  MaterialKnown' /\ RunMatches' /\ IssuedOnDisk'
<1>1. certs' = file /\ UNCHANGED <<file, live, issued>> /\ bot' = None
      /\ \A h \in Handlers : res'[h] = "none"
  BY DEF Crash, disk, Tasks
<1>2. MaterialKnown'
  BY <1>1 DEF MInv, MaterialKnown, KnownAt
<1> QED
  BY <1>1, <1>2 DEF RunMatches, IssuedOnDisk

-----------------------------------------------------------------------------

LEMMA KnownInit == Init => MInv
<1> SUFFICES ASSUME Init PROVE MInv
  OBVIOUS
<1>1. RunMatches /\ IssuedOnDisk
  BY DEF Init, RunMatches, IssuedOnDisk, Tasks
<1>2. ASSUME NEW d \in Domains
      PROVE  live[d] <= issued[d] /\ KnownAt(certs, d) /\ KnownAt(file, d)
  <2>1. live[d] = (IF file[d] = None THEN 0 ELSE 1) /\ issued = live /\ certs = file
    BY DEF Init
  <2>2. file[d] # None => file[d].mat = 1
    BY DEF Init, InitialEntry
  <2> QED
    BY <2>1, <2>2 DEF KnownAt
<1> QED
  BY <1>1, <1>2, InitInv DEF MInv, MaterialKnown

LEMMA KnownNext == MInv /\ [Next]_vars => MInv'
<1> SUFFICES ASSUME MInv, [Next]_vars PROVE MInv'
  OBVIOUS
<1>1. IInv'
  BY NextInv DEF MInv
<1>2. CASE UNCHANGED vars
  BY <1>1, <1>2 DEF vars, MInv, MaterialKnown, KnownAt, RunMatches, IssuedOnDisk
<1>3. CASE LoopStep \/ Command \/ \E h \in Handlers : Resume(h)
  BY <1>1, <1>3, LoopStepTakes, ResumeTakes, CommandTakes, SpokeStepKnows,
     LoopStepRuns, ResumeRuns, CommandRuns DEF MInv
<1>4. CASE Certbot \/ Environment \/ Crash
  BY <1>1, <1>4, CertbotKnows, EnvironmentKnows, CrashKnows DEF MInv
<1> QED
  BY <1>2, <1>3, <1>4 DEF Next

LEMMA EachAdvances ==
  ASSUME MInv, [Next]_vars, NEW d \in Domains, used'.crashes = used.crashes
  PROVE  Advances(d)
<1>1. IInv'
  BY NextInv DEF MInv
<1>2. certs[d] # None => certs[d].mat \in Nat
  BY DEF MInv, IInv, TypeOK, Entry
<1>3. CASE LoopStep \/ Command \/ \E h \in Handlers : Resume(h)
  <2>1. SpokeStep
    BY <1>1, <1>3, LoopStepTakes, ResumeTakes, CommandTakes
  <2> QED
    BY <2>1, SpokeStepAdvances
<1>4. CASE Certbot \/ Environment \/ UNCHANGED vars
  <2>1. certs' = certs
    BY <1>4 DEF Certbot, CertbotSucceeds, CertbotFails, Exit, Environment,
      RenewedOutOfBand, Age, vars
  <2> QED
    BY <1>2, <2>1 DEF Advances
<1>5. CASE Crash
  <2>1. used'.crashes = used.crashes + 1 /\ used.crashes \in Nat
    BY <1>5 DEF Crash, MInv, IInv, TypeOK, Budget
  <2> QED
    BY <2>1
<1> QED
  BY <1>3, <1>4, <1>5 DEF Next

\* No task takes an entry back to older material than it had, or to none at all
\* except in a step that costs a fault (a re-issue whose files cannot be read): on every instance, whatever
\* certbot, its timer, other commands and restarts did meanwhile
\* (le_spoke.py:229, 819).
THEOREM MaterialOnlyAdvances == Spec => MaterialAdvances
<1>1. MInv /\ [Next]_vars =>
        [\A d \in Domains :
           certs[d] # None /\ certs'[d] # None /\ used'.crashes = used.crashes
             => \/ certs'[d].mat >= certs[d].mat
                \/ certs'[d].mat = 0 /\ used'.faults > used.faults]_vars
  BY EachAdvances DEF Advances
<1> QED
  BY <1>1, KnownInit, KnownNext, PTL DEF Spec, MaterialAdvances
=============================================================================
