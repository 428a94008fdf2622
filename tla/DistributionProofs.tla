------------------------- MODULE DistributionProofs -------------------------
(***************************************************************************)
(* Theorems about Distribution for any set of targets, any number of       *)
(* passes beside the sweep, and any number of certificates, commands and   *)
(* faults: no target is skipped that the certificate has not reached,      *)
(* unless the ledger says that it failed.                                  *)
(***************************************************************************)
EXTENDS Distribution, TLAPS

\* A pass that has a success to report has pushed the version it pulled.
PassTold(p) ==
  hub[p].done # None =>
    /\ hub[p].version # None /\ hub[p].result \in {"SUCCESS", "ERROR"}
    /\ hub[p].result = "SUCCESS" => hub[p].version \in given[hub[p].done]

PassesTold == \A p \in Passes : PassTold(p)

\* A marker names a version that its target was given, or an error.
Told(e) ==
  \A t \in DOMAIN e.pushed :
    e.pushed[t].hash # None =>
      e.pushed[t].hash \in given[t] \/ e.pushed[t].status = "ERROR"

\* That holds in memory and in the file, which a restart goes back to.
MarkersTold ==
  /\ entry # None => Told(entry)
  /\ file # None => Told(file)

IInv == TypeOK /\ PassesTold /\ MarkersTold

-----------------------------------------------------------------------------
(* Facts about the constants and about entries.                            *)

LEMMA Constants ==
  /\ MaxVersions \in Nat /\ MaxCommands \in Nat /\ MaxFaults \in Nat
  /\ MaxVersions > 0 /\ None \notin Nat /\ Sweep \in Passes
BY DistributionAssumption DEF Passes

LEMMA HashType ==
  /\ \A v \in Hash : v # None => v \in Nat /\ 1 <= v /\ v <= MaxVersions
  /\ None \in Hash /\ Versions \subseteq Hash /\ None \notin Versions
BY Constants DEF Hash, Versions

\* An entry and its parts.
LEMMA EntryType ==
  ASSUME NEW h \in Hash, NEW ts \in SUBSET Targets, NEW p \in [ts -> Mark]
  PROVE  [hash |-> h, pushed |-> p] \in Entry
BY DEF Entry

LEMMA EntryParts ==
  ASSUME NEW e \in Entry
  PROVE  /\ e.hash \in Hash
         /\ DOMAIN e.pushed \in SUBSET Targets
         /\ e.pushed \in [DOMAIN e.pushed -> Mark]
         /\ e = [hash |-> e.hash, pushed |-> e.pushed]
<1>1. /\ e.hash \in Hash
      /\ e.pushed \in UNION {[ts -> Mark] : ts \in SUBSET Targets}
      /\ e = [hash |-> e.hash, pushed |-> e.pushed]
  BY DEF Entry
<1>2. PICK ts \in SUBSET Targets : e.pushed \in [ts -> Mark]
  BY <1>1
<1> QED
  BY <1>1, <1>2

LEMMA UnpushedType == Unpushed \in Mark /\ Unpushed.hash = None
BY HashType DEF Unpushed, Mark, Status

\* The state of a pass.
Pass == [work : SUBSET Targets, version : Hash, done : Targets \cup {None},
         result : Status]

LEMMA IdleType == Idle \in Pass /\ Idle.done = None
BY HashType DEF Idle, Pass, Status

\* Empty markers tell nothing.
LEMMA NoPushesTold ==
  ASSUME NEW h \in Hash, NEW ts \in SUBSET Targets
  PROVE  /\ [hash |-> h, pushed |-> NoPushes(ts)] \in Entry
         /\ Told([hash |-> h, pushed |-> NoPushes(ts)])
<1>1. NoPushes(ts) \in [ts -> Mark]
  BY UnpushedType DEF NoPushes
<1> QED
  BY <1>1, EntryType DEF Told, NoPushes, Unpushed

LEMMA InitInv == Init => IInv
<1> SUFFICES ASSUME Init PROVE IInv
  OBVIOUS
<1>1. 1 \in Versions
  BY Constants DEF Versions
<1>2. entry \in Entry /\ Told(entry) /\ file = entry
  BY <1>1, NoPushesTold, HashType DEF Init
<1>3. given \in [Targets -> SUBSET Versions]
  BY DEF Init
<1>4. hub \in [Passes -> Pass] /\ \A p \in Passes : hub[p].done = None
  BY IdleType DEF Init
<1>5. used \in [commands : 0..MaxCommands, faults : 0..MaxFaults]
  BY Constants DEF Init
<1>6. disk \in Hash /\ issued \in Versions
  BY <1>1, HashType DEF Init
<1>7. TypeOK
  BY <1>2, <1>3, <1>4, <1>5, <1>6 DEF Init, TypeOK, Pass
<1> QED
  BY <1>2, <1>4, <1>7 DEF IInv, PassesTold, PassTold, MarkersTold
-----------------------------------------------------------------------------
(* The steps of the spoke.                                                 *)

\* A bound that is used up further stays within its bound.
LEMMA Spent ==
  ASSUME TypeOK, Fault \/ Commanded \/ UNCHANGED used
  PROVE  used' \in [commands : 0..MaxCommands, faults : 0..MaxFaults]
BY Constants DEF TypeOK, Fault, Commanded

\* A step that pushes nothing leaves what was told as it is.
LEMMA Kept ==
  ASSUME IInv, UNCHANGED <<hub, given>>
  PROVE  PassesTold' /\ \A e : Told(e) <=> Told(e)'
BY DEF IInv, PassesTold, PassTold, Told

LEMMA CertbotRenewsInv == IInv /\ CertbotRenews => IInv'
<1> SUFFICES ASSUME IInv, CertbotRenews PROVE IInv'
  OBVIOUS
<1>1. TypeOK'
  BY Constants DEF IInv, TypeOK, CertbotRenews, Keeps, Hash, Versions
<1> QED
  BY <1>1, Kept DEF IInv, MarkersTold, CertbotRenews, Keeps

\* Another hash in an entry leaves its markers.
LEMMA RefreshedTold ==
  ASSUME NEW e \in Entry, NEW v \in Hash, Told(e)
  PROVE  [e EXCEPT !.hash = v] \in Entry /\ Told([e EXCEPT !.hash = v])
<1>1. /\ DOMAIN e.pushed \in SUBSET Targets
      /\ e.pushed \in [DOMAIN e.pushed -> Mark]
      /\ e = [hash |-> e.hash, pushed |-> e.pushed]
  BY EntryParts
<1>2. [e EXCEPT !.hash = v] = [hash |-> v, pushed |-> e.pushed]
  BY <1>1
<1> QED
  BY <1>1, <1>2, EntryType DEF Told

\* The hash of the entry becomes that on disk, and nothing else of interest changes.
LEMMA RefreshInv ==
  ASSUME IInv, entry # None, disk \in Hash, Refreshed, unsaved' = TRUE, file' = file,
         event' \subseteq Targets, Fault \/ UNCHANGED used,
         UNCHANGED <<hub, given, disk, issued>>
  PROVE  IInv'
<1>1. entry \in Entry /\ Told(entry)
  BY DEF IInv, TypeOK, MarkersTold
<1>2. entry' \in Entry /\ Told(entry')
  BY <1>1, RefreshedTold DEF Refreshed
<1>3. used' \in [commands : 0..MaxCommands, faults : 0..MaxFaults]
  BY Spent DEF IInv
<1>4. TypeOK'
  BY <1>2, <1>3 DEF IInv, TypeOK
<1> QED
  BY <1>2, <1>4, Kept DEF IInv, MarkersTold

LEMMA ReconcileInv == IInv /\ Reconcile => IInv'
BY RefreshInv DEF IInv, TypeOK, Reconcile, Keeps

LEMMA RenewedInv == IInv /\ Renewed => IInv'
<1> SUFFICES ASSUME IInv, Renewed PROVE IInv'
  OBVIOUS
<1>1. Registered \subseteq Targets
  BY EntryParts DEF IInv, TypeOK, Registered
<1> QED
  BY <1>1, RefreshInv DEF IInv, TypeOK, Renewed, Keeps

LEMMA EndRenewalInv == IInv /\ EndRenewal => IInv'
<1> SUFFICES ASSUME IInv, EndRenewal PROVE IInv'
  OBVIOUS
<1>1. TypeOK'
  BY DEF IInv, TypeOK, EndRenewal, Keeps
<1> QED
  BY <1>1, Kept DEF IInv, MarkersTold, EndRenewal, Keeps

\* A command's edit: the new entry is well typed and its markers are told.
LEMMA EditInv ==
  ASSUME IInv, NEW e \in Entry \cup {None}, Edit(e), e # None => Told(e),
         disk' \in Hash, issued' \in Versions, Fault \/ Commanded \/ UNCHANGED used
  PROVE  IInv'
<1>1. used' \in [commands : 0..MaxCommands, faults : 0..MaxFaults]
  BY Spent DEF IInv
<1>2. TypeOK'
  BY <1>1 DEF IInv, TypeOK, Edit, Keeps
<1> QED
  BY <1>2, Kept DEF IInv, MarkersTold, Edit, Keeps

LEMMA IssueInv ==
  ASSUME NEW ts \in SUBSET Targets, NEW kept \in BOOLEAN, NEW readable \in BOOLEAN
  PROVE  IInv /\ Issue(ts, kept, readable) => IInv'
<1> SUFFICES ASSUME IInv, Issue(ts, kept, readable) PROVE IInv'
  OBVIOUS
<1>1. Registered \cup ts \in SUBSET Targets
  BY EntryParts DEF IInv, TypeOK, Registered
<1>2. disk' \in Hash /\ issued' \in Versions
  BY HashType, Constants DEF IInv, TypeOK, Issue, Hash, Versions
<1>3. (IF readable THEN disk' ELSE None) \in Hash
  BY <1>2, HashType
<1> DEFINE e == [hash |-> IF readable THEN disk' ELSE None,
                 pushed |-> NoPushes(Registered \cup ts)]
<1>4. e \in Entry /\ Told(e)
  BY <1>1, <1>3, NoPushesTold
<1>5. Edit(e) /\ Commanded
  BY DEF Issue
<1> QED
  BY <1>2, <1>4, <1>5, EditInv

LEMMA AddTargetInv == ASSUME NEW t \in Targets PROVE IInv /\ AddTarget(t) => IInv'
<1> SUFFICES ASSUME IInv, AddTarget(t) PROVE IInv'
  OBVIOUS
<1> DEFINE p == [u \in Registered \cup {t} |-> IF u = t THEN Unpushed ELSE entry.pushed[u]]
           e == [entry EXCEPT !.pushed = p]
<1>1. entry \in Entry /\ Told(entry) /\ Registered = DOMAIN entry.pushed
  BY DEF IInv, TypeOK, MarkersTold, AddTarget, Registered
<1>2. /\ Registered \cup {t} \in SUBSET Targets /\ entry.hash \in Hash
      /\ e = [hash |-> entry.hash, pushed |-> p]
      /\ entry.pushed \in [Registered -> Mark]
  BY <1>1, EntryParts
<1>3. p \in [Registered \cup {t} -> Mark]
  BY <1>2, UnpushedType
<1>4. e \in Entry /\ Told(e)
  BY <1>1, <1>2, <1>3, EntryType, UnpushedType DEF Told
<1>5. Edit(e) /\ Commanded /\ UNCHANGED <<disk, issued>>
  BY DEF AddTarget
<1> QED
  BY <1>4, <1>5, EditInv DEF IInv, TypeOK

LEMMA RemoveTargetInv ==
  ASSUME NEW t \in Targets PROVE IInv /\ RemoveTarget(t) => IInv'
<1> SUFFICES ASSUME IInv, RemoveTarget(t) PROVE IInv'
  OBVIOUS
<1> DEFINE p == Restrict(entry.pushed, Registered \ {t})
           e == [entry EXCEPT !.pushed = Restrict(@, Registered \ {t})]
<1>1. entry \in Entry /\ Told(entry) /\ Registered = DOMAIN entry.pushed
  BY DEF IInv, TypeOK, MarkersTold, RemoveTarget, Registered
<1>2. /\ Registered \ {t} \in SUBSET Targets /\ entry.hash \in Hash
      /\ e = [hash |-> entry.hash, pushed |-> p]
      /\ entry.pushed \in [Registered -> Mark]
  BY <1>1, EntryParts
<1>3. p \in [Registered \ {t} -> Mark]
  BY <1>2 DEF Restrict
<1>4. e \in Entry /\ Told(e)
  BY <1>1, <1>2, <1>3, EntryType DEF Told, Restrict
<1>5. Edit(e) /\ Commanded /\ UNCHANGED <<disk, issued>>
  BY DEF RemoveTarget
<1> QED
  BY <1>4, <1>5, EditInv DEF IInv, TypeOK

LEMMA RevokeInv ==
  ASSUME NEW delete \in BOOLEAN PROVE IInv /\ Revoke(delete) => IInv'
<1> SUFFICES ASSUME IInv, Revoke(delete) PROVE IInv'
  OBVIOUS
<1>1. disk' \in Hash /\ issued' \in Versions
  BY HashType DEF IInv, TypeOK, Revoke
<1> QED
  BY <1>1, EditInv DEF Revoke

LEMMA CrashInv == IInv /\ Crash => IInv'
<1> SUFFICES ASSUME IInv, Crash PROVE IInv'
  OBVIOUS
<1>1. used' \in [commands : 0..MaxCommands, faults : 0..MaxFaults]
  BY Spent DEF IInv, Crash
<1>2. TypeOK'
  BY <1>1 DEF IInv, TypeOK, Crash, Keeps
<1> QED
  BY <1>2, Kept DEF IInv, MarkersTold, Crash, Keeps

-----------------------------------------------------------------------------
(* The steps of the hub.                                                   *)

LEMMA Hubs ==
  ASSUME TypeOK
  PROVE  hub \in [Passes -> Pass] /\ given \in [Targets -> SUBSET Versions]
BY DEF TypeOK, Pass

\* One pass goes on, has nothing to report, and nothing was pushed.
LEMMA PassGoes ==
  ASSUME IInv, NEW p \in Passes, NEW s \in Pass, s.done = None,
         hub' = [hub EXCEPT ![p] = s], UNCHANGED given
  PROVE  /\ hub' \in [Passes -> Pass] /\ PassesTold'
         /\ \A e : Told(e) <=> Told(e)'
<1>1. hub' \in [Passes -> Pass] /\ hub'[p] = s /\ \A q \in Passes \ {p} : hub'[q] = hub[q]
  BY Hubs DEF IInv
<1> QED
  BY <1>1 DEF IInv, PassesTold, PassTold, Told

\* Whoever starts a pass, it has pulled nothing yet.
LEMMA HubStartsInv ==
  ASSUME NEW p \in Passes, NEW ts \in SUBSET Targets, event' \subseteq Targets
  PROVE  IInv /\ HubStarts(p, ts) => IInv'
<1> SUFFICES ASSUME IInv, HubStarts(p, ts) PROVE IInv'
  OBVIOUS
<1> DEFINE s == [Idle EXCEPT !.work = ts]
<1>1. s \in Pass /\ s.done = None
  BY IdleType DEF Pass
<1>2. hub' = [hub EXCEPT ![p] = s] /\ UNCHANGED <<disk, issued, entry, file, unsaved, given, used>>
  BY DEF HubStarts, HubKeeps
<1> HIDE DEF s
<1>3. /\ hub' \in [Passes -> Pass] /\ PassesTold'
      /\ \A e : Told(e) <=> Told(e)'
  BY <1>1, <1>2, PassGoes
<1>4. TypeOK'
  BY <1>2, <1>3 DEF IInv, TypeOK, Pass
<1> QED
  BY <1>2, <1>3, <1>4 DEF IInv, MarkersTold

LEMMA HubPollsInv == IInv /\ HubPolls => IInv'
<1>1. IInv => Due \in SUBSET Targets
  BY EntryParts DEF IInv, TypeOK, Due, Registered
<1> QED
  BY <1>1, HubStartsInv, Constants DEF HubPolls, IInv, TypeOK

LEMMA HubHearsInv == ASSUME NEW p \in Immediate PROVE IInv /\ HubHears(p) => IInv'
<1>1. HubHears(p) => event' \subseteq Targets
  BY DEF HubHears
<1>2. p \in Passes
  BY DEF Passes
<1> QED
  BY <1>1, <1>2, HubStartsInv DEF HubHears, IInv, TypeOK

LEMMA HubPullsInv == ASSUME NEW p \in Passes PROVE IInv /\ HubPulls(p) => IInv'
<1> SUFFICES ASSUME IInv, HubPulls(p) PROVE IInv'
  OBVIOUS
<1>1. used' \in [commands : 0..MaxCommands, faults : 0..MaxFaults]
  BY Spent DEF IInv, HubPulls
<1>2. hub[p] \in Pass /\ hub[p].done = None
  BY Hubs DEF IInv, PassesTold, PassTold, HubPulls
<1>3. PICK s \in Pass : s.done = None /\ hub' = [hub EXCEPT ![p] = s]
  <2>1. CASE hub' = [hub EXCEPT ![p] = Idle]
    BY <2>1, IdleType
  <2>2. CASE hub' = [hub EXCEPT ![p] = [hub[p] EXCEPT !.version = disk]]
    <3>1. disk \in Hash
      BY DEF IInv, TypeOK
    <3>2. [hub[p] EXCEPT !.version = disk] \in Pass
      BY <1>2, <3>1 DEF Pass
    <3> QED
      BY <1>2, <2>2, <3>2 DEF Pass
  <2>3. hub' = [hub EXCEPT ![p] = Idle]
          \/ hub' = [hub EXCEPT ![p] = [hub[p] EXCEPT !.version = disk]]
    <3>1. ASSUME hub' = [hub EXCEPT ![p] = IF Served = None THEN Idle
                                          ELSE [@ EXCEPT !.version = Served]]
          PROVE  \/ hub' = [hub EXCEPT ![p] = Idle]
                 \/ hub' = [hub EXCEPT ![p] = [hub[p] EXCEPT !.version = disk]]
      BY <3>1, Hubs DEF Served
    <3> QED
      BY <3>1 DEF HubPulls
  <2> QED
    BY <2>1, <2>2, <2>3
<1>4. UNCHANGED <<disk, issued, entry, file, unsaved, event, given>>
  BY DEF HubPulls, HubKeeps
<1>5. /\ hub' \in [Passes -> Pass] /\ PassesTold'
      /\ \A e : Told(e) <=> Told(e)'
  BY <1>3, <1>4, PassGoes
<1>6. TypeOK'
  BY <1>1, <1>4, <1>5 DEF IInv, TypeOK, Pass
<1> QED
  BY <1>4, <1>5, <1>6 DEF IInv, MarkersTold

\* What a target was given it was given for good.
LEMMA GivenMore ==
  ASSUME IInv, \A t \in Targets : given[t] \subseteq given'[t]
  PROVE  \A e \in Entry : Told(e) => Told(e)'
BY EntryParts DEF Told

LEMMA HubPushesInv ==
  ASSUME NEW p \in Passes, NEW t \in Targets PROVE IInv /\ HubPushes(p, t) => IInv'
<1> SUFFICES ASSUME IInv, HubPushes(p, t) PROVE IInv'
  OBVIOUS
<1> DEFINE v == hub[p].version
<1>1. used' \in [commands : 0..MaxCommands, faults : 0..MaxFaults]
  BY Spent DEF IInv, HubPushes
<1>2. hub[p] \in Pass /\ v \in Versions /\ v # None
  BY Hubs, Constants DEF IInv, HubPushes, Pass, Hash, Versions
<1>3. PICK result \in {"SUCCESS", "ERROR"} :
        /\ Pushed(p, t, result)
        /\ given' \in {given, [given EXCEPT ![t] = @ \cup {v}]}
        /\ result = "SUCCESS" => given' = [given EXCEPT ![t] = @ \cup {v}]
  BY DEF HubPushes
<1>4. UNCHANGED <<disk, issued, entry, file, unsaved, event>>
  BY DEF HubPushes, HubKeeps
<1>5. /\ given' \in [Targets -> SUBSET Versions]
      /\ \A u \in Targets : given[u] \subseteq given'[u]
      /\ result = "SUCCESS" => v \in given'[t]
  BY <1>2, <1>3, Hubs DEF IInv
<1>6. /\ hub' \in [Passes -> Pass]
      /\ hub'[p].version = v /\ hub'[p].done = t /\ hub'[p].result = result
      /\ \A q \in Passes \ {p} : hub'[q] = hub[q]
  <2> DEFINE s == [work |-> hub[p].work \ {t}, version |-> v, done |-> t,
                   result |-> result]
  <2>1. s \in Pass
    BY <1>2 DEF Pass, Status
  <2>2. hub' = [hub EXCEPT ![p] = s]
    BY <1>3 DEF Pushed
  <2> QED
    BY <2>1, <2>2, Hubs DEF IInv
<1>7. TypeOK'
  BY <1>1, <1>4, <1>5, <1>6 DEF IInv, TypeOK, Pass
<1>8. ASSUME NEW q \in Passes PROVE PassTold(q)'
  <2>1. CASE q = p
    BY <1>2, <1>5, <1>6, <2>1 DEF PassTold
  <2>2. CASE q # p
    <3>1. hub'[q] = hub[q] /\ PassTold(q) /\ hub[q] \in Pass
      BY <1>6, <2>2, Hubs DEF IInv, PassesTold
    <3>2. hub[q].done # None => hub[q].done \in Targets
      BY <3>1 DEF Pass
    <3> QED
      BY <1>5, <3>1, <3>2 DEF PassTold
  <2> QED
    BY <2>1, <2>2
<1>9. MarkersTold'
  BY <1>4, <1>5, GivenMore DEF IInv, TypeOK, MarkersTold
<1> QED
  BY <1>7, <1>8, <1>9 DEF IInv, PassesTold

\* The report marks the target with the version that it was given, or an error.
LEMMA MarkedTold ==
  ASSUME NEW e \in Entry, NEW t \in DOMAIN e.pushed, NEW v \in Hash, Told(e),
         NEW status \in Status, v \in given[t] \/ status = "ERROR"
  PROVE  /\ [e EXCEPT !.pushed[t] = [hash |-> v, status |-> status]] \in Entry
         /\ Told([e EXCEPT !.pushed[t] = [hash |-> v, status |-> status]])
<1> DEFINE m == [hash |-> v, status |-> status]
           q == [e.pushed EXCEPT ![t] = m]
<1>1. /\ DOMAIN e.pushed \in SUBSET Targets /\ e.hash \in Hash
      /\ e.pushed \in [DOMAIN e.pushed -> Mark]
      /\ [e EXCEPT !.pushed[t] = m] = [hash |-> e.hash, pushed |-> q]
  BY EntryParts
<1>2. m \in Mark /\ m.hash = v /\ m.status = status
  BY DEF Mark
<1> HIDE DEF m
<1>3. q \in [DOMAIN e.pushed -> Mark]
  BY <1>1, <1>2
<1>4. [hash |-> e.hash, pushed |-> q] \in Entry
  BY <1>1, <1>3, EntryType
<1>5. Told([hash |-> e.hash, pushed |-> q])
  BY <1>1, <1>2, <1>3 DEF Told
<1> QED
  BY <1>1, <1>4, <1>5 DEF m

LEMMA HubReportsInv == ASSUME NEW p \in Passes PROVE IInv /\ HubReports(p) => IInv'
<1> SUFFICES ASSUME IInv, HubReports(p) PROVE IInv'
  OBVIOUS
<1>1. used' \in [commands : 0..MaxCommands, faults : 0..MaxFaults]
  BY Spent DEF IInv, HubReports
<1>2. /\ hub[p] \in Pass /\ hub[p].done \in Targets
      /\ hub[p].version \in Hash /\ hub[p].result \in {"SUCCESS", "ERROR"}
      /\ hub[p].result = "SUCCESS" => hub[p].version \in given[hub[p].done]
  BY Hubs DEF IInv, PassesTold, PassTold, HubReports, Pass
<1>3. PICK s \in Pass : s.done = None /\ hub' = [hub EXCEPT ![p] = s]
  <2> DEFINE s == [hub[p] EXCEPT !.done = None, !.result = "none"]
  <2>1. s \in Pass /\ s.done = None
    BY <1>2 DEF Pass, Status
  <2>2. hub' = [hub EXCEPT ![p] = Idle] \/ hub' = [hub EXCEPT ![p] = s]
    BY Hubs DEF HubReports
  <2> QED
    BY <2>1, <2>2, IdleType
<1>4. UNCHANGED <<disk, issued, event, given>>
  BY DEF HubReports, HubKeeps
<1>5. /\ hub' \in [Passes -> Pass] /\ PassesTold'
      /\ \A e : Told(e) <=> Told(e)'
  BY <1>3, <1>4, PassGoes
<1>6. /\ entry' \in Entry \cup {None} /\ file' \in Entry \cup {None}
      /\ unsaved' \in BOOLEAN
      /\ entry' # None => Told(entry')
      /\ file' # None => Told(file')
  <2>1. CASE /\ MarkDistributed(hub[p].done, hub[p].version, hub[p].result)
             /\ hub[p].done \in Registered
    <3>1. entry \in Entry /\ Told(entry) /\ hub[p].done \in DOMAIN entry.pushed
      BY <2>1 DEF IInv, TypeOK, MarkersTold, Registered
    <3> DEFINE e == Marked(hub[p].done, hub[p].version, hub[p].result)
    <3>2. e \in Entry /\ Told(e)
      BY <1>2, <3>1, MarkedTold DEF Marked, Status
    <3>3. entry' = e /\ file' = e /\ unsaved' = FALSE
      BY <2>1 DEF MarkDistributed
    <3> QED
      BY <3>2, <3>3
  <2>2. CASE UNCHANGED <<entry, file, unsaved>>
    BY <2>2 DEF IInv, TypeOK, MarkersTold
  <2> QED
    BY <2>1, <2>2 DEF HubReports, MarkDistributed
<1>7. TypeOK'
  BY <1>1, <1>4, <1>5, <1>6 DEF IInv, TypeOK, Pass
<1>8. MarkersTold'
  BY <1>4, <1>6 DEF MarkersTold, Told
<1> QED
  BY <1>5, <1>7, <1>8 DEF IInv

-----------------------------------------------------------------------------
(* The theorems.                                                           *)

LEMMA NextInv == IInv /\ [Next]_vars => IInv'
<1>1. IInv /\ UNCHANGED vars => IInv'
  BY DEF vars, IInv, TypeOK, PassesTold, PassTold, MarkersTold, Told
<1> QED
  BY <1>1, CertbotRenewsInv, ReconcileInv, RenewedInv, EndRenewalInv, IssueInv,
     AddTargetInv, RemoveTargetInv, RevokeInv, CrashInv, HubPollsInv, HubHearsInv,
     HubPullsInv, HubPushesInv, HubReportsInv DEF Next, Command, Hub, HubPass

LEMMA SpecInv == Spec => []IInv
BY InitInv, NextInv, PTL DEF Spec

\* Every variable of the distribution has its type, an entry's markers included.
THEOREM TypeCorrect == Spec => []TypeOK
<1>1. IInv => TypeOK
  BY DEF IInv
<1> QED
  BY <1>1, SpecInv, PTL

\* A target that the hub skips was given the ledger's version, or its failure is on
\* record, whatever was renewed, re-issued, lost, restarted or pushed by another
\* pass between a push and its mark (le_spoke.py:861-884, ledger.py:3-5).
THEOREM SkippingIsSafe == Spec => []SkipIsSafe
<1>1. IInv => SkipIsSafe
  <2> SUFFICES ASSUME IInv, NEW t \in Registered \ Due, entry.hash # None
               PROVE  entry.hash \in given[t] \/ entry.pushed[t].status = "ERROR"
    BY DEF SkipIsSafe
  <2>1. Told(entry) /\ t \in DOMAIN entry.pushed
    BY DEF IInv, TypeOK, MarkersTold, Registered
  <2>2. entry.pushed[t].hash = entry.hash
    BY DEF Due
  <2> QED
    BY <2>1, <2>2 DEF Told
<1> QED
  BY <1>1, SpecInv, PTL
=============================================================================
