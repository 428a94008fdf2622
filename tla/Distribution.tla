---------------------------- MODULE Distribution ----------------------------
(***************************************************************************)
(* How one domain's certificate reaches the targets of its ledger entry.   *)
(* The spoke (le_spoke.py, ledger.py) lists its entries to the hub, serves *)
(* the material on disk, tells of renewals, and keeps for every target the *)
(* hash and the result that the hub reported last.  Hub and targets are    *)
(* external, modelled from what the spoke's comments and docs/le.md:71 and *)
(* 88 say of them: an hourly sweep that skips a target whose hash is the   *)
(* certificate's, and passes started at once by an event, which nothing    *)
(* keeps apart.  Versions stand for hashes of the material.                *)
(***************************************************************************)
EXTENDS Naturals, Functions

CONSTANTS
  Targets,     \* pairs of module type and identifier
  Sweep,       \* the hub's hourly loop
  Immediate,   \* its passes that an event starts
  MaxVersions, \* bound: certificates that the CA gives out
  MaxCommands, \* bound: commands that edit the entry
  MaxFaults,   \* bound: restarts, failed reads, pushes and deliveries
  None

ASSUME DistributionAssumption ==
  /\ {MaxVersions, MaxCommands, MaxFaults} \subseteq Nat
  /\ MaxVersions > 0    \* Init has a certificate
  /\ None \notin Nat /\ Sweep \notin Immediate

VARIABLES
  disk,     \* the version in /etc/letsencrypt/live, or None
  issued,   \* versions given out so far
  entry,    \* the domain's ledger entry in memory, or None
  file,     \* the entry in the ledger file
  unsaved,  \* a renewal or a scan has changed the entry and will save it
  event,    \* the targets of an LE_CERT_RENEWED that the hub has not yet seen
  hub,      \* the passes of the hub
  given,    \* history: the versions that each target was ever given
  used

vars == <<disk, issued, entry, file, unsaved, event, hub, given, used>>

Versions == 1..MaxVersions
Hash == Versions \cup {None}
Status == {"none", "SUCCESS", "ERROR"}
Mark == [hash : Hash, status : Status]
Entry == [hash : Hash, pushed : UNION {[ts -> Mark] : ts \in SUBSET Targets}]

Passes == {Sweep} \cup Immediate

Registered == IF entry = None THEN {} ELSE DOMAIN entry.pushed

Fault == used.faults < MaxFaults /\ used' = [used EXCEPT !.faults = @ + 1]
Commanded == used.commands < MaxCommands /\ used' = [used EXCEPT !.commands = @ + 1]

Keeps == UNCHANGED <<hub, given>>

-----------------------------------------------------------------------------
(* The spoke.                                                              *)

\* certbot replaces the material: by its own timer, or run by a renewal.
CertbotRenews ==
  /\ disk # None /\ issued < MaxVersions
  /\ issued' = issued + 1 /\ disk' = issued + 1
  /\ Keeps /\ UNCHANGED <<entry, file, unsaved, event, used>>

\* Mutant: the targets get lost with the old hash.
RefreshedBare == entry' = [hash |-> disk]

\* The entry's hash becomes that of the material on disk, in memory.
Refreshed == entry' = [entry EXCEPT !.hash = disk]

\* Mutant: only a hash that is missing is refreshed.
ReconcileMissing ==
  /\ entry # None /\ disk # None /\ entry.hash = None
  /\ Refreshed /\ unsaved' = TRUE
  /\ Keeps /\ UNCHANGED <<disk, issued, file, event, used>>

\* The scan finds another version than the ledger's: it is not announced.
Reconcile ==
  /\ entry # None /\ disk # None /\ entry.hash # disk
  /\ Refreshed /\ unsaved' = TRUE
  /\ Keeps /\ UNCHANGED <<disk, issued, file, event, used>>

\* A renewal of the scan or a command has succeeded, whether it got a new version
\* or not; the event is sent, or dropped when the hub is away.
Renewed ==
  /\ entry # None /\ disk # None
  /\ Refreshed /\ unsaved' = TRUE
  /\ \/ event = {} /\ event' = Registered /\ UNCHANGED used
     \/ Fault /\ UNCHANGED event
  /\ Keeps /\ UNCHANGED <<disk, issued, file>>

\* The scan or the command ends and saves.
EndRenewal ==
  /\ unsaved
  /\ unsaved' = FALSE /\ file' = entry
  /\ Keeps /\ UNCHANGED <<disk, issued, entry, event, used>>

\* A command edits the entry and saves.
Edit(e) ==
  /\ entry' = e /\ file' = e /\ unsaved' = FALSE
  /\ Keeps /\ UNCHANGED event

Unpushed == [hash |-> None, status |-> "none"]
NoPushes(ts) == [t \in ts |-> Unpushed]

\* An issue has succeeded: a new version or the kept one, read or not, and every
\* target with an empty marker.
Issue(ts, kept, readable) ==
  /\ Commanded
  /\ IF kept THEN disk # None /\ UNCHANGED <<disk, issued>>
             ELSE issued < MaxVersions /\ disk' = issued + 1 /\ issued' = issued + 1
  /\ Edit([hash |-> IF readable THEN disk' ELSE None,
           pushed |-> NoPushes(Registered \cup ts)])

AddTarget(t) ==
  /\ entry # None /\ t \notin Registered
  /\ Commanded
  /\ Edit([entry EXCEPT !.pushed = [u \in Registered \cup {t} |->
             IF u = t THEN Unpushed ELSE entry.pushed[u]]])
  /\ UNCHANGED <<disk, issued>>

RemoveTarget(t) ==
  /\ t \in Registered
  /\ Commanded
  /\ Edit([entry EXCEPT !.pushed = Restrict(@, Registered \ {t})])
  /\ UNCHANGED <<disk, issued>>

\* certbot has revoked the certificate and deleted its files, unless told not to.
Revoke(delete) ==
  /\ entry # None /\ disk # None
  /\ Commanded
  /\ Edit(None) /\ disk' = (IF delete THEN None ELSE disk) /\ UNCHANGED issued

\* The process restarts with the ledger file; an event in transit is lost.
Crash ==
  /\ Fault
  /\ entry' = file /\ unsaved' = FALSE /\ event' = {}
  /\ Keeps /\ UNCHANGED <<disk, issued, file>>

\* LE_GET_CERT: what is on disk, whatever the ledger says.
Served == disk

\* Mutant: the target is marked with the ledger's own hash.
MarkedCurrent(t, v, status) ==
  [entry EXCEPT !.pushed[t] = [hash |-> entry.hash, status |-> status]]

\* The entry after LE_MARK_DISTRIBUTED: the target's hash and status are those
\* that the hub names, the hash of a failed push like any other.
Marked(t, v, status) ==
  [entry EXCEPT !.pushed[t] = [hash |-> v, status |-> status]]

\* LE_MARK_DISTRIBUTED, refused for a target that is gone.
MarkDistributed(t, v, status) ==
  IF t \in Registered
    THEN /\ entry' = Marked(t, v, status) /\ file' = Marked(t, v, status)
         /\ unsaved' = FALSE
    ELSE UNCHANGED <<entry, file, unsaved>>

-----------------------------------------------------------------------------
(* The hub: `work` are the targets of a pass that are left, `version` the  *)
(* material it has pulled for them, `done` the target it has pushed to and *)
(* has to report, `result` how that went.                                  *)

Idle == [work |-> {}, version |-> None, done |-> None, result |-> "none"]
HubKeeps == UNCHANGED <<disk, issued>>

\* A target whose hash is the certificate's is not pushed to again.
Due == {t \in Registered : entry.pushed[t].hash # entry.hash}

\* A pass starts with what LE_LIST_CERTS or the event says.
HubStarts(p, ts) ==
  /\ hub[p] = Idle /\ ts # {}
  /\ hub' = [hub EXCEPT ![p] = [Idle EXCEPT !.work = ts]]
  /\ HubKeeps /\ UNCHANGED <<entry, file, unsaved, given, used>>

HubPolls == HubStarts(Sweep, Due) /\ UNCHANGED event
HubHears(p) == HubStarts(p, event) /\ event' = {}

\* LE_GET_CERT; without an answer the pass is over.
HubPulls(p) ==
  /\ hub[p].work # {} /\ hub[p].version = None
  /\ \/ /\ hub' = [hub EXCEPT ![p] = IF Served = None THEN Idle
                                     ELSE [@ EXCEPT !.version = Served]]
        /\ UNCHANGED used
     \/ Fault /\ hub' = [hub EXCEPT ![p] = Idle]
  /\ HubKeeps /\ UNCHANGED <<entry, file, unsaved, event, given>>

\* The pass has pushed to t, and goes on with `result`.
Pushed(p, t, result) ==
  hub' = [hub EXCEPT ![p] = [work |-> @.work \ {t}, version |-> @.version,
                             done |-> t, result |-> result]]

\* INSTALL_CERT: done, or failed, also when only its answer was lost.
HubPushes(p, t) ==
  /\ t \in hub[p].work /\ hub[p].version # None /\ hub[p].done = None
  /\ \/ /\ Pushed(p, t, "SUCCESS")
        /\ given' = [given EXCEPT ![t] = @ \cup {hub[p].version}]
        /\ UNCHANGED used
     \/ /\ Pushed(p, t, "ERROR")
        /\ given' \in {given, [given EXCEPT ![t] = @ \cup {hub[p].version}]}
        /\ Fault
  /\ HubKeeps /\ UNCHANGED <<entry, file, unsaved, event>>

\* LE_MARK_DISTRIBUTED reaches the spoke; it may be lost, or not sent for a push
\* that failed.
HubReports(p) ==
  /\ hub[p].done # None
  /\ \/ MarkDistributed(hub[p].done, hub[p].version, hub[p].result) /\ UNCHANGED used
     \/ hub[p].result = "ERROR" /\ UNCHANGED <<entry, file, unsaved, used>>
     \/ Fault /\ UNCHANGED <<entry, file, unsaved>>
  /\ hub' = [hub EXCEPT ![p] = IF @.work = {} THEN Idle
                               ELSE [@ EXCEPT !.done = None, !.result = "none"]]
  /\ HubKeeps /\ UNCHANGED <<event, given>>

-----------------------------------------------------------------------------
\* A certificate without targets yet, on record.
Init ==
  /\ disk = 1 /\ issued = 1
  /\ entry = [hash |-> 1, pushed |-> NoPushes({})]
  /\ file = entry /\ unsaved = FALSE
  /\ event = {} /\ hub = [p \in Passes |-> Idle]
  /\ given = [t \in Targets |-> {}]
  /\ used = [commands |-> 0, faults |-> 0]

Command ==
  \/ \E ts \in SUBSET Targets, kept, readable \in BOOLEAN : Issue(ts, kept, readable)
  \/ \E t \in Targets : AddTarget(t) \/ RemoveTarget(t)
  \/ \E delete \in BOOLEAN : Revoke(delete)

HubPass(p) == HubPulls(p) \/ HubReports(p) \/ \E t \in Targets : HubPushes(p, t)

Hub ==
  \/ HubPolls
  \/ \E p \in Immediate : HubHears(p)
  \/ \E p \in Passes : HubPass(p)

Next ==
  \/ CertbotRenews \/ Reconcile \/ Renewed \/ EndRenewal
  \/ Command \/ Crash \/ Hub

Spec == Init /\ [][Next]_vars

\* The renewal task scans every day, and the hub's loop goes on every hour and
\* through with its sweep; certificates, commands, events and the passes that
\* events start need not come or end.
Fairness ==
  /\ WF_vars(Reconcile) /\ WF_vars(EndRenewal)
  /\ WF_vars(HubPolls) /\ WF_vars(HubPass(Sweep))

FairSpec == Spec /\ Fairness

-----------------------------------------------------------------------------
(* Properties.                                                             *)

\* Every variable has its type.
TypeOK ==
  /\ disk \in Hash /\ issued \in Versions
  /\ entry \in Entry \cup {None} /\ file \in Entry \cup {None}
  /\ unsaved \in BOOLEAN
  /\ event \subseteq Targets
  /\ hub \in [Passes -> [work : SUBSET Targets, version : Hash,
                        done : Targets \cup {None}, result : Status]]
  /\ given \in [Targets -> SUBSET Versions]
  /\ used \in [commands : 0..MaxCommands, faults : 0..MaxFaults]

\* The hub "can skip re-pushing unchanged material" (ledger.py:3-5): a target that
\* it skips was given the version of the ledger, or the ledger says that giving it
\* failed, whatever re-issue, renewal, restart, other pass or late report came
\* between push and mark.
SkipIsSafe ==
  \A t \in Registered \ Due :
    entry.hash # None =>
      entry.hash \in given[t] \/ entry.pushed[t].status = "ERROR"

\* The ledger says of the version on disk that the target did not take it.
Refused(t) == t \in Registered /\ entry.pushed[t] = [hash |-> disk, status |-> "ERROR"]

\* Every target is given the certificate on disk or its refusal is on record, or it
\* is removed or the certificate revoked: "a missed event never leaves a cert
\* undistributed" (le_spoke.py:360-363), nor does a renewal that nobody announces,
\* a pass beside the sweep or a lost report.
Distributed ==
  \A t \in Targets :
    t \in Registered ~> (t \notin Registered \/ disk = None
                           \/ disk \in given[t] \/ Refused(t))
=============================================================================
