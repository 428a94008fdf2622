---------------------------- MODULE CertRegistry ----------------------------
(***************************************************************************)
(* What the certificate spoke promises its operator about the registry of  *)
(* managed certificates and of their distribution targets: a table in      *)
(* memory, a table on disk, and commands that edit them.                   *)
(*                                                                         *)
(* A fact is <<d, Managed>> (domain d has a ledger entry) or <<d, t>>      *)
(* (target t is attached to d's entry).  A command that is acknowledged is *)
(* in both tables.  A command whose save raised is in memory only, so the  *)
(* operator, who got an error, can count neither on it nor on its absence. *)
(* `must` and `may` bound what the operator can count on: must is what     *)
(* every table has, may is what some table can have.                       *)
(***************************************************************************)

CONSTANTS Domains, Targets, Managed

VARIABLES mem, disk, must, may

vars == <<mem, disk, must, may>>

Fact == Domains \X (Targets \cup {Managed})

FactsOf(d) == {d} \X (Targets \cup {Managed})

Init ==
  /\ mem \in SUBSET Fact
  /\ disk = mem
  /\ must = mem
  /\ may = mem

\* A command deletes some facts, adds others, and is acknowledged once saved.
Acknowledged(dels, adds) ==
  /\ mem' = (mem \ dels) \cup adds
  /\ disk' = mem'
  /\ must' = (must \ dels) \cup adds
  /\ may' = (may \ dels) \cup adds

\* The same command when the save raises: memory changed, the file did not.
Unsaved(dels, adds) ==
  /\ mem' = (mem \ dels) \cup adds
  /\ must' = must \ dels
  /\ may' = may \cup adds
  /\ UNCHANGED disk

Command(dels, adds) == Acknowledged(dels, adds) \/ Unsaved(dels, adds)

Register(d, ts) == Command({}, {<<d, Managed>>} \cup ({d} \X ts))

AddTarget(d, t) == <<d, Managed>> \in mem /\ Command({}, {<<d, t>>})

RemoveTarget(d, t) == <<d, t>> \in mem /\ Command({<<d, t>>}, {})

Drop(d) == Command(FactsOf(d), {})

\* Background work never edits the table; it may only write it out.
Flush == disk' = mem /\ UNCHANGED <<mem, must, may>>

\* A restart reloads the file.
Crash == mem' = disk /\ UNCHANGED <<disk, must, may>>

Next ==
  \/ \E d \in Domains :
       \/ \E ts \in SUBSET Targets : Register(d, ts)
       \/ \E t \in Targets : AddTarget(d, t) \/ RemoveTarget(d, t)
       \/ Drop(d)
  \/ Flush
  \/ Crash

Spec == Init /\ [][Next]_vars

-----------------------------------------------------------------------------

TypeOK ==
  /\ mem \subseteq Fact
  /\ disk \subseteq Fact
  /\ must \subseteq Fact
  /\ may \subseteq Fact

\* Every acknowledged registration is in memory and on disk, and neither holds
\* a certificate or a target nobody asked for (or one whose removal was
\* acknowledged), whatever saves failed and whenever the process restarted.
Promise ==
  /\ must \subseteq mem
  /\ must \subseteq disk
  /\ mem \subseteq may
  /\ disk \subseteq may
=============================================================================
