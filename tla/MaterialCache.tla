--------------------------- MODULE MaterialCache ---------------------------
(***************************************************************************)
(* read_material (src/src/acme.py) and its mtime-keyed memo, for one       *)
(* domain, while certbot moves live/<domain> to another version.           *)
(*                                                                         *)
(* live/<domain> holds three files read here: privkey, chain, fullchain.   *)
(* certbot (external) switches or removes them one by one, in that order,  *)
(* and is killed when it exceeds _run's timeout.  A file's content is the  *)
(* version it belongs to (0: absent, or the empty string in a result); the *)
(* modification time of a fullchain identifies its version.                *)
(***************************************************************************)
EXTENDS Naturals

CONSTANTS
  MaxVersions,    \* bound: versions certbot issues
  MaxReadErrors,  \* bound: reads that raise on a file that is there
  MaxKills        \* bound: certbot runs killed half way

ASSUME BoundsAssumption == {MaxVersions, MaxReadErrors, MaxKills} \subseteq Nat

File == {"privkey", "chain", "fullchain"}

Absent == 0

Version == 0..MaxVersions

VARIABLES
  live,     \* version of each file under live/<domain>
  issued,   \* versions issued so far
  bot,      \* certbot's switch under way: the version to switch to, files left
  reader,   \* the call of read_material under way
  memo,     \* _read_material_cache's item for the domain
  result,   \* what the last call returned
  seen,     \* fullchain versions on disk since that call began
  errors,   \* reads that raised so far
  kills     \* certbot runs killed so far

vars == <<live, issued, bot, reader, memo, result, seen, errors, kills>>

Material == [File -> Version]

NoMaterial == [f \in File |-> Absent]

\* mtime of a fullchain: its version; 0 when stat raised.
NoMemo == [mtime |-> 0, mat |-> NoMaterial]

Resting == [to |-> 0, left |-> {}]

AtRest == bot.left = {}

Init ==
  /\ live = NoMaterial
  /\ issued = 0
  /\ bot = Resting
  /\ reader = [pc |-> "idle", mtime |-> 0, mat |-> NoMaterial]
  /\ memo = NoMemo
  /\ result = NoMaterial
  /\ seen = {}
  /\ errors = 0
  /\ kills = 0

-----------------------------------------------------------------------------
(* certbot (external).                                                     *)

\* A run has a new version, or is to remove the files there are.
Begin(v) ==
  /\ AtRest
  /\ \/ v = issued + 1 /\ v <= MaxVersions /\ issued' = v
     \/ v = Absent /\ live["fullchain"] # Absent /\ UNCHANGED issued
  /\ bot' = [to |-> v, left |-> File]
  /\ UNCHANGED <<live, reader, memo, result, seen, errors, kills>>

\* certbot goes through privkey, chain and fullchain in this order.
NextFile(left) ==
  CASE "privkey" \in left -> "privkey"
    [] "chain" \in left -> "chain"
    [] OTHER -> "fullchain"

Switch ==
  /\ ~AtRest
  /\ live' = [live EXCEPT ![NextFile(bot.left)] = bot.to]
  /\ bot' = [bot EXCEPT !.left = @ \ {NextFile(bot.left)}]
  /\ seen' = seen \cup {live'["fullchain"]}
  /\ UNCHANGED <<issued, reader, memo, result, errors, kills>>

Kill ==
  /\ ~AtRest /\ kills < MaxKills
  /\ kills' = kills + 1
  /\ bot' = Resting
  /\ UNCHANGED <<live, issued, reader, memo, result, seen, errors>>

-----------------------------------------------------------------------------
(* read_material, one file system call at a time.                          *)

Return(mat) ==
  /\ result' = mat
  /\ reader' = [pc |-> "idle", mtime |-> 0, mat |-> NoMaterial]

\* os.path.isfile(fullchain): without it the memo is dropped.
Call ==
  /\ reader.pc = "idle"
  /\ seen' = {live["fullchain"]}
  /\ IF live["fullchain"] = Absent
     THEN memo' = NoMemo /\ Return(NoMaterial)
     ELSE /\ reader' = [reader EXCEPT !.pc = "stat"]
          /\ UNCHANGED <<memo, result>>
  /\ UNCHANGED <<live, issued, bot, errors, kills>>

\* Mutant of Hit: a memo is used whatever its time.
HitAny(mtime) == memo.mtime # 0 /\ mtime # 0

\* os.stat(fullchain), then the memo is used if it was stored under that time.
Hit(mtime) == memo.mtime # 0 /\ memo.mtime = mtime

Stat ==
  /\ reader.pc = "stat"
  /\ LET mtime == live["fullchain"] IN
     IF Hit(mtime) THEN Return(memo.mat)
     ELSE /\ reader' = [reader EXCEPT !.pc = "fullchain", !.mtime = mtime]
          /\ UNCHANGED result
  /\ UNCHANGED <<live, issued, bot, memo, seen, errors, kills>>

\* Reading a file gives its content, or raises: always when it is gone.
Raises(f) == live[f] = Absent \/ errors < MaxReadErrors

Count(f) == errors' = IF live[f] = Absent THEN errors ELSE errors + 1

\* Without the full chain there is no material; the memo stays.
ReadFullchain ==
  /\ reader.pc = "fullchain"
  /\ \/ /\ live["fullchain"] # Absent
        /\ reader' = [reader EXCEPT !.pc = "privkey",
                                    !.mat["fullchain"] = live["fullchain"]]
        /\ UNCHANGED <<result, errors>>
     \/ Raises("fullchain") /\ Count("fullchain") /\ Return(NoMaterial)
  /\ UNCHANGED <<live, issued, bot, memo, seen, kills>>

\* The other two become the empty string when they are absent or unreadable.
Take(f, content) ==
  /\ \/ content = live[f] /\ UNCHANGED errors
     \/ content = Absent /\ Raises(f) /\ Count(f)

ReadPrivkey ==
  /\ reader.pc = "privkey"
  /\ \E content \in Version :
       /\ Take("privkey", content)
       /\ reader' = [reader EXCEPT !.pc = "chain", !.mat["privkey"] = content]
  /\ UNCHANGED <<live, issued, bot, memo, result, seen, kills>>

\* Mutants of Memoise: stored under the time at which the reads were over, and
\* with the full chain alone.
MemoiseLate(mat) == memo' = [mtime |-> live["fullchain"], mat |-> mat]

MemoiseChain(mat) ==
  memo' = [mtime |-> reader.mtime, fullchain |-> mat["fullchain"]]

\* The last file; the result is remembered under the time that was read first.
Memoise(mat) ==
  memo' = IF reader.mtime # 0 THEN [mtime |-> reader.mtime, mat |-> mat] ELSE memo

ReadChain ==
  /\ reader.pc = "chain"
  /\ \E content \in Version :
       LET mat == [reader.mat EXCEPT !["chain"] = content] IN
         Take("chain", content) /\ Memoise(mat) /\ Return(mat)
  /\ UNCHANGED <<live, issued, bot, seen, kills>>

Next ==
  \/ \E v \in Version : Begin(v)
  \/ Switch \/ Kill
  \/ Call \/ Stat \/ ReadFullchain \/ ReadPrivkey \/ ReadChain

Spec == Init /\ [][Next]_vars

-----------------------------------------------------------------------------

\* Every variable has its type.
TypeOK ==
  /\ live \in Material
  /\ issued \in Version
  /\ bot \in [to : Version, left : SUBSET File]
  /\ reader \in [pc : {"idle", "stat", "fullchain", "privkey", "chain"},
                 mtime : Version, mat : Material]
  /\ memo \in [mtime : Version, mat : Material]
  /\ result \in Material
  /\ seen \subseteq Version
  /\ errors \in 0..MaxReadErrors
  /\ kills \in 0..MaxKills

\* A memo that the next call would use holds the full chain that is on disk, so
\* the hash and expiry derived from it are those of the current certificate,
\* although certbot may switch the file between the stat and the read
\* (acme.py:657-666, 688-696).
MemoChainCurrent ==
  Hit(live["fullchain"]) => memo.mat["fullchain"] = live["fullchain"]

\* The full chain a call returns was on disk at some time during that call: a
\* renewal that is over before read_material is called is never missed
\* (acme.py:637-641; le_spoke.py:229-234 relies on it right after certbot).
ReturnsRecentChain ==
  reader.pc = "idle" /\ result # NoMaterial => result["fullchain"] \in seen

\* With certbot at rest, a memo that the next call would use is what that call
\* would read, "an mtime-keyed cache stays consistent with what the hub would see
\* if it re-fetched" (acme.py:639-641): it is enough to look at one file's time for
\* all three, although the memo is stored and used between any two of certbot's
\* switches.  It takes that every run of certbot ends; and a private key or chain
\* whose read once failed stays the empty string.
MemoConsistent ==
  AtRest /\ kills = 0 /\ Hit(live["fullchain"]) =>
    \A f \in File :
      \/ memo.mat[f] = live[f]
      \/ memo.mat[f] = Absent /\ f # "fullchain" /\ errors > 0
=============================================================================
