------------------------ MODULE MaterialCacheProofs ------------------------
(***************************************************************************)
(* Theorems about MaterialCache for any number of versions, of reads that  *)
(* raise and of certbot runs that are killed.                              *)
(***************************************************************************)
EXTENDS MaterialCache, TLAPS

\* Nothing read, remembered or on disk is newer than what certbot issued, and a
\* switch under way takes the full chain to a version that was never there.
Versioned ==
  /\ live["fullchain"] <= issued
  /\ reader.mtime <= issued
  /\ memo.mtime <= issued
  /\ bot.to <= issued
  /\ "fullchain" \in bot.left /\ bot.to # Absent =>
       /\ live["fullchain"] < bot.to
       /\ reader.mtime < bot.to
       /\ memo.mtime < bot.to

\* What the reader has of the full chain is what is on disk, unless certbot has
\* switched it since its modification time was read.
ReaderCurrent ==
  reader.pc \in {"privkey", "chain"} /\ reader.mtime # 0
    /\ reader.mtime = live["fullchain"] =>
      reader.mat["fullchain"] = live["fullchain"]

IInv == TypeOK /\ Versioned /\ ReaderCurrent /\ MemoChainCurrent

LEMMA InitInv == Init => IInv
BY BoundsAssumption
   DEF Init, IInv, TypeOK, Versioned, ReaderCurrent, MemoChainCurrent, Hit,
       NoMemo, NoMaterial, Resting, Material, Version, Absent, File

\* The constants' bounds, as a fact the solvers can use.
LEMMA Bounds == MaxVersions \in Nat /\ MaxReadErrors \in Nat /\ MaxKills \in Nat
BY BoundsAssumption

LEMMA BeginInv == ASSUME NEW v \in Version PROVE IInv /\ Begin(v) => IInv'
BY Bounds DEF IInv, TypeOK, Versioned, ReaderCurrent, MemoChainCurrent, Hit,
   Begin, AtRest, Material, Version, Absent, File

LEMMA SwitchInv == IInv /\ Switch => IInv'
<1> SUFFICES ASSUME IInv, Switch PROVE IInv'
  OBVIOUS
<1>1. PICK f \in File : f = NextFile(bot.left)
  BY DEF NextFile, File
<1>2. f = "fullchain" => f \in bot.left
  BY <1>1 DEF NextFile, Switch, AtRest, IInv, TypeOK, File
<1>3. TypeOK'
  BY <1>1 DEF IInv, TypeOK, Switch, Material, File
<1>4. CASE f = "fullchain"
  BY <1>1, <1>2, <1>3, <1>4, Bounds
     DEF IInv, TypeOK, Versioned, ReaderCurrent, MemoChainCurrent, Hit,
         Switch, Material, Version, Absent, File
<1>5. CASE f # "fullchain"
  BY <1>1, <1>3, <1>5, Bounds
     DEF IInv, TypeOK, Versioned, ReaderCurrent, MemoChainCurrent, Hit,
         Switch, Material, Version, Absent, File
<1> QED
  BY <1>4, <1>5

LEMMA KillInv == IInv /\ Kill => IInv'
BY Bounds DEF IInv, TypeOK, Versioned, ReaderCurrent, MemoChainCurrent, Hit,
   Kill, Resting, Material, Version, Absent, File

LEMMA CallInv == IInv /\ Call => IInv'
BY Bounds DEF IInv, TypeOK, Versioned, ReaderCurrent, MemoChainCurrent, Hit,
   Call, Return, NoMemo, NoMaterial, Material, Version, Absent, File

LEMMA StatInv == IInv /\ Stat => IInv'
<1> SUFFICES ASSUME IInv, Stat PROVE IInv'
  OBVIOUS
<1>1. CASE Hit(live["fullchain"])
  <2>1. result' = memo.mat /\ reader' = [pc |-> "idle", mtime |-> 0, mat |-> NoMaterial]
    BY <1>1 DEF Stat, Return
  <2>2. NoMaterial \in Material
    BY Bounds DEF NoMaterial, Material, Version, Absent
  <2>3. TypeOK'
    BY <2>1, <2>2, Bounds DEF IInv, TypeOK, Stat, Version
  <2> QED
    BY <2>1, <2>3, Bounds DEF IInv, TypeOK, Versioned, ReaderCurrent,
       MemoChainCurrent, Hit, Stat, Material, Version, Absent, File
<1>2. CASE ~Hit(live["fullchain"])
  <2>1. reader' = [reader EXCEPT !.pc = "fullchain", !.mtime = live["fullchain"]]
    BY <1>2 DEF Stat
  <2>2. TypeOK'
    BY <1>2, <2>1 DEF IInv, TypeOK, Stat, Material, File
  <2> QED
    BY <2>1, <2>2, Bounds DEF IInv, TypeOK, Versioned, ReaderCurrent,
       MemoChainCurrent, Hit, Stat, Material, Version, Absent, File
<1> QED
  BY <1>1, <1>2

\* Counting a read that raises stays within the bound.
LEMMA CountType ==
  ASSUME IInv, NEW f \in File,
         (Raises(f) /\ Count(f)) \/ UNCHANGED errors
  PROVE  errors' \in 0..MaxReadErrors
BY Bounds DEF IInv, TypeOK, Raises, Count

LEMMA ReadFullchainInv == IInv /\ ReadFullchain => IInv'
<1> SUFFICES ASSUME IInv, ReadFullchain PROVE IInv'
  OBVIOUS
<1>1. errors' \in 0..MaxReadErrors
  BY CountType DEF ReadFullchain, File
<1>2. /\ reader'.pc \in {"idle", "privkey"} /\ reader'.mtime \in {reader.mtime, 0}
      /\ reader' \in [pc : {"idle", "stat", "fullchain", "privkey", "chain"},
                     mtime : Version, mat : Material]
      /\ reader'.pc = "privkey" => reader'.mat["fullchain"] = live["fullchain"]
      /\ result' \in Material
  <2>1. CASE /\ reader' = [reader EXCEPT !.pc = "privkey",
                                        !.mat["fullchain"] = live["fullchain"]]
             /\ result' = result
    <3>1. reader'.mat = [reader.mat EXCEPT !["fullchain"] = live["fullchain"]]
      BY <2>1 DEF IInv, TypeOK
    <3>2. live["fullchain"] \in Version /\ reader.mat \in Material
      BY DEF IInv, TypeOK, Material, File
    <3>3. /\ reader'.mat \in Material
          /\ reader'.mat["fullchain"] = live["fullchain"]
      BY <3>1, <3>2 DEF Material, File
    <3> QED
      BY <2>1, <3>3 DEF IInv, TypeOK
  <2>2. CASE Return(NoMaterial)
    <3>1. NoMaterial \in Material /\ 0 \in Version
      BY Bounds DEF NoMaterial, Material, Version, Absent
    <3> QED
      BY <2>2, <3>1 DEF Return
  <2> QED
    BY <2>1, <2>2 DEF ReadFullchain
<1>3. UNCHANGED <<live, issued, bot, memo, seen, kills>>
  BY DEF ReadFullchain
<1>4. TypeOK'
  BY <1>1, <1>2, <1>3 DEF IInv, TypeOK
<1> QED
  BY <1>2, <1>3, <1>4, Bounds DEF IInv, TypeOK, Versioned, ReaderCurrent,
     MemoChainCurrent, Hit, Material, Version, Absent, File

LEMMA ReadPrivkeyInv == IInv /\ ReadPrivkey => IInv'
<1> SUFFICES ASSUME IInv, ReadPrivkey PROVE IInv'
  OBVIOUS
<1>1. PICK content \in Version :
        /\ Take("privkey", content)
        /\ reader' = [reader EXCEPT !.pc = "chain", !.mat["privkey"] = content]
  BY DEF ReadPrivkey
<1>2. errors' \in 0..MaxReadErrors
  BY <1>1, CountType DEF Take, File
<1>3. /\ reader'.mtime = reader.mtime
      /\ reader'.mat["fullchain"] = reader.mat["fullchain"]
      /\ reader' \in [pc : {"idle", "stat", "fullchain", "privkey", "chain"},
                     mtime : Version, mat : Material]
  BY <1>1 DEF IInv, TypeOK, Material, File
<1>4. UNCHANGED <<live, issued, bot, memo, result, seen, kills>>
  BY DEF ReadPrivkey
<1>5. TypeOK'
  BY <1>2, <1>3, <1>4 DEF IInv, TypeOK
<1> QED
  BY <1>3, <1>4, <1>5 DEF IInv, Versioned, ReaderCurrent, MemoChainCurrent, Hit,
     ReadPrivkey

LEMMA ReadChainInv == IInv /\ ReadChain => IInv'
BY Bounds DEF IInv, TypeOK, Versioned, ReaderCurrent, MemoChainCurrent, Hit,
   ReadChain, Take, Raises, Count, Memoise, Return, NoMaterial, Material, Version,
   Absent, File

LEMMA NextInv == IInv /\ [Next]_vars => IInv'
<1>1. IInv /\ UNCHANGED vars => IInv'
  BY DEF vars, IInv, TypeOK, Versioned, ReaderCurrent, MemoChainCurrent, Hit,
         AtRest
<1> QED
  BY <1>1, BeginInv, SwitchInv, KillInv, CallInv, StatInv, ReadFullchainInv,
     ReadPrivkeyInv, ReadChainInv DEF Next

LEMMA SpecInv == Spec => []IInv
BY InitInv, NextInv, PTL DEF Spec

\* The hash and the expiry a call derives from the memo are those of the full
\* chain on disk, however certbot's switch, a kill or a failed read falls into
\* an earlier call (acme.py:657-666, 688-696).
THEOREM MemoChainIsCurrent == Spec => []MemoChainCurrent
<1>1. IInv => MemoChainCurrent
  BY DEF IInv
<1> QED
  BY <1>1, SpecInv, PTL

\* Every variable has its type, the memo and what a call returns included.
THEOREM TypeCorrect == Spec => []TypeOK
<1>1. IInv => TypeOK
  BY DEF IInv
<1> QED
  BY <1>1, SpecInv, PTL

-----------------------------------------------------------------------------
(* What a call returns was there during the call.                          *)

\* A call that is under way has seen what is on disk now, and what it has read.
SeenByCall ==
  /\ reader.pc # "idle" => live["fullchain"] \in seen
  /\ reader.pc \in {"privkey", "chain"} => reader.mat["fullchain"] \in seen

SInv == SeenByCall /\ ReturnsRecentChain

\* A call that returns nothing returns nothing old.
LEMMA ReturnsNothing ==
  ASSUME Return(NoMaterial) PROVE SInv'
BY DEF Return, SInv, SeenByCall, ReturnsRecentChain

LEMMA SeenStays ==
  ASSUME SInv, UNCHANGED <<live, reader, result, seen>> PROVE SInv'
BY DEF SInv, SeenByCall, ReturnsRecentChain

LEMMA SwitchSeen == IInv /\ SInv /\ Switch => SInv'
BY DEF SInv, SeenByCall, ReturnsRecentChain, Switch

LEMMA CallSeen == IInv /\ SInv /\ Call => SInv'
<1> SUFFICES ASSUME IInv, SInv, Call PROVE SInv'
  OBVIOUS
<1>1. CASE live["fullchain"] = Absent
  BY <1>1, ReturnsNothing DEF Call
<1>2. CASE live["fullchain"] # Absent
  <2>1. reader'.pc = "stat" /\ UNCHANGED live /\ seen' = {live["fullchain"]}
    BY <1>2 DEF Call, IInv, TypeOK
  <2> QED
    BY <2>1 DEF SInv, SeenByCall, ReturnsRecentChain
<1> QED
  BY <1>1, <1>2

LEMMA StatSeen == IInv /\ SInv /\ Stat => SInv'
<1> SUFFICES ASSUME IInv, SInv, Stat PROVE SInv'
  OBVIOUS
<1>1. UNCHANGED <<live, seen>> /\ live["fullchain"] \in seen
  BY DEF Stat, SInv, SeenByCall
<1>2. CASE Hit(live["fullchain"])
  <2>1. memo.mat["fullchain"] = live["fullchain"]
    BY <1>2 DEF IInv, MemoChainCurrent
  <2> QED
    BY <1>1, <1>2, <2>1 DEF Stat, Return, SInv, SeenByCall, ReturnsRecentChain
<1>3. CASE ~Hit(live["fullchain"])
  <2>1. reader'.pc = "fullchain"
    BY <1>3 DEF Stat, IInv, TypeOK
  <2> QED
    BY <1>1, <2>1 DEF SInv, SeenByCall, ReturnsRecentChain
<1> QED
  BY <1>2, <1>3

LEMMA ReadFullchainSeen == IInv /\ SInv /\ ReadFullchain => SInv'
<1> SUFFICES ASSUME IInv, SInv, ReadFullchain PROVE SInv'
  OBVIOUS
<1>1. UNCHANGED <<live, seen>> /\ live["fullchain"] \in seen
  BY DEF ReadFullchain, SInv, SeenByCall
<1>2. CASE reader' = [reader EXCEPT !.pc = "privkey",
                                    !.mat["fullchain"] = live["fullchain"]]
  <2>1. reader'.pc = "privkey" /\ reader'.mat["fullchain"] = live["fullchain"]
    BY <1>2 DEF IInv, TypeOK, Material, File
  <2> QED
    BY <1>1, <2>1 DEF SInv, SeenByCall, ReturnsRecentChain
<1>3. CASE Return(NoMaterial)
  BY <1>3, ReturnsNothing
<1> QED
  BY <1>2, <1>3 DEF ReadFullchain

LEMMA ReadPrivkeySeen == IInv /\ SInv /\ ReadPrivkey => SInv'
<1> SUFFICES ASSUME IInv, SInv, ReadPrivkey PROVE SInv'
  OBVIOUS
<1>1. /\ reader'.pc = "chain"
      /\ reader'.mat["fullchain"] = reader.mat["fullchain"]
  BY DEF ReadPrivkey, IInv, TypeOK, Material, File
<1> QED
  BY <1>1 DEF ReadPrivkey, SInv, SeenByCall, ReturnsRecentChain

LEMMA ReadChainSeen == IInv /\ SInv /\ ReadChain => SInv'
<1> SUFFICES ASSUME IInv, SInv, ReadChain PROVE SInv'
  OBVIOUS
<1>1. /\ result'["fullchain"] = reader.mat["fullchain"]
      /\ reader'.pc = "idle"
  BY DEF ReadChain, Return, IInv, TypeOK, Material, File
<1> QED
  BY <1>1 DEF ReadChain, SInv, SeenByCall, ReturnsRecentChain

LEMMA NextSeen == IInv /\ SInv /\ [Next]_vars => SInv'
<1>1. SInv /\ ((\E v \in Version : Begin(v)) \/ Kill \/ UNCHANGED vars) => SInv'
  BY SeenStays DEF Begin, Kill, vars
<1> QED
  BY <1>1, SwitchSeen, CallSeen, StatSeen, ReadFullchainSeen, ReadPrivkeySeen,
     ReadChainSeen DEF Next

\* The chain a call returns was on disk during that call, so a renewal that is
\* over before read_material is called is never missed (le_spoke.py:229-234).
THEOREM RecentChainReturned == Spec => []ReturnsRecentChain
<1>1. Init => SInv
  BY DEF Init, SInv, SeenByCall, ReturnsRecentChain
<1>2. SInv => ReturnsRecentChain
  BY DEF SInv
<1> QED
  BY <1>1, <1>2, SpecInv, NextSeen, PTL DEF Spec

-----------------------------------------------------------------------------
(* With certbot at rest the whole memo is what a call would read.          *)

\* Without a killed run, the files not yet switched are of the full chain's
\* version, and the others are of the version they are switched to.
SwitchInOrder ==
  /\ ~AtRest => "fullchain" \in bot.left
  /\ \A f \in File :
       live[f] = IF AtRest \/ f \in bot.left THEN live["fullchain"] ELSE bot.to

\* A content that a read under an unchanged full chain may have found.
Fits(f, content) ==
  \/ content = live["fullchain"]
  \/ content = Absent /\ f # "fullchain" /\ errors > 0
  \/ ~AtRest /\ f # "fullchain" /\ content = bot.to

\* What the reader has read and what the memo holds fits, while the full chain is
\* still the one whose time was taken.
ReadFits ==
  /\ reader.pc = "chain" /\ reader.mtime # 0 /\ reader.mtime = live["fullchain"]
       => Fits("privkey", reader.mat["privkey"])
  /\ Hit(live["fullchain"]) => \A f \in File : Fits(f, memo.mat[f])

FInv == kills = 0 => SwitchInOrder /\ ReadFits

LEMMA FitsConsistent == IInv /\ FInv => MemoConsistent
BY DEF FInv, SwitchInOrder, ReadFits, Fits, MemoConsistent, File

\* Where the full chain, the switch under way and the memo stay, so does FInv,
\* if the reader keeps or drops what it has.
LEMMA FitsStay ==
  ASSUME IInv, FInv, UNCHANGED <<live, bot, kills>>, errors <= errors',
         errors' \in Nat, UNCHANGED memo \/ memo'.mtime = 0,
         reader'.pc = "chain" => UNCHANGED reader
  PROVE  FInv'
BY DEF FInv, SwitchInOrder, ReadFits, Fits, Hit, AtRest, IInv, TypeOK

LEMMA BeginFits == ASSUME NEW v \in Version PROVE IInv /\ FInv /\ Begin(v) => FInv'
BY DEF FInv, SwitchInOrder, ReadFits, Fits, Hit, AtRest, Begin, File

LEMMA SwitchFits == IInv /\ FInv /\ Switch => FInv'
<1> SUFFICES ASSUME IInv, FInv, Switch, kills = 0 PROVE SwitchInOrder' /\ ReadFits'
  BY DEF FInv, Switch
<1>1. PICK f \in File : f = NextFile(bot.left)
  BY DEF NextFile, File
<1>2. /\ live' = [live EXCEPT ![f] = bot.to] /\ bot.left' = bot.left \ {f}
      /\ bot.to' = bot.to /\ f \in bot.left /\ "fullchain" \in bot.left
      /\ live \in [File -> Version] /\ bot.left \subseteq File
  BY <1>1 DEF Switch, IInv, TypeOK, Material, FInv, SwitchInOrder, NextFile, File
<1>3. CASE f = "fullchain"
  <2>1. bot.left = {"fullchain"}
    BY <1>1, <1>2, <1>3 DEF NextFile, File
  <2>2. AtRest' /\ \A g \in File : live'[g] = bot.to
    BY <1>2, <1>3, <2>1 DEF FInv, SwitchInOrder, AtRest, File
  <2>3. /\ reader'.mtime # 0 => reader'.mtime # live'["fullchain"]
        /\ ~Hit(live["fullchain"])'
    BY <1>2, <2>2, Bounds DEF IInv, TypeOK, Versioned, Hit, Switch, Version, Absent, File
  <2> QED
    BY <2>2, <2>3 DEF SwitchInOrder, ReadFits, File
<1>4. CASE f # "fullchain"
  <2>1. live'["fullchain"] = live["fullchain"] /\ "fullchain" \in bot'.left
    BY <1>2, <1>4 DEF File
  <2>2. SwitchInOrder'
    BY <1>2, <1>4, <2>1 DEF FInv, SwitchInOrder, AtRest
  <2>3. ReadFits'
    BY <1>2, <2>1 DEF FInv, ReadFits, Fits, Hit, AtRest, Switch
  <2> QED
    BY <2>2, <2>3
<1> QED
  BY <1>3, <1>4

\* What a read takes fits.
LEMMA TakeFits ==
  ASSUME IInv, FInv, kills = 0, NEW f \in File \ {"fullchain"}, NEW content \in Version,
         Take(f, content)
  PROVE  /\ errors \in Nat /\ errors' \in Nat /\ errors <= errors'
         /\ \/ content = live["fullchain"]
            \/ content = Absent /\ errors' > 0
            \/ ~AtRest /\ content = bot.to
<1>1. errors \in Nat
  BY Bounds DEF IInv, TypeOK
<1>2. live[f] = live["fullchain"] \/ (~AtRest /\ live[f] = bot.to)
  BY DEF FInv, SwitchInOrder
<1> QED
  BY <1>1, <1>2, Bounds DEF Take, Count

LEMMA ReadPrivkeyFits == IInv /\ FInv /\ ReadPrivkey => FInv'
<1> SUFFICES ASSUME IInv, FInv, ReadPrivkey, kills = 0
             PROVE  SwitchInOrder' /\ ReadFits'
  BY DEF FInv, ReadPrivkey
<1>1. PICK content \in Version :
        /\ Take("privkey", content)
        /\ reader' = [reader EXCEPT !.pc = "chain", !.mat["privkey"] = content]
  BY DEF ReadPrivkey
<1>2. /\ errors \in Nat /\ errors' \in Nat /\ errors <= errors'
      /\ \/ content = live["fullchain"]
         \/ content = Absent /\ errors' > 0
         \/ ~AtRest /\ content = bot.to
  BY <1>1, TakeFits DEF File
<1>3. reader'.mat["privkey"] = content
  BY <1>1 DEF IInv, TypeOK, Material, File
<1>4. UNCHANGED <<live, bot, memo, kills>>
  BY DEF ReadPrivkey
<1> QED
  BY <1>2, <1>3, <1>4 DEF FInv, SwitchInOrder, ReadFits, Fits, Hit, AtRest

LEMMA ReadChainFits == IInv /\ FInv /\ ReadChain => FInv'
<1> SUFFICES ASSUME IInv, FInv, ReadChain, kills = 0
             PROVE  SwitchInOrder' /\ ReadFits'
  BY DEF FInv, ReadChain
<1>1. PICK content \in Version :
        /\ Take("chain", content)
        /\ Memoise([reader.mat EXCEPT !["chain"] = content])
        /\ reader'.pc = "idle"
  BY DEF ReadChain, Return
<1> DEFINE mat == [reader.mat EXCEPT !["chain"] = content]
<1>2. /\ errors \in Nat /\ errors' \in Nat /\ errors <= errors'
      /\ \/ content = live["fullchain"]
         \/ content = Absent /\ errors' > 0
         \/ ~AtRest /\ content = bot.to
  BY <1>1, TakeFits DEF File
<1>3. /\ mat["chain"] = content /\ mat["privkey"] = reader.mat["privkey"]
      /\ mat["fullchain"] = reader.mat["fullchain"]
  BY DEF IInv, TypeOK, Material, File
<1>4. UNCHANGED <<live, bot, kills>> /\ reader.pc = "chain"
  BY DEF ReadChain
<1>5. SwitchInOrder'
  BY <1>4 DEF FInv, SwitchInOrder, AtRest
<1>6. CASE reader.mtime = 0
  BY <1>1, <1>2, <1>4, <1>5, <1>6 DEF Memoise, FInv, ReadFits, Fits, Hit, AtRest
<1>7. CASE reader.mtime # 0
  <2>1. memo' = [mtime |-> reader.mtime, mat |-> mat]
    BY <1>1, <1>7 DEF Memoise
  <2>2. CASE reader.mtime = live["fullchain"]
    <3>1. Fits("privkey", memo.mat["privkey"])'
      BY <2>1, <1>2, <1>3, <1>4, <1>7, <2>2 DEF FInv, ReadFits, Fits, AtRest
    <3>2. Fits("chain", memo.mat["chain"])'
      BY <2>1, <1>2, <1>3, <1>4 DEF Fits, AtRest
    <3>3. Fits("fullchain", memo.mat["fullchain"])'
      BY <2>1, <1>3, <1>4, <1>7, <2>2 DEF IInv, ReaderCurrent, Fits
    <3> QED
      BY <1>1, <1>5, <2>1, <3>1, <3>2, <3>3 DEF ReadFits, File
  <2>3. CASE reader.mtime # live["fullchain"]
    BY <1>1, <1>4, <1>5, <2>1, <2>3 DEF ReadFits, Hit
  <2> QED
    BY <2>2, <2>3
<1> QED
  BY <1>6, <1>7

LEMMA NextFits == IInv /\ FInv /\ [Next]_vars => FInv'
<1> SUFFICES ASSUME IInv, FInv, [Next]_vars PROVE FInv'
  OBVIOUS
<1>0. errors \in Nat /\ kills \in Nat
  BY Bounds DEF IInv, TypeOK
<1>1. ASSUME Kill PROVE FInv'
  BY <1>0, <1>1 DEF Kill, FInv
<1>2. ASSUME Call PROVE FInv'
  BY <1>0, <1>2, FitsStay DEF Call, Return, NoMemo, IInv, TypeOK
<1>3. ASSUME Stat PROVE FInv'
  <2>1. reader'.pc \in {"idle", "fullchain"}
    <3>1. CASE Hit(live["fullchain"])
      BY <1>3, <3>1 DEF Stat, Return
    <3>2. CASE ~Hit(live["fullchain"])
      BY <1>3, <3>2 DEF Stat, IInv, TypeOK
    <3> QED
      BY <3>1, <3>2
  <2> QED
    BY <1>0, <1>3, <2>1, FitsStay DEF Stat
<1>4. ASSUME ReadFullchain PROVE FInv'
  <2>1. reader'.pc \in {"idle", "privkey"}
    <3>1. CASE Return(NoMaterial)
      BY <3>1 DEF Return
    <3>2. CASE reader' = [reader EXCEPT !.pc = "privkey",
                                        !.mat["fullchain"] = live["fullchain"]]
      BY <3>2 DEF IInv, TypeOK
    <3> QED
      BY <1>4, <3>1, <3>2 DEF ReadFullchain
  <2>2. errors' \in {errors, errors + 1}
    BY <1>4 DEF ReadFullchain, Count
  <2> QED
    BY <1>0, <1>4, <2>1, <2>2, FitsStay DEF ReadFullchain
<1>5. ASSUME UNCHANGED vars PROVE FInv'
  BY <1>0, <1>5, FitsStay DEF vars
<1> QED
  BY <1>1, <1>2, <1>3, <1>4, <1>5, BeginFits, SwitchFits, ReadPrivkeyFits,
     ReadChainFits DEF Next

\* The time of one file stands for all three: with certbot at rest a memo that
\* would be used is what a call would read, files whose read failed apart
\* (acme.py:639-641).
THEOREM MemoIsConsistent == Spec => []MemoConsistent
<1>1. Init => FInv
  BY DEF Init, FInv, SwitchInOrder, ReadFits, Hit, AtRest, Resting, NoMaterial, NoMemo,
     File
<1> QED
  BY <1>1, SpecInv, NextFits, FitsConsistent, PTL DEF Spec
=============================================================================
