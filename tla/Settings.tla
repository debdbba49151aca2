------------------------------- MODULE Settings -------------------------------
(***************************************************************************)
(* The settings a node keeps in dotfiles next to its blocks (p2p.rs): each *)
(* is in memory and in a file that Node::build reads.  std::fs::write cuts *)
(* the file to nothing and then fills it; a file left unfilled reads as    *)
(* the default.                                                            *)
(*                                                                         *)
(* Locked settings are changed and written under one lock (feed_seq and    *)
(* the seed index, of other modules, too).  Of the others, quota is        *)
(* written once its lock is let go, the flags have no lock, and profile is *)
(* written first and kept in memory next.                                  *)
(***************************************************************************)
EXTENDS Naturals, FiniteSets

CONSTANTS
    Caller,
    Item,           \* channels, addresses and editors, in the order of a BTreeSet
    Compulsory,     \* the editor of the project, which Node::build puts back
    Value, Default, \* of quota, flags and profile
    MaxBoots,       \* MAX_BOOTSTRAPS (64), of which none is compiled in
    MaxChanges      \* bound on the calls

Locked == {"subs", "blocked", "boots", "editors"}
Flag == {"cold", "mdns", "watched"}
Loose == {"quota", "profile"} \cup Flag
Setting == Locked \cup Loose

ASSUME SettingsAssumption ==
    /\ Item \subseteq Nat /\ Compulsory \subseteq Item /\ Default \in Value
    /\ MaxBoots \in Nat \ {0} /\ MaxChanges \in Nat

VARIABLES
    memory,         \* what the node goes by
    file,           \* what is on disk
    whole,          \* the files that can be read
    lock,           \* of each locked setting: who holds it
    change,         \* the call of each caller
    told,           \* what calls whose write has ended may count on (history)
    changes

settingsVars == <<memory, file, whole, lock, change, told, changes>>

Content == {m \in [Setting -> Value \cup SUBSET Item] :
               \A s \in Setting : m[s] \in IF s \in Loose THEN Value ELSE SUBSET Item}

\* What is read where a file is missing, or cannot be read.
Initially == [s \in Setting |-> IF s \in Loose THEN Default ELSE {}]

\* That a setting is x (has x), or does not have it.
Promise == [setting: Setting, of: Item \cup Value, has: BOOLEAN]

NoChange == [pc |-> "idle", op |-> "set", setting |-> "quota", of |-> Default,
             next |-> Default, alone |-> TRUE]

SettingsTypeOK ==
    /\ memory \in Content /\ file \in Content /\ whole \subseteq Setting
    /\ lock \in [Locked -> SUBSET Caller]
    /\ change \in [Caller -> [
            pc: {"idle", "check", "change", "cut", "fill", "keep"},
            op: {"add", "remove", "block", "drop", "set"}, setting: Setting,
            of: Item \cup Value, next: Value \cup SUBSET Item, alone: BOOLEAN]]
    /\ told \subseteq Promise
    /\ changes \in 0 .. MaxChanges

SettingsInit ==
    /\ memory = [Initially EXCEPT !["editors"] = Compulsory]
    /\ file = Initially /\ whole = Setting
    /\ lock = [s \in Locked |-> {}]
    /\ change = [c \in Caller |-> NoChange]
    /\ told = {}
    /\ changes = 0

-----------------------------------------------------------------------------

Counted == changes < MaxChanges /\ changes' = changes + 1
At(c, pc) == change[c].pc = pc
SettingOf(c) == change[c].setting
ToldOfOthers(s) == {p \in told : p.setting # s}
ToldBut(s, x) == {p \in told : p.setting # s \/ p.of # x}

\* A call on s begins.  It and the others on s are not alone from now on.
ChangeCall(c, op, s, x, pc) ==
    /\ Counted /\ At(c, "idle")
    /\ LET others == {d \in Caller : ~At(d, "idle") /\ SettingOf(d) = s}
       IN  change' = [d \in Caller |->
              IF d = c THEN [NoChange EXCEPT !.pc = pc, !.op = op, !.setting = s, !.of = x,
                                             !.alone = others = {}]
              ELSE [change[d] EXCEPT !.alone = @ /\ d \notin others]]
    /\ told' = IF s \in Loose THEN ToldOfOthers(s) ELSE told
    /\ UNCHANGED <<memory, file, whole, lock>>

Subscribe(c, i) == ChangeCall(c, "add", "subs", i, "check")
Unsubscribe(c, i) == ChangeCall(c, "remove", "subs", i, "change")
BlockChannel(c, i) == ChangeCall(c, "block", "blocked", i, "change")
UnblockChannel(c, i) == ChangeCall(c, "remove", "blocked", i, "change")
AddBootstrap(c, i) == ChangeCall(c, "add", "boots", i, "check")
FollowEditor(c, i) == ChangeCall(c, "add", "editors", i, "change")
UnfollowEditor(c, i) == i \notin Compulsory /\ ChangeCall(c, "remove", "editors", i, "change")
SetSeedQuota(c, v) == ChangeCall(c, "set", "quota", v, "change")
SetChannelProfile(c, v) == ChangeCall(c, "set", "profile", v, "cut")
SetColdRetrieval(c, v) == ChangeCall(c, "set", "cold", v, "change")
SetMdns(c, v) == ChangeCall(c, "set", "mdns", v, "change")
SetSeedWatched(c, v) == ChangeCall(c, "set", "watched", v, "change")

CallOn(c) ==
    \/ \E i \in Item : \/ Subscribe(c, i) \/ Unsubscribe(c, i)
                       \/ BlockChannel(c, i) \/ UnblockChannel(c, i)
                       \/ AddBootstrap(c, i) \/ FollowEditor(c, i) \/ UnfollowEditor(c, i)
    \/ \E v \in Value : \/ SetSeedQuota(c, v) \/ SetChannelProfile(c, v)
                        \/ SetColdRetrieval(c, v) \/ SetMdns(c, v) \/ SetSeedWatched(c, v)

\* subscribe refuses a blocked channel, add_bootstrap a new address when the set is full:
\* both look before they take the lock.
Refused(s, x) ==
    \/ s = "subs" /\ x \in memory.blocked
    \/ s = "boots" /\ x \notin memory.boots /\ Cardinality(memory.boots) >= MaxBoots

LookFirst(c) ==
    /\ At(c, "check")
    /\ change' = [change EXCEPT ![c] = IF Refused(@.setting, @.of) THEN NoChange
                                       ELSE [@ EXCEPT !.pc = "change"]]
    /\ UNCHANGED <<memory, file, whole, lock, told, changes>>

Changed(c) ==
    LET s == SettingOf(c)  x == change[c].of
    IN  CASE change[c].op \in {"add", "block"}   -> memory[s] \cup {x}
          [] change[c].op \in {"remove", "drop"} -> memory[s] \ {x}
          [] OTHER                               -> x

\* Mutant of Change: the lock is let go before the file is written.
ChangeUnlocked(c) ==
    /\ At(c, "change")
    /\ memory' = [memory EXCEPT ![SettingOf(c)] = Changed(c)]
    /\ change' = [change EXCEPT ![c].pc = "cut", ![c].next = Changed(c)]
    /\ told' = ToldBut(SettingOf(c), change[c].of)
    /\ UNCHANGED <<file, whole, lock, changes>>

\* The memory changes under the lock, which is kept if the setting is locked.  What is to
\* be written is what the memory holds now.  A set of addresses that two calls filled
\* beyond its bound will be cut when it is loaded: nothing is promised of it.
Change(c) ==
    /\ At(c, "change")
    /\ LET s == SettingOf(c)
       IN  /\ s \in Locked => lock[s] = {}
           /\ change[c].op = "drop" => change[c].of \in memory.subs
           /\ lock' = [l \in Locked |-> IF l = s THEN {c} ELSE lock[l]]
           /\ memory' = [memory EXCEPT ![s] = Changed(c)]
           /\ change' = [change EXCEPT ![c].pc = "cut", ![c].next = Changed(c)]
           /\ told' = IF s = "boots" /\ Cardinality(Changed(c)) > MaxBoots
                      THEN ToldOfOthers(s) ELSE ToldBut(s, change[c].of)
    /\ UNCHANGED <<file, whole, changes>>

\* std::fs::write opens the file, which cuts it ...
Cut(c) ==
    /\ At(c, "cut")
    /\ whole' = whole \ {SettingOf(c)}
    /\ change' = [change EXCEPT ![c].pc = "fill",
                                ![c].next = IF SettingOf(c) = "profile" THEN change[c].of ELSE @]
    /\ UNCHANGED <<memory, file, lock, told, changes>>

Unlocked(c) == [s \in Locked |-> lock[s] \ {c}]

\* The block is kept; now the subscription goes, if there is one.
BlockGoesOn(c) ==
    change' = [change EXCEPT ![c].op = "drop", ![c].setting = "subs", ![c].pc = "change"]

NothingToDrop(c) ==
    /\ At(c, "change") /\ change[c].op = "drop"
    /\ lock["subs"] = {} /\ change[c].of \notin memory.subs
    /\ change' = [change EXCEPT ![c] = NoChange]
    /\ UNCHANGED <<memory, file, whole, lock, told, changes>>

\* ... and fills it.  Writes of one file by calls that overlap may mix.
Fill(c) ==
    LET s == SettingOf(c)  mine == change[c].next
    IN  /\ At(c, "fill")
        /\ \E v \in IF s \in Loose /\ ~change[c].alone THEN Value ELSE {mine} :
              file' = [file EXCEPT ![s] = v]
        /\ whole' = whole \cup {s}
        /\ lock' = Unlocked(c)
        /\ told' = IF (s \in Locked \/ change[c].alone) /\ s # "profile"
                      /\ (s = "boots" => Cardinality(mine) <= MaxBoots)
                   THEN told \cup {[setting |-> s, of |-> change[c].of, has |-> change[c].op \notin {"remove", "drop"}]}
                   ELSE told
        /\ CASE change[c].op = "block" -> BlockGoesOn(c)
             [] s = "profile"          -> change' = [change EXCEPT ![c].pc = "keep"]
             [] OTHER                  -> change' = [change EXCEPT ![c] = NoChange]
        /\ UNCHANGED <<memory, changes>>

\* The file cannot be opened, or not be filled: the call fails, the memory stays changed.
WriteFailed(c) ==
    /\ change[c].pc \in {"cut", "fill"}
    /\ lock' = Unlocked(c)
    /\ change' = [change EXCEPT ![c] = NoChange]
    /\ UNCHANGED <<memory, file, whole, told, changes>>

\* set_channel_profile
Keep(c) ==
    /\ At(c, "keep")
    /\ memory' = [memory EXCEPT !["profile"] = change[c].of]
    /\ change' = [change EXCEPT ![c] = NoChange]
    /\ told' = IF change[c].alone
               THEN told \cup {[setting |-> "profile", of |-> change[c].of, has |-> TRUE]}
               ELSE told
    /\ UNCHANGED <<file, whole, lock, changes>>

\* load_*: no editor of the project is missing, and no address beyond the bound.
Read(s) == IF s \in whole THEN file[s] ELSE Initially[s]
LoadBootstraps == {i \in Read("boots") : Cardinality({j \in Read("boots") : j < i}) < MaxBoots}
LoadEditors == Read("editors") \cup Compulsory

Loaded(s) == CASE s = "boots"   -> LoadBootstraps
               [] s = "editors" -> LoadEditors
               [] OTHER         -> Read(s)

\* A stop at any point, then Node::build.  What was told of a file cut short is void.
Rebuild ==
    /\ memory' = [s \in Setting |-> Loaded(s)]
    /\ lock' = [s \in Locked |-> {}]
    /\ change' = [c \in Caller |-> NoChange]
    /\ told' = {p \in told : p.setting \in whole}
    /\ UNCHANGED <<file, whole, changes>>

SettingsNext ==
    \/ \E c \in Caller : \/ CallOn(c) \/ LookFirst(c) \/ Change(c) \/ Cut(c) \/ Fill(c)
                         \/ NothingToDrop(c) \/ WriteFailed(c) \/ Keep(c)
    \/ Rebuild

SettingsSpec == SettingsInit /\ [][SettingsNext]_settingsVars

-----------------------------------------------------------------------------
(* Properties *)

\* What publish_feed_with says of its lock (two calls may not reorder what is written) is
\* true of every locked setting, and of a loose one whose call was alone: once its write
\* has ended, a change is in force until it is changed again, whatever calls ran at the
\* same time, failed or followed, and after any number of restarts, unless a stop or a
\* failure cut a write of the file short.
ChangesLast ==
    \A p \in told :
        LET now == memory[p.setting]
        IN  IF p.setting \in Loose THEN now = p.of ELSE p.has <=> p.of \in now
===============================================================================
