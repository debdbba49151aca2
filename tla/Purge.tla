-------------------------------- MODULE Purge --------------------------------
(***************************************************************************)
(* What takes content away from a node: unsubscribing (unsubscribe), local *)
(* blocking (block_channel) and denylists (subscribe_denylist or           *)
(* fetch_denylist, then purge_after_denylist_inner), p2p.rs.  Each call is *)
(* a task of its own; several may run at once.                             *)
(*                                                                         *)
(* Also the operations of the user and the events of the network that take *)
(* one step.  How a denylist is verified, versioned and cached is left to  *)
(* another module: here a list comes into force and may be lifted.         *)
(***************************************************************************)
EXTENDS NodeState

PurgerGoto(u, pc) == purger' = [purger EXCEPT ![u].pc = pc]

-----------------------------------------------------------------------------
(* Operations of one step *)

\* subscribe: the checks come first, the set is locked afterwards.
SubscribeCheck(i) ==
    /\ Occurs("subscribe")
    /\ ~KeyBlocked(i) /\ i \notin subs
    /\ joining' = joining \cup {i}
    /\ UNCHANGED <<subs, hearing, blocked, lists, catalog, quota, seedVars, loopVars, taskVars>>

SubscribeRecord(i) ==
    /\ i \in joining
    /\ subs' = subs \cup {i}
    /\ joining' = joining \ {i}
    /\ UNCHANGED <<hearing, blocked, lists, catalog, quota, ops, seedVars, loopVars, taskVars>>

\* Mutant of FeedChecked: the bans are not looked at.
FeedUnchecked(i, f) ==
    /\ Occurs("feed")
    /\ f # catalog[i]
    /\ hearing' = hearing \cup {<<i, f>>}
    /\ UNCHANGED <<subs, joining, blocked, lists, catalog, quota, seedVars, loopVars, taskVars>>

\* A feed, by gossip or from the DHT (handle_feed_message, fetch_feed_inner): the bans
\* are read under locks of their own ...
FeedChecked(i, f) ==
    /\ Occurs("feed")
    /\ ~KeyBlocked(i) /\ f # catalog[i]
    /\ hearing' = hearing \cup {<<i, f>>}
    /\ UNCHANGED <<subs, joining, blocked, lists, catalog, quota, seedVars, loopVars, taskVars>>

\* ... then the catalog takes it, whatever was blocked or purged meanwhile, ...
FeedApplied(i, f) ==
    /\ <<i, f>> \in hearing
    /\ hearing' = hearing \ {<<i, f>>}
    /\ catalog' = [catalog EXCEPT ![i] = f]
    /\ wake' = TRUE
    /\ UNCHANGED <<subs, joining, blocked, lists, quota, ops, seedVars, quotaBlocked, seedNow,
                   taskVars>>

\* ... or does not: another feed proved newer, or it is full, for an issuer that was
\* no subscription (Catalog has both conditions).
FeedDropped(i, f) ==
    /\ <<i, f>> \in hearing
    /\ hearing' = hearing \ {<<i, f>>}
    /\ UNCHANGED <<subs, joining, blocked, lists, catalog, quota, ops, seedVars, loopVars, taskVars>>

FeedStep(i) == \E f \in Feeds[i] : FeedApplied(i, f) \/ FeedDropped(i, f)

SetQuota(q) ==
    /\ Occurs("quota")
    /\ q # quota /\ quota' = q
    /\ wake' = TRUE
    /\ UNCHANGED <<subs, joining, hearing, blocked, lists, catalog, seedVars, quotaBlocked, seedNow, taskVars>>

\* A pin holds whether the manifest is in the index or not; neither wakes the loop.
Pin(m) ==
    /\ Occurs("pin")
    /\ m \notin pins /\ pins' = pins \cup {m}
    /\ UNCHANGED <<subs, joining, hearing, blocked, lists, catalog, quota, index, store, provided,
                   loopVars, taskVars>>

Unpin(m) ==
    /\ Occurs("unpin")
    /\ m \in pins /\ pins' = pins \ {m}
    /\ UNCHANGED <<subs, joining, hearing, blocked, lists, catalog, quota, index, store, provided,
                   loopVars, taskVars>>

Unblock(i) ==
    /\ Occurs("unblock")
    /\ i \in blocked /\ blocked' = blocked \ {i}
    /\ UNCHANGED <<subs, joining, hearing, lists, catalog, quota, seedVars, loopVars, taskVars>>

\* unsubscribe_denylist_issuer: the list goes, what it purged does not return.
LiftList(l) ==
    /\ Occurs("lift")
    /\ l \in lists /\ lists' = lists \ {l}
    /\ UNCHANGED <<subs, joining, hearing, blocked, catalog, quota, seedVars, loopVars, taskVars>>

-----------------------------------------------------------------------------
(* Calls of several steps: how they begin *)

Unsubscribe(u, i) ==
    /\ Occurs("unsubscribe")
    /\ purger[u].pc = "idle"
    /\ subs' = subs \ {i}
    /\ purger' = [purger EXCEPT ![u] = [PurgerIdle EXCEPT !.pc = "index", !.kind = "unsubscribe",
                                                          !.issuer = i]]
    /\ UNCHANGED <<joining, hearing, blocked, lists, catalog, quota, seedVars, loopVars, seeder, viewer>>

BlockChannel(u, i) ==
    /\ Occurs("block")
    /\ purger[u].pc = "idle"
    /\ blocked' = blocked \cup {i}
    /\ purger' = [purger EXCEPT ![u] = [PurgerIdle EXCEPT !.pc = "subs", !.kind = "block",
                                                          !.issuer = i]]
    /\ UNCHANGED <<subs, joining, hearing, lists, catalog, quota, seedVars, loopVars, seeder, viewer>>

\* block_channel unsubscribes, then notes what the catalog attributes to i.
BlockSubs(u) ==
    /\ purger[u].pc = "subs"
    /\ subs' = subs \ {purger[u].issuer}
    /\ purger' = [purger EXCEPT ![u].pc = "next",
                                ![u].entries = {[issuer |-> purger[u].issuer,
                                                 cids |-> catalog[purger[u].issuer]]}]
    /\ UNCHANGED <<joining, hearing, blocked, lists, catalog, quota, ops, seedVars, loopVars, seeder, viewer>>

ApplyList(u, l) ==
    /\ Occurs("denylist")
    /\ purger[u].pc = "idle"
    /\ l \notin lists /\ lists' = lists \cup {l}
    /\ purger' = [purger EXCEPT ![u] = [PurgerIdle EXCEPT !.pc = "select", !.kind = "denylist"]]
    /\ UNCHANGED <<subs, joining, hearing, blocked, catalog, quota, seedVars, loopVars, seeder, viewer>>

\* blocked_entries of purge_after_denylist_inner.
SelectBlocked(u) ==
    /\ purger[u].pc = "select"
    /\ LET banned == {i \in Issuer : catalog[i] # {} /\ KeyBlocked(i)}
       IN  purger' = [purger EXCEPT ![u].pc = IF banned = {} THEN "cids" ELSE "next",
                          ![u].entries = {[issuer |-> i, cids |-> catalog[i]] : i \in banned}]
    /\ UNCHANGED <<userVars, seedVars, loopVars, seeder, viewer>>

-----------------------------------------------------------------------------
(* purge_blocked_issuer_inner, for each entry in turn; unsubscribe joins at "index" *)

PurgeCatalog(u) ==
    /\ purger[u].pc = "next"
    /\ \E e \in purger[u].entries :
          /\ catalog' = [catalog EXCEPT ![e.issuer] = {}]
          /\ purger' = [purger EXCEPT ![u].pc = "index", ![u].issuer = e.issuer,
                                      ![u].cids = e.cids, ![u].entries = @ \ {e}]
    /\ UNCHANGED <<subs, joining, hearing, blocked, lists, quota, ops, seedVars, loopVars, seeder, viewer>>

\* Mutant: unsubscribing overrides pins as well.
KeepPinnedNever(kind) == FALSE

\* Moderation overrides pins, unsubscribing does not.
KeepPinned(kind) == kind = "unsubscribe"

\* An unsubscribe with nothing to purge is over, but wakes the loop all the same.
PurgeIndex(u) ==
    /\ purger[u].pc = "index"
    /\ LET gone == Purged(index, pins, purger[u].issuer, KeepPinned(purger[u].kind))
           blocks == (UNION {BlockSet(p.manifest) : p \in gone}) \cup purger[u].cids
       IN  /\ index' = Remove(index, gone)
           /\ IF purger[u].kind = "unsubscribe" /\ gone = {}
              THEN wake' = TRUE /\ purger' = [purger EXCEPT ![u] = PurgerIdle]
              ELSE /\ purger' = [purger EXCEPT ![u].sweep = blocks, ![u].cids = {},
                          ![u].pc = IF purger[u].kind = "unsubscribe" THEN "sweep" ELSE "remaining"]
                   /\ UNCHANGED wake
    /\ UNCHANGED <<userVars, pins, store, provided, quotaBlocked, seedNow, seeder, viewer>>

\* What another publication lists stays announced.
ReadRemaining(u) ==
    /\ purger[u].pc = "remaining"
    /\ purger' = [purger EXCEPT ![u].pc = "stop", ![u].keep = AllCids(index)]
    /\ UNCHANGED <<userVars, seedVars, loopVars, seeder, viewer>>

\* stop_providing_inner for each of the others.
StopProviding(u) ==
    /\ purger[u].pc = "stop"
    /\ provided' = provided \ (purger[u].sweep \ purger[u].keep)
    /\ PurgerGoto(u, "sweep")
    /\ UNCHANGED <<userVars, index, pins, store, loopVars, seeder, viewer>>

\* remove_unshared_blocks, which reads the index once more.
PurgerSnapshot(u) ==
    /\ purger[u].pc = "sweep"
    /\ purger' = [purger EXCEPT ![u].pc = "delete", ![u].keep = AllCids(index)]
    /\ UNCHANGED <<userVars, seedVars, loopVars, seeder, viewer>>

PurgerDelete(u) ==
    /\ purger[u].pc = "delete"
    /\ store' = store \ (purger[u].sweep \ purger[u].keep)
    /\ IF purger[u].kind = "unsubscribe"
       THEN wake' = TRUE /\ purger' = [purger EXCEPT ![u] = PurgerIdle]
       ELSE /\ purger' = [purger EXCEPT ![u].pc = "next", ![u].sweep = {}, ![u].keep = {}]
            /\ UNCHANGED wake
    /\ UNCHANGED <<userVars, index, pins, provided, quotaBlocked, seedNow, seeder, viewer>>

\* No entry is left: a tic of the catalog, and a denylist goes on with its CIDs.
PurgedEntries(u) ==
    /\ purger[u].pc = "next" /\ purger[u].entries = {}
    /\ wake' = TRUE
    /\ purger' = [purger EXCEPT ![u] =
                     IF purger[u].kind = "block" THEN PurgerIdle
                     ELSE [PurgerIdle EXCEPT !.pc = "cids", !.kind = "denylist"]]
    /\ UNCHANGED <<userVars, seedVars, quotaBlocked, seedNow, seeder, viewer>>

\* The blocks that are listed themselves leave the store, whatever the index says.
PurgeCids(u) ==
    /\ purger[u].pc = "cids"
    /\ store' = store \ BannedCids
    /\ purger' = [purger EXCEPT ![u].pc = "withdraw", ![u].sweep = store \cap BannedCids]
    /\ UNCHANGED <<userVars, index, pins, provided, loopVars, seeder, viewer>>

WithdrawCids(u) ==
    /\ purger[u].pc = "withdraw"
    /\ provided' = provided \ purger[u].sweep
    /\ purger' = [purger EXCEPT ![u] = PurgerIdle]
    /\ UNCHANGED <<userVars, index, pins, store, loopVars, seeder, viewer>>

PurgerStep(u) ==
    \/ BlockSubs(u) \/ SelectBlocked(u) \/ PurgeCatalog(u) \/ PurgeIndex(u)
    \/ ReadRemaining(u) \/ StopProviding(u) \/ PurgerSnapshot(u) \/ PurgerDelete(u)
    \/ PurgedEntries(u) \/ PurgeCids(u) \/ WithdrawCids(u)

UserStep ==
    \/ \E i \in Issuer : SubscribeCheck(i) \/ Unblock(i) \/ \E f \in Feeds[i] : FeedChecked(i, f)
    \/ \E q \in Quotas : SetQuota(q)
    \/ \E m \in Manifest : Pin(m) \/ Unpin(m)
    \/ \E l \in Lists : LiftList(l)
    \/ \E u \in Purger :
          \/ \E i \in Issuer : Unsubscribe(u, i) \/ BlockChannel(u, i)
          \/ \E l \in Lists : ApplyList(u, l)
=============================================================================
