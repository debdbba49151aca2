------------------------------- MODULE SeedLoop -------------------------------
(***************************************************************************)
(* The proactive seed loop (seed_loop, seed_pass, seed_channel,            *)
(* seed_publication, make_room_for and what they call, p2p.rs): one task   *)
(* that brings the publications of the subscribed channels, and those that *)
(* a playback names, into the index, under the quota.                      *)
(*                                                                         *)
(* A pass visits the issuers and the entries of a feed in any order: the   *)
(* round robin starts at another issuer each time, and the order of a feed *)
(* is its author's.                                                        *)
(***************************************************************************)
EXTENDS NodeState

\* fetched_cids, the blocks this attempt has got so far; fetched_bytes is their weight.
Fetched ==
    IF seeder.cid = NoCid THEN {}
    ELSE {Blocks(seeder.cid)[k] : k \in {k \in DOMAIN Blocks(seeder.cid) : k <= seeder.done}}

\* The block that the attempt needs next.
Needed == Blocks(seeder.cid)[seeder.done + 1]

\* get_providers counts this node as well, once it has announced c.
Measured(c, others) == others + (IF c \in provided THEN 1 ELSE 0)

Goto(pc) == seeder' = [seeder EXCEPT !.pc = pc]

\* remove_unshared_blocks, to be run on cids; then the task goes on at tail.
SweepThen(cids, tail) ==
    seeder' = [seeder EXCEPT !.pc = "sweep", !.sweep = cids, !.tail = tail]

\* remove_unindexed_fetch, a no-op as long as the manifest itself is missing.
Abandon == IF seeder.done = 0 THEN Goto("end") ELSE SweepThen(Fetched, "end")

-----------------------------------------------------------------------------
(* seed_pass and seed_channel *)

StartPass ==
    /\ seeder.pc = "start"
    /\ seeder' = [seeder EXCEPT !.pc = "pass", !.issuers = subs]
    /\ UNCHANGED <<userVars, seedVars, loopVars, viewer, purger>>

VisitIssuer ==
    /\ seeder.pc = "pass"
    /\ \E i \in seeder.issuers :
          seeder' = [seeder EXCEPT !.pc = "channel", !.issuer = i, !.cids = catalog[i],
                                   !.issuers = @ \ {i}]
    /\ UNCHANGED <<userVars, seedVars, loopVars, viewer, purger>>

EndPass ==
    /\ seeder.pc = "pass" /\ seeder.issuers = {}
    /\ seeder' = SeederIdle
    /\ UNCHANGED <<userVars, seedVars, loopVars, viewer, purger>>

\* Already retained, or already refused under the current quota.
SkipListed ==
    /\ seeder.pc = "channel"
    /\ \E c \in seeder.cids :
          /\ ContainsManifest(index, c) \/ c \in quotaBlocked
          /\ seeder' = [seeder EXCEPT !.cids = @ \ {c}]
    /\ UNCHANGED <<userVars, seedVars, loopVars, viewer, purger>>

\* seed_publication begins by measuring the replication of its candidate.
TryListed ==
    /\ seeder.pc = "channel"
    /\ \E c \in seeder.cids : \E r \in Repl[c] :
          /\ ~ContainsManifest(index, c) /\ c \notin quotaBlocked
          /\ seeder' = [seeder EXCEPT !.pc = "room", !.cid = c, !.cids = @ \ {c},
                                   !.cand = Measured(c, r)]
    /\ UNCHANGED <<userVars, seedVars, loopVars, viewer, purger>>

EndChannel ==
    /\ seeder.pc = "channel" /\ seeder.cids = {}
    /\ seeder' = [seeder EXCEPT !.pc = "pass", !.issuer = NoIssuer]
    /\ UNCHANGED <<userVars, seedVars, loopVars, viewer, purger>>

-----------------------------------------------------------------------------
(* make_room_for *)

\* The subscriptions and the quota are read once per call, the index in each round.
EnterRoom ==
    /\ seeder.pc = "room"
    /\ seeder' = [seeder EXCEPT !.pc = "loop", !.subs = subs, !.quota = quota]
    /\ UNCHANGED <<userVars, seedVars, loopVars, viewer, purger>>

\* Mutant: does not count what this attempt has fetched.
FitsBeforeFetch == TotalBytes(index) < seeder.quota

Fits == TotalBytes(index) + Weight(Fetched) < seeder.quota

RoomFound ==
    /\ seeder.pc = "loop" /\ Fits
    /\ Goto("ask")
    /\ UNCHANGED <<userVars, seedVars, loopVars, viewer, purger>>

\* The count of providers of every candidate is awaited.
MeasureCandidates ==
    /\ seeder.pc = "loop" /\ ~Fits
    /\ Evictable(index, pins) # {}
    /\ seeder' = [seeder EXCEPT !.pc = "victim",
                                !.measured = {p.manifest : p \in Evictable(index, pins)}]
    /\ UNCHANGED <<userVars, seedVars, loopVars, viewer, purger>>

\* skip_for_quota
Refuse ==
    /\ quotaBlocked' = quotaBlocked \cup (IF seeder.watched THEN {} ELSE {seeder.cid})
    /\ Abandon
    /\ UNCHANGED <<userVars, seedVars, wake, seedNow, viewer, purger>>

\* A victim must be better replicated than the candidate, strictly (the dampening).
Yields(victimReplication, candidateReplication) == victimReplication > candidateReplication

Measurements ==
    {[m \in seeder.measured |-> Measured(m, others[m])] :
        others \in {o \in [seeder.measured -> UNION {Repl[m] : m \in seeder.measured}] :
                       \A m \in seeder.measured : o[m] \in Repl[m]}}

NoCandidate ==
    /\ \/ seeder.pc = "loop" /\ ~Fits
       \/ seeder.pc = "victim"
    /\ Evictable(index, pins) = {}
    /\ Refuse

PickVictim ==
    /\ seeder.pc = "victim"
    /\ Evictable(index, pins) # {}
    /\ \E repl \in Measurements, p \in index :
          /\ FirstEvicted(p, index, pins, repl, seeder.subs)
          /\ IF Yields(Replication(repl, p.manifest), seeder.cand)
             THEN /\ seeder' = [seeder EXCEPT !.pc = "evict", !.victim = p.manifest,
                                              !.measured = {}]
                  /\ UNCHANGED <<userVars, seedVars, loopVars, viewer, purger>>
             ELSE Refuse

\* Mutant: an eviction withdraws the announcement too.
EvictAndWithdraw ==
    /\ seeder.pc = "evict"
    /\ \/ /\ ~ContainsManifest(index, seeder.victim)
          /\ Goto("loop")
          /\ UNCHANGED <<index, provided>>
       \/ \E p \in EntriesOf(index, seeder.victim) :
             /\ index' = Remove(index, {p})
             /\ provided' = provided \ {p.manifest}
             /\ SweepThen(BlockSet(p.manifest), "loop")
    /\ UNCHANGED <<userVars, pins, store, loopVars, viewer, purger>>

\* evict_publication; somebody else may have removed the victim meanwhile.
Evict ==
    /\ seeder.pc = "evict"
    /\ \/ /\ ~ContainsManifest(index, seeder.victim)
          /\ Goto("loop")
          /\ UNCHANGED index
       \/ \E p \in EntriesOf(index, seeder.victim) :
             /\ index' = Remove(index, {p})
             /\ SweepThen(BlockSet(p.manifest), "loop")
    /\ UNCHANGED <<userVars, pins, store, provided, loopVars, viewer, purger>>

\* remove_unshared_blocks: a snapshot of what the index still lists ...
Snapshot ==
    /\ seeder.pc = "sweep"
    /\ seeder' = [seeder EXCEPT !.pc = "delete", !.keep = AllCids(index)]
    /\ UNCHANGED <<userVars, seedVars, loopVars, viewer, purger>>

\* ... and the removal of the rest.
Delete ==
    /\ seeder.pc = "delete"
    /\ store' = store \ (seeder.sweep \ seeder.keep)
    /\ seeder' = [seeder EXCEPT !.pc = seeder.tail, !.victim = NoCid, !.sweep = {},
                                !.keep = {}, !.tail = "wait"]
    /\ UNCHANGED <<userVars, index, pins, provided, loopVars, viewer, purger>>

-----------------------------------------------------------------------------
(* get_with_inner, with the policy Seed *)

\* A block has come.  What is no manifest ends the attempt where it stands, by
\* the ? that follows HlsManifest::from_json.
Receive ==
    LET complete == seeder.done + 1 = Len(Blocks(seeder.cid))
    IN  seeder' = [seeder EXCEPT !.done = @ + 1,
                                 !.pc = IF seeder.cid \in Bare THEN "end"
                                        ELSE IF complete THEN "ban" ELSE "room"]

AskModeration ==
    /\ seeder.pc = "ask" /\ Needed \in BannedCids
    /\ Abandon
    /\ UNCHANGED <<userVars, seedVars, loopVars, viewer, purger>>

AskStore ==
    /\ seeder.pc = "ask" /\ Needed \notin BannedCids
    /\ IF Needed \in store THEN Receive ELSE Goto("net")
    /\ UNCHANGED <<userVars, seedVars, loopVars, viewer, purger>>

\* The block is put in the store; the root of a publication alone is announced.
Download ==
    /\ seeder.pc = "net"
    /\ store' = store \cup {Needed}
    /\ provided' = provided \cup (IF seeder.done = 0 THEN {Needed} \ BannedCids ELSE {})
    /\ Receive
    /\ UNCHANGED <<userVars, index, pins, loopVars, viewer, purger>>

NotFound ==
    /\ seeder.pc = "net" /\ Needed \in Unreliable
    /\ Abandon
    /\ UNCHANGED <<userVars, seedVars, loopVars, viewer, purger>>

-----------------------------------------------------------------------------
(* The commit of seed_publication *)

ReadBan ==
    /\ seeder.pc = "ban"
    /\ seeder' = [seeder EXCEPT !.pc = "intent", !.barred = seeder.issuer \in BannedKeys]
    /\ UNCHANGED <<userVars, seedVars, loopVars, viewer, purger>>

WantedByIntent ==
    IF seeder.watched THEN ~KeyBlocked(seeder.issuer) ELSE seeder.issuer \in subs

\* seed_still_wanted
ReadIntent ==
    /\ seeder.pc = "intent"
    /\ IF WantedByIntent /\ ~seeder.barred THEN Goto("insert") ELSE SweepThen(Fetched, "end")
    /\ UNCHANGED <<userVars, seedVars, loopVars, viewer, purger>>

\* The lock of the subscriptions is released before that of the index is taken.
Commit ==
    /\ seeder.pc = "insert"
    /\ index' = IF ContainsManifest(index, seeder.cid) THEN index
                ELSE Insert(index, seeder.issuer, seeder.cid, Fetched)
    /\ Goto("end")
    /\ UNCHANGED <<userVars, pins, store, provided, loopVars, viewer, purger>>

EndListed ==
    /\ seeder.pc = "end" /\ ~seeder.watched
    /\ seeder' = [SeederIdle EXCEPT !.pc = "channel", !.issuer = seeder.issuer,
                                    !.issuers = seeder.issuers, !.cids = seeder.cids]
    /\ UNCHANGED <<userVars, seedVars, loopVars, viewer, purger>>

\* Mutant: leaves the blocks of the session where they are.
EndNamedAnyway ==
    /\ seeder.pc = "end" /\ seeder.watched
    /\ seeder' = [SeederIdle EXCEPT !.pc = "start"]
    /\ UNCHANGED <<userVars, seedVars, loopVars, viewer, purger>>

\* seed_watched_publication removes the blocks of a session that stays out.
EndNamed ==
    /\ seeder.pc = "end" /\ seeder.watched
    /\ IF ContainsManifest(index, seeder.cid) \/ seeder.cid \in pins
       THEN seeder' = [SeederIdle EXCEPT !.pc = "start"]
       ELSE seeder' = [SeederIdle EXCEPT !.pc = "sweep", !.tail = "start",
                                         !.sweep = {seeder.cid} \cup seeder.captured]
    /\ UNCHANGED <<userVars, seedVars, loopVars, viewer, purger>>

-----------------------------------------------------------------------------
(* The select! of seed_loop.  The interval starts again at each round, so it *)
(* ends a wait only when no branch was ready.                                *)

Tick ==
    /\ seeder.pc = "wait" /\ ~wake /\ seedNow = <<>>
    /\ Goto("start")
    /\ UNCHANGED <<userVars, seedVars, loopVars, viewer, purger>>

\* Mutant: a wake-up makes a pass and forgets nothing.
WakeOnly ==
    /\ seeder.pc = "wait" /\ wake
    /\ wake' = FALSE
    /\ Goto("start")
    /\ UNCHANGED <<userVars, seedVars, quotaBlocked, seedNow, viewer, purger>>

\* A tic of the catalog or of seed_wake gives a chance to what was refused.
Wake ==
    /\ seeder.pc = "wait" /\ wake
    /\ wake' = FALSE /\ quotaBlocked' = {}
    /\ Goto("start")
    /\ UNCHANGED <<userVars, seedVars, seedNow, viewer, purger>>

\* The segments of the named publication are read before anything is tried.
TakeNamed ==
    /\ seeder.pc = "wait" /\ seedNow # <<>>
    /\ LET i == Head(seedNow)[1]
           m == Head(seedNow)[2]
       IN  \E r \in Repl[m] :
              seeder' = [SeederIdle EXCEPT !.pc = "room", !.issuer = i, !.cid = m,
                             !.watched = TRUE, !.cand = Measured(m, r),
                             !.captured = IF m \in store THEN Range(Segments[m]) ELSE {}]
    /\ seedNow' = Tail(seedNow)
    /\ UNCHANGED <<userVars, seedVars, quotaBlocked, wake, viewer, purger>>

SeederStep ==
    \/ StartPass \/ VisitIssuer \/ EndPass \/ SkipListed \/ TryListed \/ EndChannel
    \/ EnterRoom \/ RoomFound \/ MeasureCandidates \/ NoCandidate \/ PickVictim \/ Evict
    \/ Snapshot \/ Delete
    \/ AskModeration \/ AskStore \/ Download \/ NotFound
    \/ ReadBan \/ ReadIntent \/ Commit \/ EndListed \/ EndNamed
    \/ Tick \/ Wake \/ TakeNamed
=============================================================================
