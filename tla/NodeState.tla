------------------------------ MODULE NodeState ------------------------------
(***************************************************************************)
(* The state that the tasks of one node share (the Arc<Mutex> fields of    *)
(* Node, p2p.rs), and the local state of each task.  One action of a task  *)
(* is what it does while it holds a lock, or between two await points;     *)
(* everything else may happen in between.                                  *)
(*                                                                         *)
(* The dotfiles (.subscriptions, .blocked_channels, .seed_index,           *)
(* .seed_quota) are written while the lock is held, so the disk shows what *)
(* memory shows; a write that fails or is cut short is not modelled.  The  *)
(* denylists are taken as in force or lifted: Denylist has their cache.    *)
(***************************************************************************)
EXTENDS SeedIndex

CONSTANTS
    Self,           \* the issuer this node publishes as
    Own,            \* manifests this node may ingest itself
    Feeds,          \* Feeds[i]: the sets of CIDs that feeds of i may list
    Lists,          \* denylists that editors may issue, [keys, cids]
    Quotas,         \* the quotas a user may set
    Repl,           \* Repl[c]: how many providers of c other than this node there may be
    Unreliable,     \* CIDs that a fetch may fail to find
    Viewer,         \* foreground tasks
    Purger,         \* tasks that unsubscribe, block or apply a denylist
    Allowed,        \* the operations and events that occur, see Operation
    NowCapacity,    \* capacity of the seed_now channel
    MaxOps,         \* bound on user operations and network arrivals
    NoCid, NoIssuer

ASSUME SelfAssumption == Self \in Issuer /\ Own \subseteq Manifest
ASSUME NoneAssumption == NoCid \notin Cid /\ NoIssuer \notin Issuer
\* An empty catalog entry stands for an unknown feed, so no feed is empty.
ASSUME FeedsAssumption == Feeds \in [Issuer -> SUBSET ((SUBSET Listed) \ {{}})]
ASSUME ListsAssumption == Lists \subseteq [keys: SUBSET Issuer, cids: SUBSET Cid]
ASSUME QuotasAssumption == Quotas \subseteq Nat /\ NowCapacity \in Nat /\ MaxOps \in Nat
ASSUME ReplAssumption == Repl \in [Listed -> SUBSET Nat]

\* What a user, a front or a peer does to the node.
Operation == {"subscribe", "unsubscribe", "block", "unblock", "denylist", "lift", "feed",
              "pin", "unpin", "quota", "restart", "reprovide", "hls", "stream", "watch",
              "ingest"}
ASSUME AllowedAssumption == Allowed \subseteq Operation

VARIABLES
    subs,           \* subscriptions
    joining,        \* issuers whose subscribe passed its checks, not yet recorded
    hearing,        \* feeds whose issuer passed the bans, not yet applied: <<issuer, cids>>
    blocked,        \* blocked_channels: locally blocked issuers
    lists,          \* the denylists in force in the moderation engine
    catalog,        \* catalog[i]: what the current feed of i lists, {} if unknown
    index, pins,    \* the SeedIndex
    quota,          \* seed_quota
    store,          \* the blockstore
    provided,       \* CIDs announced in the DHT by this node
    quotaBlocked,   \* publications skipped for want of room
    wake,           \* a pending tick of seed_wake or catalog_events
    seedNow,        \* the seed_now channel, <<issuer, manifest>>
    seeder,         \* the seed loop
    viewer,         \* the foreground tasks
    purger,         \* the purging tasks
    ops             \* operations so far, bounded by MaxOps

userVars == <<subs, joining, hearing, blocked, lists, catalog, quota, ops>>
seedVars == <<index, pins, store, provided>>
loopVars == <<quotaBlocked, wake, seedNow>>
taskVars == <<seeder, viewer, purger>>
vars == <<userVars, seedVars, loopVars, taskVars>>

-----------------------------------------------------------------------------

\* The views that Moderation::rebuild_views derives from the lists in force.
BannedKeys == UNION {l.keys : l \in lists}
BannedCids == UNION {l.cids : l \in lists}

\* is_key_blocked_inner
KeyBlocked(i) == i \in BannedKeys \/ i \in blocked

SeederIdle ==
    [pc |-> "wait", issuer |-> NoIssuer, cid |-> NoCid, watched |-> FALSE, cand |-> 0,
     done |-> 0, issuers |-> {}, cids |-> {}, captured |-> {}, subs |-> {}, quota |-> 0,
     measured |-> {}, victim |-> NoCid, barred |-> FALSE, sweep |-> {}, keep |-> {},
     tail |-> "wait"]

ViewerIdle ==
    [pc |-> "idle", kind |-> "none", issuer |-> NoIssuer, cid |-> NoCid, got |-> {},
     want |-> NoCid, sweep |-> {}, keep |-> {}]

PurgerIdle ==
    [pc |-> "idle", kind |-> "none", issuer |-> NoIssuer, entries |-> {}, cids |-> {},
     sweep |-> {}, keep |-> {}]

SeederPC == {"wait", "start", "pass", "channel", "room", "loop", "victim", "evict", "ask",
             "net", "ban", "intent", "insert", "sweep", "delete", "end"}
ViewerPC == {"idle", "fetch", "net", "landed", "frozen", "complete", "claimed", "register",
             "sweep", "delete"}
PurgerPC == {"idle", "subs", "select", "next", "index", "remaining", "stop", "sweep",
             "delete", "cids", "withdraw"}

SeederState ==
    [pc: SeederPC, issuer: Issuer \cup {NoIssuer}, cid: Listed \cup {NoCid},
     watched: BOOLEAN, cand: Nat, done: Nat, issuers: SUBSET Issuer, cids: SUBSET Listed,
     captured: SUBSET Cid, subs: SUBSET Issuer, quota: Nat, measured: SUBSET Manifest,
     victim: Manifest \cup {NoCid}, barred: BOOLEAN, sweep: SUBSET Cid, keep: SUBSET Cid,
     tail: {"wait", "loop", "end", "start"}]

ViewerState ==
    [pc: ViewerPC, kind: {"none", "hls", "stream", "watch", "ingest"},
     issuer: Issuer \cup {NoIssuer}, cid: Manifest \cup {NoCid}, got: SUBSET Cid,
     want: Cid \cup {NoCid}, sweep: SUBSET Cid, keep: SUBSET Cid]

CatalogEntry == [issuer: Issuer, cids: SUBSET Listed]

PurgerState ==
    [pc: PurgerPC, kind: {"none", "unsubscribe", "block", "denylist"},
     issuer: Issuer \cup {NoIssuer}, entries: SUBSET CatalogEntry, cids: SUBSET Listed,
     sweep: SUBSET Cid, keep: SUBSET Cid]

UserTypeOK ==
    /\ subs \subseteq Issuer /\ joining \subseteq Issuer /\ blocked \subseteq Issuer
    /\ hearing \subseteq Issuer \X SUBSET Listed
    /\ lists \subseteq Lists
    /\ catalog \in [Issuer -> SUBSET Listed]
    /\ quota \in Quotas
    /\ ops \in 0 .. MaxOps

SeedTypeOK ==
    /\ index \subseteq Publication /\ IsFiniteSet(index)
    /\ pins \subseteq Manifest
    /\ store \subseteq Cid /\ provided \subseteq Cid

LoopTypeOK ==
    /\ quotaBlocked \subseteq Listed
    /\ wake \in BOOLEAN
    /\ seedNow \in Seq(Issuer \X Manifest)

TypeOK ==
    /\ UserTypeOK /\ SeedTypeOK /\ LoopTypeOK
    /\ seeder \in SeederState
    /\ viewer \in [Viewer -> ViewerState]
    /\ purger \in [Purger -> PurgerState]

\* A node with an empty data directory; subscriptions, feeds and a quota come
\* from its user and its peers.  seed_loop makes a first pass before it waits.
Init ==
    /\ subs = {} /\ joining = {} /\ hearing = {} /\ blocked = {} /\ lists = {}
    /\ catalog = [i \in Issuer |-> {}]
    /\ index = {} /\ pins = {}
    /\ quota \in Quotas
    /\ store = {} /\ provided = {}
    /\ quotaBlocked = {} /\ wake = FALSE /\ seedNow = <<>>
    /\ seeder = [SeederIdle EXCEPT !.pc = "start"]
    /\ viewer = [v \in Viewer |-> ViewerIdle]
    /\ purger = [u \in Purger |-> PurgerIdle]
    /\ ops = 0

\* One more operation of the user, or event from outside.
Occurs(op) == op \in Allowed /\ ops < MaxOps /\ ops' = ops + 1
=============================================================================
