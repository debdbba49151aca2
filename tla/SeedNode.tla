------------------------------- MODULE SeedNode -------------------------------
(***************************************************************************)
(* One node that retains content: the seed loop, the purges and the        *)
(* foreground tasks over the state they share, and what must hold of it.   *)
(***************************************************************************)
EXTENDS SeedLoop, Purge, Viewing

\* Every task dies where it stands.  Node::build reloads what is on disk; the
\* catalog, the announcements and the requests of sessions are lost.
Restart ==
    /\ Occurs("restart")
    /\ joining' = {} /\ hearing' = {}
    /\ catalog' = [i \in Issuer |-> {}]
    /\ provided' = {}
    /\ quotaBlocked' = {} /\ wake' = FALSE /\ seedNow' = <<>>
    /\ seeder' = [SeederIdle EXCEPT !.pc = "start"]
    /\ viewer' = [v \in Viewer |-> ViewerIdle]
    /\ purger' = [u \in Purger |-> PurgerIdle]
    /\ UNCHANGED <<subs, blocked, lists, quota, index, pins, store>>

\* reprovide_all_inner, at the start and every hour: all blocks but the segments
\* that the index knows.  The blocks are announced one by one, here at once.
Reprovide ==
    /\ "reprovide" \in Allowed
    /\ provided' = provided \cup ((store \ AllSegmentCids(index)) \ BannedCids)
    /\ UNCHANGED <<userVars, index, pins, store, loopVars, taskVars>>

\* The steps that the runtime takes by itself.
TaskStep ==
    \/ SeederStep
    \/ \E u \in Purger : PurgerStep(u)
    \/ \E v \in Viewer : ViewerStep(v)
    \/ \E i \in Issuer : SubscribeRecord(i) \/ FeedStep(i)

Next ==
    \/ TaskStep
    \/ UserStep
    \/ \E v \in Viewer : ViewerChoice(v)
    \/ Reprovide
    \/ Restart

Spec == Init /\ [][Next]_vars

\* Every task that can go on does (tokio polls what is ready), and a download ends
\* one way or the other.  Nothing obliges a user to anything, nor a peer.
Fairness ==
    /\ WF_vars(SeederStep)
    /\ \A u \in Purger : WF_vars(PurgerStep(u))
    /\ \A v \in Viewer : WF_vars(ViewerStep(v))
    /\ \A i \in Issuer : WF_vars(SubscribeRecord(i)) /\ WF_vars(FeedStep(i))

FairSpec == Spec /\ Fairness

-----------------------------------------------------------------------------
(* Safety *)

\* insert does not look for duplicates: each of its three callers must, however
\* seed_loop, fetch_hls and ingest_file race for one manifest.  A second entry
\* would be counted twice against the quota and survive its own eviction.
IndexedOnce == \A p, q \in index : p.manifest = q.manifest => p = q

IndexLoses(p) == \A q \in index' : q.manifest # p.manifest

\* A pinned publication leaves the index by a purge of its issuer for moderation, or
\* as a victim that make_room_for had chosen before the pin.
PinnedStays ==
    [][\A p \in index : p.manifest \in pins /\ IndexLoses(p) =>
          \/ \E u \in Purger : /\ purger[u].pc = "index" /\ purger[u].issuer = p.issuer
                               /\ purger[u].kind \in {"block", "denylist"}
          \/ seeder.pc = "evict" /\ seeder.victim = p.manifest]_vars

\* What was begun for i when its ban came, and will not look again: a feed that passed
\* the check, a candidate of the pass, a commit of a watched publication, a download in
\* the foreground.
Late(i) ==
    \/ \E h \in hearing : h[1] = i
    \/ /\ seeder.issuer = i
       /\ IF seeder.watched THEN seeder.pc = "insert" ELSE seeder.cid # NoCid \/ seeder.cids # {}
    \/ \E v \in Viewer : viewer[v].issuer = i

Shut(i) ==
    /\ KeyBlocked(i) /\ ~Late(i)
    /\ catalog[i] = {} /\ \A p \in index : p.issuer # i

\* The bans are read before the locks of the catalog and of the index are taken, a
\* subscription is recorded after its check, a download is registered with no second
\* look: what was begun may outlive the purge of its issuer, and a late feed offers it
\* anew.  But once the purge came last, nothing of a blocked or banned issuer is listed
\* or retained again until the ban is lifted, subscribed or not, over restarts too.
PurgedStaysOut ==
    [][\A i \in Issuer \ {Self} : Shut(i) => Shut(i)' \/ ~KeyBlocked(i)']_vars

\* What a task will index or remove in the end.
SeederHolds ==
    Fetched \cup seeder.sweep \cup seeder.captured
        \cup (IF seeder.watched THEN {seeder.cid} ELSE {})
ViewerHolds(v) == viewer[v].got \cup {viewer[v].want} \cup viewer[v].sweep
RequestHolds == UNION {BlockSet(n[2]) : n \in Range(seedNow)}

Accounted ==
    AllCids(index) \cup SeederHolds \cup RequestHolds
        \cup (UNION {ViewerHolds(v) : v \in Viewer})
        \cup (UNION {purger[u].sweep : u \in Purger})

\* No manifest stays in the store, and announced, outside the index and the quota,
\* whichever way its session, its publication or its issuer went
\* (seed_watched_publication, settle_watched_session, remove_unindexed_fetch).
NoOrphanManifest == store \cap Manifest \subseteq Accounted

\* The same of every block: what close_stream promises by waiting for fetch_loop.
NoOrphanBlock == store \subseteq Accounted

LargestBlock == CHOOSE n \in {Size[c] : c \in Cid} : \A c \in Cid : Size[c] <= n

\* However blocks come in and victims go out, a commit of the seed loop leaves the
\* index below the quota it worked under, but for the last block it fetched.
CommitWithinQuota ==
    [][TotalBytes(index') > TotalBytes(index) /\ seeder.pc = "insert" =>
          TotalBytes(index') < seeder.quota + LargestBlock]_vars

-----------------------------------------------------------------------------
(* What the node promises: Custody *)

Barred == {i \in Issuer : KeyBlocked(i)}

\* The loop looks again before it indexes what a session named, or will name.
SeederNamed == IF seeder.watched THEN {<<seeder.issuer, seeder.cid>>} ELSE {}

ViewerNamed ==
    {<<viewer[v].issuer, viewer[v].cid>> : v \in {v \in Viewer : viewer[v].kind = "watch"}}

Named == (Issuer \X Manifest) \cap (SeederNamed \cup ViewerNamed \cup Range(seedNow))

\* It does not for the candidates of a pass, nor between the last look and the commit.
SeederBegun ==
    IF seeder.watched
    THEN IF seeder.pc = "insert" THEN {<<seeder.issuer, seeder.cid>>} ELSE {}
    ELSE {seeder.issuer} \X (seeder.cids \cup ({seeder.cid} \ {NoCid}))

ViewerBegun ==
    {<<viewer[v].issuer, viewer[v].cid>> :
        v \in {v \in Viewer : viewer[v].kind \in {"hls", "ingest"}}}

Begun == SeederBegun \cup ViewerBegun

Victim == IF seeder.pc = "evict" THEN {seeder.victim} ELSE {}

PurgesFor(t, i) ==
    t.kind \in {"block", "denylist"} /\ (t.issuer = i \/ \E e \in t.entries : e.issuer = i)
Purging == {i \in Issuer : \E u \in Purger : PurgesFor(purger[u], i)}

KeptIn(idx) == {<<p.issuer, p.manifest>> : p \in idx}

Heard == {h[1] : h \in hearing}

Promise == INSTANCE Custody WITH
               Content <- Listed, heard <- Heard, offered <- catalog, barred <- Barred, pinned <- pins,
               named <- Named, begun <- Begun, chosen <- Victim,
               purging <- Purging, kept <- KeptIn(index)

\* However the loop, the downloads, the purges and restarts interleave: what enters the
\* index was begun on the ground of a feed whose issuer was not barred when it came, or
\* of own content, and no manifest enters for two issuers; what is pinned leaves it only by a
\* purge for moderation, or as a victim that was no pin when it was chosen
\* (seed_channel, seed_still_wanted, fetch_hls, eviction_order, purge_issuer).
ImplementsCustody == Promise!Spec

-----------------------------------------------------------------------------
(* Liveness *)

\* While the other providers stay the same, publications do not chase each other from
\* the index for ever.  The comparison of make_room_for alone does not ensure it: a
\* count includes this node, so it matters that an eviction withdraws no announcement
\* (docs/architecture.md, 6 bis).
Dampened == <>[][index' = index]_vars

Wanted(i, m) == i \in subs /\ m \in catalog[i]
HasRoomFor(m) == TotalBytes(index) + Weight(BlockSet(m)) < quota

\* A publication that is wanted and for which there is room does not stay out for
\* ever: no wake-up is lost, whatever freed the room, and no channel is left out.
RoomIsUsed ==
    \A i \in Issuer, m \in Manifest :
        []<>(~Wanted(i, m) \/ ContainsManifest(index, m) \/ ~HasRoomFor(m))

-----------------------------------------------------------------------------
(* What the documentation says, and the code does not do *)

\* docs/architecture.md: what was watched always gives way to a subscription under
\* the pressure of the quota.
WatchedYields ==
    [][\A c \in quotaBlocked' \ quotaBlocked :
          \A p \in Evictable(index, pins) : p.issuer \in seeder.subs]_vars

\* subscribe_denylist: what is retained of an issuer that is now banned is purged.
BannedArePurged ==
    [][\A u \in Purger : WithdrawCids(u) => \A p \in index : p.issuer \notin BannedKeys]_vars

\* A publication in the index is there to be served again: its blocks are in the
\* store, and the ones that total_bytes counts take up room.
IndexedIsHeld == AllCids(index) \subseteq store
=============================================================================
