------------------------------- MODULE Viewing -------------------------------
(***************************************************************************)
(* Content that comes in on the demand of the user: a download in the      *)
(* foreground (fetch_hls), a streaming session (open_stream, close_stream, *)
(* stream/mod.rs), and the node's own content (ingest_file).  Only what is *)
(* stored is modelled: a session with the policy Stream leaves no trace in *)
(* the blockstore.                                                         *)
(*                                                                         *)
(*   hls     a download from a subscribed channel                          *)
(*   stream  a session on a subscribed channel: seed_loop will index it    *)
(*   watch   a session outside the subscriptions, "seed what I watch":     *)
(*           once complete it names its publication to seed_loop           *)
(*   ingest  a file of the user                                            *)
(*                                                                         *)
(* A session fetches up to MAX_INFLIGHT segments at a time; here one, in   *)
(* any order.                                                              *)
(***************************************************************************)
EXTENDS NodeState

SetViewer(v, state) == viewer' = [viewer EXCEPT ![v] = state]
ViewerGoto(v, pc) == viewer' = [viewer EXCEPT ![v].pc = pc]

IsSession(v) == viewer[v].kind \in {"stream", "watch"}

\* What a task asks for next.  The segments of own content precede its manifest.
NextBlocks(v) ==
    LET m == viewer[v].cid
        missing == {k \in DOMAIN Segments[m] : Segments[m][k] \notin viewer[v].got}
        inOrder == {Segments[m][k] : k \in {k \in missing : \A j \in missing : k <= j}}
    IN  CASE viewer[v].kind = "ingest" -> IF missing = {} THEN {m} \ viewer[v].got ELSE inOrder
          [] m \notin viewer[v].got    -> {m}
          [] viewer[v].kind = "hls"    -> inOrder
          [] OTHER                     -> {Segments[m][k] : k \in missing}

-----------------------------------------------------------------------------
(* Beginnings *)

Begin(v, kind, i, m) ==
    /\ Occurs(kind)
    /\ viewer[v].pc = "idle"
    /\ SetViewer(v, [ViewerIdle EXCEPT !.pc = "fetch", !.kind = kind, !.issuer = i, !.cid = m])
    /\ UNCHANGED <<subs, joining, hearing, blocked, lists, catalog, quota, seedVars, loopVars,
                   seeder, purger>>

\* The entry of a manifest is one of a subscribed issuer if there is one.
ViewSubscribed(v, kind, i, m) ==
    i \in subs /\ m \in catalog[i] /\ kind \in {"hls", "stream"} /\ Begin(v, kind, i, m)

WatchOther(v, i, m) ==
    /\ m \in catalog[i]
    /\ \A j \in subs : m \notin catalog[j]
    /\ Begin(v, "watch", i, m)

Ingest(v, m) == m \in Own /\ Begin(v, "ingest", Self, m)

-----------------------------------------------------------------------------
(* Fetching *)

\* A refusal by the moderation ends a call and freezes a session that is open.
ViewRefused(v) ==
    /\ viewer[v].pc = "fetch"
    /\ NextBlocks(v) \cap BannedCids # {}
    /\ IF IsSession(v) /\ viewer[v].cid \in viewer[v].got
       THEN ViewerGoto(v, "frozen") ELSE SetViewer(v, ViewerIdle)
    /\ UNCHANGED <<userVars, seedVars, loopVars, seeder, purger>>

ViewAsk(v) ==
    /\ viewer[v].pc = "fetch" /\ viewer[v].kind # "ingest"
    /\ \E b \in NextBlocks(v) \ BannedCids :
          viewer' = [viewer EXCEPT ![v].pc = IF b \in store THEN "landed" ELSE "net",
                                   ![v].want = b]
    /\ UNCHANGED <<userVars, seedVars, loopVars, seeder, purger>>

\* In a session the fetch is a task of its own, which puts the block ...
ViewDownload(v) ==
    /\ viewer[v].pc = "net"
    /\ LET b == viewer[v].want
       IN  /\ store' = store \cup {b}
           /\ provided' = provided \cup (IF b = viewer[v].cid THEN {b} \ BannedCids ELSE {})
    /\ ViewerGoto(v, "landed")
    /\ UNCHANGED <<userVars, index, pins, loopVars, seeder, purger>>

\* ... and fetch_loop marks it present when it joins that task.
ViewJoin(v) ==
    /\ viewer[v].pc = "landed"
    /\ viewer' = [viewer EXCEPT ![v].pc = "fetch", ![v].got = @ \cup {viewer[v].want},
                                ![v].want = NoCid]
    /\ UNCHANGED <<userVars, seedVars, loopVars, seeder, purger>>

\* A session that is open tries again later; a call gives up, and leaves what it put.
ViewNotFound(v) ==
    /\ viewer[v].pc = "net" /\ viewer[v].want \in Unreliable
    /\ IF IsSession(v) /\ viewer[v].cid \in viewer[v].got
       THEN viewer' = [viewer EXCEPT ![v].pc = "fetch", ![v].want = NoCid]
       ELSE SetViewer(v, ViewerIdle)
    /\ UNCHANGED <<userVars, seedVars, loopVars, seeder, purger>>

\* put_block for a segment, add for the manifest.
IngestBlock(v) ==
    /\ viewer[v].pc = "fetch" /\ viewer[v].kind = "ingest"
    /\ \E b \in NextBlocks(v) \ BannedCids :
          /\ store' = store \cup {b}
          /\ provided' = provided \cup ({b} \cap Manifest)
          /\ viewer' = [viewer EXCEPT ![v].got = @ \cup {b}]
    /\ UNCHANGED <<userVars, index, pins, loopVars, seeder, purger>>

-----------------------------------------------------------------------------
(* Completion *)

GotAll(v) == viewer[v].pc = "fetch" /\ viewer[v].got = BlockSet(viewer[v].cid)

FinishCall(v) ==
    /\ GotAll(v) /\ ~IsSession(v)
    /\ ViewerGoto(v, "register")
    /\ UNCHANGED <<userVars, seedVars, loopVars, seeder, purger>>

\* seed_loop is told that a subscribed publication may be complete.
FinishStream(v) ==
    /\ GotAll(v) /\ viewer[v].kind = "stream"
    /\ ViewerGoto(v, "complete")
    /\ wake' = TRUE
    /\ UNCHANGED <<userVars, seedVars, quotaBlocked, seedNow, seeder, purger>>

\* The request leaves with the token seed_claim, or it does not leave.
FinishWatch(v) ==
    /\ GotAll(v) /\ viewer[v].kind = "watch"
    /\ IF Len(seedNow) < NowCapacity
       THEN /\ seedNow' = Append(seedNow, <<viewer[v].issuer, viewer[v].cid>>)
            /\ ViewerGoto(v, "claimed")
       ELSE ViewerGoto(v, "complete") /\ UNCHANGED seedNow
    /\ UNCHANGED <<userVars, seedVars, quotaBlocked, wake, seeder, purger>>

\* Mutant: does not look whether the seed loop was faster.
RegisterTwice(v) ==
    /\ viewer[v].pc = "register" /\ viewer[v].kind = "hls"
    /\ index' = Insert(index, viewer[v].issuer, viewer[v].cid, BlockSet(viewer[v].cid) \cap store)
    /\ SetViewer(v, ViewerIdle)
    /\ UNCHANGED <<userVars, pins, store, provided, loopVars, seeder, purger>>

\* register_seeded_publication, with neither quota nor a second look at the
\* subscriptions; its bytes are those of the blocks that are still there.
RegisterDownload(v) ==
    /\ viewer[v].pc = "register" /\ viewer[v].kind = "hls"
    /\ LET m == viewer[v].cid
       IN  index' = IF ContainsManifest(index, m) THEN index
                    ELSE Insert(index, viewer[v].issuer, m, BlockSet(m) \cap store)
    /\ SetViewer(v, ViewerIdle)
    /\ UNCHANGED <<userVars, pins, store, provided, loopVars, seeder, purger>>

\* Own content is pinned, whether it was indexed before or not.
RegisterOwn(v) ==
    /\ viewer[v].pc = "register" /\ viewer[v].kind = "ingest"
    /\ LET m == viewer[v].cid
       IN  /\ index' = IF ContainsManifest(index, m) THEN index
                       ELSE Insert(index, Self, m, BlockSet(m))
           /\ pins' = pins \cup {m}
    /\ SetViewer(v, ViewerIdle)
    /\ UNCHANGED <<userVars, store, provided, loopVars, seeder, purger>>

-----------------------------------------------------------------------------
(* close_stream, on a session that open_stream has returned *)

Open(v) ==
    /\ IsSession(v) /\ viewer[v].cid \in viewer[v].got
    /\ viewer[v].pc \in {"fetch", "net", "landed", "frozen", "complete", "claimed"}

\* Nothing to decide: a subscribed channel, a request that has left, or a
\* publication that is indexed or pinned.
CloseSettled(v) ==
    /\ Open(v)
    /\ \/ viewer[v].kind = "stream"
       \/ viewer[v].pc = "claimed"
       \/ ContainsManifest(index, viewer[v].cid)
       \/ viewer[v].cid \in pins
    /\ SetViewer(v, ViewerIdle)
    /\ UNCHANGED <<userVars, seedVars, loopVars, seeder, purger>>

\* take_close_action lists the segments marked present, no other.
CloseWatched(v) ==
    /\ Open(v) /\ viewer[v].kind = "watch" /\ viewer[v].pc # "claimed"
    /\ ~ContainsManifest(index, viewer[v].cid) /\ viewer[v].cid \notin pins
    /\ IF viewer[v].got = BlockSet(viewer[v].cid) /\ Len(seedNow) < NowCapacity
       THEN /\ seedNow' = Append(seedNow, <<viewer[v].issuer, viewer[v].cid>>)
            /\ SetViewer(v, ViewerIdle)
       ELSE /\ SetViewer(v, [ViewerIdle EXCEPT !.pc = "sweep", !.kind = "watch",
                                               !.sweep = viewer[v].got])
            /\ UNCHANGED seedNow
    /\ UNCHANGED <<userVars, seedVars, quotaBlocked, wake, seeder, purger>>

ViewerSnapshot(v) ==
    /\ viewer[v].pc = "sweep"
    /\ viewer' = [viewer EXCEPT ![v].pc = "delete", ![v].keep = AllCids(index)]
    /\ UNCHANGED <<userVars, seedVars, loopVars, seeder, purger>>

ViewerDelete(v) ==
    /\ viewer[v].pc = "delete"
    /\ store' = store \ (viewer[v].sweep \ viewer[v].keep)
    /\ SetViewer(v, ViewerIdle)
    /\ UNCHANGED <<userVars, index, pins, provided, loopVars, seeder, purger>>

\* What the node does by itself, and what its user decides.
ViewerStep(v) ==
    \/ ViewRefused(v) \/ ViewAsk(v) \/ ViewDownload(v) \/ ViewJoin(v) \/ ViewNotFound(v)
    \/ IngestBlock(v)
    \/ FinishCall(v) \/ FinishStream(v) \/ FinishWatch(v)
    \/ RegisterDownload(v) \/ RegisterOwn(v)
    \/ ViewerSnapshot(v) \/ ViewerDelete(v)

ViewerChoice(v) ==
    \/ \E m \in Manifest :
          \/ \E i \in Issuer, kind \in {"hls", "stream"} : ViewSubscribed(v, kind, i, m)
          \/ \E i \in Issuer : WatchOther(v, i, m)
          \/ Ingest(v, m)
    \/ CloseSettled(v) \/ CloseWatched(v)
=============================================================================
