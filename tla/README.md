# Verification of champinium

TLA+ models of champinium's node (`crates/champinium-core`), TLC instances that check
them, and TLAPS proofs about them. The reference is the Rust source; paths below are
relative to `crates/champinium-core/src/` unless they start elsewhere, and the field `map`
of `PROJECT.json` gives the lines that each definition stands for.

## 1. The system

A champinium node publishes videos as an HLS manifest and its segments, each a
content-addressed block. It announces manifests in a Kademlia DHT, gossips signed *feeds*
that list the manifests of a channel, follows channels, and **retains** what those channels
publish, under a byte quota, so that it can serve it again. It plays a video while it
downloads it, over a local HTTP server. It enforces signed denylists and counts reports.

| component | state | operations | interaction |
|---|---|---|---|
| Seed index (`seeding.rs`) | entries per issuer, pins, an insertion counter, persisted | insert, remove, purge, pin, sums, eviction order | one mutex, taken by the seed loop, purges and foreground tasks |
| Seed loop (`p2p.rs`, `seed_loop` ...) | the publication in flight, `quota_blocked` | one pass over the subscriptions, then a wait on four events | reads subscriptions, catalog, moderation; fetches blocks; writes the index, the store, announcements |
| Subscriptions, blocks and purges (`p2p.rs`) | subscriptions, blocked channels, quota | subscribe, unsubscribe, block, unblock, pin, quota, denylist purges | write the sets that the loop reads, remove from index, store and DHT, wake the loop |
| Settings files (`p2p.rs`) | ten dotfiles and what is in memory of them | setters, each with a write; load at start | the lock of each set, or none |
| Foreground content (`p2p.rs`, `stream/mod.rs`) | open sessions, their segments and the token `seed_claim` | open, fetch, complete, close; fetch_hls; ingest_file | write the store and the index; name publications to the loop over `seed_now` |
| Streaming (`stream/`) | the state of each segment, the playhead, files of the session | schedule, fetch, retry, answer requests and ranges, close | one loop, tasks it joins, and requests of the player that wait for changes |
| Block fetch (`p2p.rs`, `get_with`; `coldstore/`) | none | moderation, store, providers in turn, cold fallback | called by the seed loop, sessions and foreground tasks |
| Blockstore (`blockstore.rs`) | blocks | put, get, has, remove, list | shared by all |
| Moderation engine (`moderation.rs`) | the list of each editor by `seq`, two views, a cache on disk | apply, remove, load | read by every checkpoint |
| Catalog and feeds (`catalog.rs`, `feed.rs`) | the latest feed of each issuer, memory only; `feed_seq` on disk | publish, hear, fetch, upsert if newer, remove | gossip, DHT, the follow and maintenance loops write it; the seed loop reads it |
| Reports (`report.rs`) | a bounded book in two tiers | insert, reclassify | gossip, and the set of editors |
| Signed bytes (`content.rs`, `feed.rs`, ...) | none | `signing_bytes`, `push_field` | every signature |
| Event loop (`p2p.rs`, `EventLoop`) | maps of pending answers by libp2p id | commands, events, end | a bounded channel in, one-shot channels out |
| Maintenance (`p2p.rs`) | started once | announce again, republish known feeds and lists | hourly; as the follow loop, it ends with the last handle |
| Listeners (`ffi.rs`, `apps/linux/src/gui.rs`) | none beside the channel | tick, lag, call the front | broadcast channels of the node |
| CLI, daemon, desktop fronts, bootstrap and relay servers | — | calls of `Node` | — |

All of this runs as tokio tasks over `Arc<Mutex<..>>` fields of `Node`. No lock is held over
an `.await`, and the fields have a mutex each, so that every operation above is a sequence
of small critical sections with anything in between. What is hard:

* **Interleaving.** Three writers (the seed loop, a foreground download, ingestion) index
  publications; four (eviction, unsubscribing, blocking, a denylist) remove them, in two
  steps: first the entry, then the blocks that no other entry lists. Feeds, lists and
  subscriptions are checked against the bans under one lock and applied under another.
* **Accounting.** A block may be in the store for an entry, for a publication in flight, for
  a session, or for a request still in a channel. A path that forgets one of these leaks
  blocks outside the quota, or deletes those of another.
* **Liveness.** Wake-ups are best effort ticks, and a set remembers what was refused. Two
  publications with equal claims may evict each other for ever. A reader looks at a
  segment and then sleeps. Answers pass through channels that may be full, and through
  queries that may fail.
* **The network.** Gossip loses, repeats and reorders; DHT records expire, and older ones
  come back.
* **Restart.** The index, subscriptions, denylists and settings are reloaded; the catalog and the
  channels between tasks are not. A write may be cut short.

What makes each component right:

* seed index: one entry per manifest; sums that agree with what is retained; pins.
* seed loop: never far above its quota, settles, uses the room there is, cleans up after
  itself.
* purges: take what they must and no more, under every interleaving; what is purged of a
  blocked issuer stays out.
* foreground: a session leaves nothing behind that nobody accounts for.
* streaming: slots are given back, no request sleeps for nothing, what is refused is never
  served, what is wanted arrives.
* moderation: the newest list of each editor still followed is in force, across restarts.
* catalog: the entry of an issuer is its newest valid feed, whatever the order of arrival;
  the newest feed stays to be found.
* reports: bounds hold in both tiers, and the tier of a key follows the set of editors.
* settings: what a completed call changed stays changed.
* event loop: every call gets its own answer, and everything ends with the last handle.
* listeners: a front that was called all its calls shows the node as it was at the last tick, or later.

`PROJECT.json` lists the hazards line by line, with the properties that cover them or the
reason why none does.

## 2. The modules

An arrow points from a module to one that extends it; proofs are in modules of their own.

```
SeedIndex -> NodeState -> SeedLoop, Purge, Viewing -> SeedNode -> MCSeedNode, SeedNodeProofs
                                           SeedNode implements Custody
                                                      SeedNodeProofs -> RetentionProofs

SegmentScheduler, Blockstore -> BlockFetch -> StreamSession -> RangeHeader -> MCStream
                                              StreamSession implements Delivery
                                                               RangeHeader -> StreamProofs

Catalog -> FeedNetwork -> Signing -> MCDistribution <- ReportBook
           FeedNetwork -> FeedNetworkProofs
                          Signing -> DistributionProofs <- ReportBook
           FeedNetwork implements NewestFeed

Denylist -> MCDenylist -> MCNode <- NodeLife, Settings, Listeners
Denylist -> DenylistProofs          NodeLife, Settings, Listeners -> NodeProofs

Lists -> SegmentScheduler, Signing, DataLemmas
DataLemmas -> RetentionProofs, StreamProofs, DistributionProofs
```

### What one node retains

* **SeedIndex**: the index as a set of records; operators for the methods of `SeedIndex`
  and `eviction_order`. `order` is kept as a rank, since it is only compared. `counted` are
  the blocks whose size went into `total_bytes`; `Evictable`, `EvictedBefore` and
  `FirstEvicted` are the filter, the sort and the head of `eviction_order`.
* **NodeState**: the variables all tasks share (the mutexes of `Node`: `subs`, `blocked`,
  `lists`, `catalog`, `index`, `pins`, `quota`, `store`, `provided`), the loop's own
  (`quotaBlocked`, `wake`, `seedNow`), and a record per task whose field `pc` says at which
  `.await` or between which two locks it is.
* **SeedLoop**: `seed_loop` and all it calls. `StartPass` to `EndPass` are `seed_pass`;
  `SkipListed`, `TryListed`, `EndChannel` are `seed_channel`; `EnterRoom`, `RoomFound`,
  `MeasureCandidates`, `NoCandidate`, `PickVictim`, `Evict`, `Refuse` are `make_room_for`
  and its outcomes; `AskModeration`, `AskStore`, `Download`, `NotFound` are `get_with`; the
  commit is three steps (`ReadBan`, `ReadIntent`, `Commit`), because the code takes three
  locks one after the other; `Snapshot` and `Delete` are `remove_unshared_blocks`;
  `TakeNamed` and `EndNamed` are `seed_watched_publication`.
* **Purge**: user operations on the sets, and the tasks that purge. `subscribe` is two
  steps, and so is a feed: `FeedChecked` looks at the bans, `FeedApplied` or `FeedDropped` is what
  `Catalog::apply` makes of it later, whatever was banned meanwhile (`hearing`). The purge of one issuer is `PurgeCatalog`, `PurgeIndex`, `ReadRemaining`,
  `StopProviding`, `PurgerSnapshot`, `PurgerDelete`; unsubscribing shares its tail.
* **Viewing**: foreground tasks, as described at its head. The race between `FinishWatch`
  and `CloseWatched` is the one that the token `seed_claim` decides.
* **SeedNode**: the node that runs all of them, with restarts and reannouncements; the
  specification, its fairness and its properties.
* **Custody**: what the node promises of what it keeps, over nine variables: on what
  ground content is offered (a feed is let in by the bars of the moment, `Hear`, and offers later, `Offer`), on what
  ground it begins, that it takes nothing it has not begun nor what it keeps already, and why something goes. SeedNode maps its state to
  it: a session and a request in `seed_now` *name* a publication, which the loop looks at again, a
  candidate of a pass and a foreground download are *begun*, which it does not; a denylist or a block
  *purges* the issuers it has selected, an unsubscription never does.

### A streaming session

* **SegmentScheduler**: `stream/scheduler.rs`. `Request` is a request of a reader, `TakeWanted`,
  `TakeAhead` and `TakeNothing` the outcomes of `next_to_fetch`, `MarkPresent`, `MarkRefused`
  and `MarkFailed` its other operations. The clock is one step, `CoolDown`: a failure is
  `Cooling` until `RETRY_DELAY` has passed and `Failed`, eligible again, from then on.
* **Blockstore**: a file that is missing, good or rotten; `has` looks for it, `get` looks at it.
* **BlockFetch**: the task that fetches one segment (`get_with_inner`): moderation, store,
  providers of the manifest, providers of the block, cold fallback with a moderation check of
  its own; what is put under which policy, and the repair of a rotten block. `List` and
  `RemoveBlock` are the rest of the node.
* **StreamSession**: `fetch_loop` (`Claim`, `JoinBytes`, `WriteFile`, `JoinFailed`,
  `JoinPanicked`, `Notify`, `Woken`, `RetryTimer`), the requests for segments (`Ask`,
  `ReadLocal`, `Look`, `SeeChange`, `Serve`, `Timeout`) and `Close`.
* **Delivery**: what a session promises of its downloads: one at a time for each segment,
  never again once the session has it, and none begun after a refusal. A download is a
  tokio task there, not a mark of the scheduler.
* **RangeHeader**: `parse_range` and the slice that is sent, over every header and length.

### Feeds between nodes, and reports

* **Catalog**: a feed (its issuer, its number, whether `verify` accepts it), `Admits` and what
  `Catalog::apply` makes of it.
* **FeedNetwork**: nodes that all run this code. `Publish`, `PublishUnwritten` (the write of `.feed_seq`
  fails, and the feed goes out all the same), `ApplyOwn`, `PutOwn`, `SendOwn` are `publish_feed_with`; `Hear`, `ApplyHeard` are `handle_feed_message`; `Answer`, `AnswerPartly`,
  `ApplyFetched` are `fetch_feed_inner`, on behalf of `Fetch`, `ResolveChannel` (with the
  preview that is not applied, `ShowPreview`), `SearchTag`, `FollowPass`; `Bar`, `Purge`,
  `Unblock` are bans; `KeepPass`, `KeepPut` are `republish_known_feeds_inner`. The
  environment loses, repeats, reorders, expires and replays (`Replay`, `Expire`), and nodes
  restart.
* **NewestFeed**: what that promises: an issuer numbers its feeds upwards, as long as it can save the number, and what a node
  shows of an issuer is a number that was signed and that only grows, until the node forgets it.
* **Signing**: `signing_bytes` of feeds, denylists and reports: `Fields` are the arguments of the calls
  of `push_field`, in their order, `Push` is what these calls make of them, `Content` is what a
  document says once its order is set aside.
* **Lists**: `Vec::retain` and bytes put one after the other, as recursive functions that the
  proofs can unfold. The scheduler and the signatures use them.
* **ReportBook**: `report.rs`. `HearReport` and `EmitReport` insert, `Retrust` is the sorting by a
  new set of keys: two drains, one each way, then the insertions under the bounds.

### What a node runs and keeps

* **Denylist**: how lists reach a node and stay in force. The followed editors, the list in
  force of each, the cache, the trusted keys of the report book, and the DHT records
  (of this node and of others). Calls and the follow loop are workers with a `pc`:
  `SubscribeList`, `Register` and the rest are `subscribe_denylist`, `Follow` is
  `subscribe_denylist_issuer` and the fetch it spawns, `Unfollow`, `Uncache`, `Lift` are
  `unsubscribe_denylist_issuer`; `ReadEditors` and `Retrust` are `retrust_reports`; `Answer`,
  `Check`, `Apply`, `Cache`, `PurgeContent` are `fetch_denylist_inner`, whose order of
  cache and purge is the opposite of that of a list applied by hand; `PurgeFails` and `CacheFails` are
  their errors. `Newest` is the choice
  among the answers. `Republish...` is the second half of `republish_known_feeds_inner`.
* **NodeLife**: the calls of those who hold a handle, the bounded channel, the event loop
  and the background loops. A command is known by how it is answered (at once, never, by the
  first address, by the last result, by the result of a query, by a response); `AnswerNow`,
  `TakeTold`, `Refuse`, `StartWork` are `handle_command`, `NewAddress`, `ResultFound`,
  `WorkEnds` are `handle_event`; `Return` starts the maintenance loop once; `LoopRound` is
  where a background loop looks at the handles; `Stop` is `recv` giving `None`.
* **Settings**: each setting in memory and on disk. `Change` is the change under its lock,
  `Cut` and `Fill` are `std::fs::write`, `WriteFailed` its failure, `Keep` the profile's change
  of the memory after the file; `Rebuild` is a stop at any point and the next `Node::build`.
* **Listeners**: changes, the tick that a task sends afterwards (`SendTick`) or does not come to, or never sends
  (`EndUntold`), the broadcast channel that keeps the last ticks,
  the task of a listener (`ReceiveTick`, `ReceiveLagged`, `ReceiveClosed`) and the front that
  reads again.
* **MCNode** runs Denylist, NodeLife, Settings and Listeners as four parts that share no state,
  one in each behaviour.

Modules share a variable where the code does. SeedNode says what a list bans (`lists`),
Denylist which list it is; SeedNode says what a catalog offers, FeedNetwork how it comes to;
Viewing says what a session leaves in the store, StreamSession how it is played.

### Abstractions

* Sizes, CIDs and issuers are model values; a manifest is parsed to the sequence
  `Segments[m]`, and a CID of `Bare` is one that does not parse as a manifest.
* In SeedNode, Denylist and FeedNetwork a dotfile is written while the lock of what it holds is
  taken, so disk equals memory, but for `.feed_seq` in FeedNetwork and the cached lists in Denylist, whose
  failing writes are modelled there. Torn and failing writes of the files that this document calls settings are in Settings.
* What the DHT answers about replication is a choice in `Repl[c]`, plus one when this node
  announced `c`, since `get_providers` counts it. `Unreliable` CIDs may not be found.
* In SeedNode a denylist is in force or lifted, and a feed replaces what the catalog held; the
  versions of lists are in Denylist, those of feeds in FeedNetwork. Which
  feed is newer, and whether the catalog is full, is a choice there (`FeedApplied` or `FeedDropped`).
* In Denylist a list is its `seq`; two lists that an editor signed with the same `seq` are one.
  Everything stored verifies, and its issuer is the key it is stored under. A purge is one step
  that changes nothing there, or fails: it is an await before, or after, the cache is written. `uncached` is history:
  the editors whose last list to be saved was given up.
* A feed is its issuer, its number and whether it verifies: titles, tags and profile are
  data. Two feeds of one issuer have one number only where the write of its highest one failed (NewestFeed); the
  model does not tell them apart, as `Catalog::apply` does not: whoever has the first keeps it, and what CatchesUp and
  KeptOnOffer say is said of numbers. `high`, `again` and `unsaved` are history. Gossip is the
  set `air` of what was ever sent: a node may hear any of it, at any time, again, or never. A
  query reads the records of all nodes, or of some when answers are lost, and is used later.
* That kad's `put_record` stores locally what it puts, and that a query returns the record of this
  node along with those of others, is how libp2p behaves and not code of the repository.
* The ticks of two broadcast channels that wake the seed loop are one Boolean: they have the
  same effect, and a receiver that lags behind still wakes. Where lag matters, it is in Listeners.
* The deletion of several blocks after one look at the index is one step; so are the
  `stop_providing` of one purge, and one reannouncement.
* In Viewing a session fetches one segment at a time, and may be closed with that fetch
  unjoined; the loop with its parallel fetches is in StreamSession. Two sessions may be
  on one manifest, each with a token of its own; the runs that close sessions have one.
* The timers of the seed loop (`Tick`) and of a session (`RetryTimer`) fire only when no other
  branch of the `select!` is ready; a later branch is as good a start of a pass.
* In StreamSession the connections of the player are alike: `Ask` takes a free one. Of the answers
  only a 403 is remembered, since 200, 500 and 503 promise nothing about the next request.
  Closing the session ends the behaviour. `gone` and `barred` are history: the blocks that
  something else removed, the segments listed before a task had passed its check.
* In NodeLife the FIFO channel holds what waits for a place too: entries beyond `Capacity` are
  senders that wait, as tokio's semaphore serves them in order. Ids of libp2p are never
  used twice; the model takes one again only when nobody knows it. `follow_loop` stands
  for `seed_loop`, which looks at the handles and sends commands in the same way.
* In Settings `told` is what completed calls may count on. A setting that is locked is
  written by one call at a time; of the others (quota, profile, flags) two calls that overlap
  may mix what they write, and then nothing is promised.
* In Listeners there is one channel and one listener of one kind. What a front reads is
  the number of changes of a subject so far; `announced` is what that was at the last tick.
* In Signing a `u64` is one byte and a text is a sequence of bits, of up to two: lengths and texts
  are written with the same bytes, as in the code. The order of the entries of a list that is sorted
  before it is signed is no part of its content. The check is of operators; it is repeated in each state.

### Bounds

`MaxOps` bounds the operations of the user and the arrivals of feeds, lists and restarts
(4 or 5 in a run of SeedNode). Steps of tasks, reannouncements and the decision to close a
session are not bounded; no variable grows without one of the bounded operations.
`NowCapacity` is 1 in the runs (64 in the code), so that the channel does fill up. `Allowed`
selects the operations of a run.

* `stream`: two segments, each as long as the lookahead, so that the window is the playhead and
  the next one; one fetch at a time (`MaxInflight`), so that slots are contended for; two
  connections, two requests, one fault (a segment listed, a block removed, or a task that panics).
  The store holds segment 1 and it is rotten; segment 0 has a provider, segment 1 need not;
  both policies. Blocks of up to 4 bytes for ranges.
* `distribution`: two nodes and a stranger, two numbers, a catalog bound of one issuer so that it
  is full, four operations or faults chosen from one of four scenes (bans; faults of the author
  and of the records; a number that is not written, and a restart; a crowd and lost answers). What is heard, fetched and put again is
  not bounded. The report book: three CIDs, four reporters of whom two are editors, tiers of
  one and two CIDs, one reporter for each CID in the second, six reports and changes.
* `denylist`: lists: two editors of whom one is the project's, two numbers, this node and one more
  that stores records, the follow loop and one call, 3 operations or failures (of a purge, of a write). Calls: two users that listen or
  ask for blocks, a channel of one place, three ids, two calls. Settings: two callers, two items of which
  one is compulsory, two values, one bootstrap address, two changes. Front: two tasks that change,
  two subjects, a channel that retains one tick, two changes of each subject.

In all of these a second of each kind is what a race needs, and a bound of one makes
channels, pools, tiers and catalogs full.

## 3. The runs

All instances of SeedNode have two channels, two manifests of one segment each and blocks of size 1.
Two publications suffice to compete for a quota, be victim and candidate, or share a segment;
a third would be a second victim.

| run | instance | shows |
|---|---|---|
| `seed_safety` | two interchangeable foreground tasks, one purging task, pins, blocks, denylists by key and by CID, restarts, a feed with a CID that is no manifest, a segment that may not be found; quota 3; 4 operations | `TypeOK`, `IndexedOnce`, `ImplementsCustody`, `PinnedStays`, `PurgedStaysOut` |
| `seed_watch` | watched sessions, unsubscribing, quotas 2 and 3, replication 1 or 2 elsewhere, failing downloads; 5 operations | `NoOrphanManifest`, `CommitWithinQuota` |
| `seed_liveness` | two subscriptions that compete, quotas 3 and 4, sessions on subscribed channels, fair tasks; 5 operations | `Dampened`, `RoomIsUsed` |
| `stream` | a session, as above | `TypeOK`, `SlotsAreTasks`, `NobodyWaitsInVain`, `ForbiddenIsFinal`, `PresentIsReadable`, `ListedNeverArrives`, `SliceIsWhatWasAsked`, `ImplementsDelivery`, `PlayheadArrives`, `DemandIsTaken` |
| `distribution` | feeds between two nodes, or a report book | `FeedTypeOK`, `SentIsAccepted`, `BannedStaysOut`, `ImplementsNewest`, `CatchesUp`, `KeptOnOffer`; `BookBounded`, `TiersMatchKeys`, `NothingLostForNothing`; `SignedMeansOneThing` |
| `denylist` | lists, calls, settings, or a front | `TypeOK`, `OfflineProtection`, `ProjectHolds`, `Converges`; `AnswersAreOwn`, `OneMaintenance`, `EveryCallReturns`, `StopsWhenDropped`; `ChangesLast`; `FrontIsCurrent` |
| `shared_segment` | `m2` contains the segment of `m1` | violates `IndexedIsHeld` |
| `closed_session` | one watched session | violates `NoOrphanBlock` |
| `banned_issuer` | a restart, then a denylist | violates `BannedArePurged` |
| `watched_yields` | a watched publication and a subscribed one, room for one | violates `WatchedYields` |
| `orphan_list` | one editor, the loop and one call | violates `ForgottenAtRest` |
| `stale_trust` | one editor, two calls | violates `TrustAtRest` |

Between them the passing runs take every action of every module. Deadlock is not checked: once the
operations are used up and the tasks are idle a system without sessions may rest, a closed session
ends, and so does a node whose handles are dropped. Symmetry
is declared for the foreground tasks of `seed_safety` only, a run without liveness.

What one node retains:

* **IndexedOnce**: `insert` does not look for duplicates; three callers do, each under the
  lock.
* **PinnedStays**: an action property with its two exceptions spelt out: a purge for
  moderation overrides pins, and `evict_publication` does not look at the pins again after
  its victim was chosen.
* **PurgedStaysOut**: once nothing of a blocked or banned issuer is retained or offered, and nothing
  that was begun for it is under way (`Late`: a feed that was checked and is not applied yet, a candidate of the current pass, the commit of a
  watched publication, a download in the foreground), nothing of it is offered or retained again until the ban is
  lifted. The exceptions are those of the code: subscriptions and bans are read before the lock of the index is
  taken, a feed may be copied before the ban, and `subscribe` records after its check.
* **ImplementsCustody**: the refinement of Custody. It relates an entry to the ground on which its task began, which may be
  many steps and several tasks earlier, and a victim to the pins of the moment it was chosen. The foreground tasks of this run download and
  ingest; with watched sessions as well it takes more than the five minutes of a run, and the theorem covers them.
* **NoOrphanManifest**: a manifest in the store is listed by the index, or some task, or a
  request in `seed_now`, will still index or remove it. Stated for manifests: `closed_session`
  shows that it is false of segments. Checked and proved without the
  operations for which the code has no clean-up at all (section 4), among them restarts and plain downloads.
* **CommitWithinQuota**: room is checked before each block, whose size is not known yet, so
  a commit may overshoot, by less than one block. Quotas and the index change under it.
* **Dampened**: nothing evicts for ever. It needs that an eviction withdraws no announcement:
  if it did, the victim's count would drop below that of the candidate it made room
  for, and the two would swap at every pass.
* **RoomIsUsed**: whenever a subscribed channel lists a publication that fits, it is indexed,
  or no longer wanted, or no longer fits, infinitely often. This covers lost wake-ups, a
  `quota_blocked` that is not cleared and channels that a pass never reaches.

A session:

* **SlotsAreTasks**: what the scheduler counts as in flight is what the loop has a task to join
  for, also when a task panics.
* **NobodyWaitsInVain**: a request subscribes to changes before it looks, and looks again after each; the loop
  tells all of them after each change. So whoever sleeps with nothing new to see waits for something
  that may still come. **PlayheadArrives** and **DemandIsTaken** are its counterparts in time: with a
  provider, the segment at the playhead arrives, and what a request asked for is fetched, however busy
  the slot is.
* **ForbiddenIsFinal**, **ListedNeverArrives**: a 403 is only given for what is not there and never comes, and
  what is listed before a fetch begins, or before the archive is asked, never comes.
* **PresentIsReadable**: what is marked present can be served, with two exceptions that the code has: a block removed
  under the session, and a block that the archive delivered under the policy `Stream` while the store holds it rotten.
* **ImplementsDelivery**: the refinement of Delivery.
* **SliceIsWhatWasAsked**: for every header and length, the bytes sent are those that HTTP asks for, never beyond the block.

Feeds, reports and signatures:

* **SentIsAccepted**: the number is used up before the bounds of a feed are looked at; still nothing
  is sent that another node would reject.
* **BannedStaysOut**: as `PurgedStaysOut`, for the catalog: a feed is checked and then applied, and one may outlive
  a purge. Once the checks of before the ban are through, nothing comes back.
* **ImplementsNewest**: the refinement of NewestFeed. It relates the number of a publication to all that were signed before,
  over concurrent publications, failed writes and restarts: a number is given again only where the highest is not in the file.
* **CatchesUp**: a subscriber that hears no gossip shows the newest feed that stays on offer.
  **KeptOnOffer**: as long as somebody who shows the newest feed republishes it, it comes back to the DHT.
* **BookBounded**, **TiersMatchKeys**, **NothingLostForNothing**: a change of editors moves many reports between
  tiers with bounds of their own, and gives the places that it frees away first.
* **SignedMeansOneThing**: no two documents with different contents have the same bytes.

A node:

* **ProjectHolds**: the project's editor stays followed, and no call, replay or late answer
  puts an older list of it in force; a restart goes back to what is cached.
* **OfflineProtection**: when no call is under way for the project's editor and one of its lists
  is in force, some list of it is on disk, unless the call that was to save one gave up: its purge failed before (an
  error of the store, at which `subscribe_denylist` returns), or the write did. It does not say which list: the purge of a list applied by hand
  awaits before the cache is written, the loop may cache a newer one meanwhile, and the older
  one then replaces it on disk. That is reached in the run, and recorded as a hazard.
* **Converges**: infinitely often, an editor who is followed has in force a list at least as
  new as any that is stored, if it stays followed.
* **AnswersAreOwn**, **EveryCallReturns**: a call gets the answer to its own question with all that its query
  found, and it gets one, through a full channel and with queries that fail. The exception is a
  `listen` whose listener dies before it has an address: `ListenerClosed` is not handled.
* **OneMaintenance**, **StopsWhenDropped**: one maintenance loop, and the end of all loops with the last handle,
  though each loop holds a sender of the channel that keeps the event loop alive.
* **ChangesLast**: what a completed call has changed is in force until it is changed again, over concurrent calls, failed
  writes and restarts, unless a write of its file was cut short.
* **FrontIsCurrent**: a front that was called all its calls, though its listener lost ticks, shows the node
  as it was when the last tick was sent, or later. The exception is a session whose last tick was lost. Changes that send
  no tick wait for the next one.

### Fairness

Weak fairness of `SeederStep`, `PurgerStep(u)`, `ViewerStep(v)` and `SubscribeRecord(i)`:
tokio polls a task that is ready, each `.await` of these tasks is on a lock, on the event
loop's answer or on a timeout, and the timer of the seed loop always fires. The
environment owes nothing: no operation, feed, restart, or closing of a session is fair, and
neither is the outcome of a download (in `seed_liveness` nothing is unreliable: with a
provider that never answers the code promises nothing).

The same reasons justify weak fairness of the loop of a session, of each of its fetch tasks, of the retry delay
and of each request (but neither of asking nor of a timeout); of the follow and maintenance
loops of each node and the steps of their fetches; of the event loop, of what libp2p runs (queries
and requests have timeouts; a listener gets an address or dies), of the senders that have their
place in the channel and of the background loops. Users, faults, expiries and restarts are not fair.

In Denylist, weak fairness of every worker's `Step` and of the loop's passes, for the same
reasons (`follow_interval` always elapses), and strong fairness, for each editor, of an answer to
the loop that all storers contribute to: the loop asks for ever, and a DHT that never gives
the newest record away leaves nothing to converge to. Puts, expiries and restarts are not fair.

### What the violations say

Each quotes a comment or a document in `PROJECT.json`.

1. `shared_segment`: `remove_unshared_blocks` asks the index which blocks are still needed;
   the publication in flight is not in it yet. An eviction on its behalf may remove a
   segment that it shares with the victim. It is then indexed without that block, and
   skipped from then on.
2. `closed_session`: `abort_fetch` waits for `fetch_loop`, not for the tasks in its
   `JoinSet`. One that has put its block is not `Present` yet, so that the purge of the
   session does not list it.
3. `banned_issuer`: a denylist's purge looks for banned issuers among the entries of the
   catalog, which does not survive a restart; the index does.
4. `watched_yields`: the eviction order puts unsubscribed publications first, but the
   comparison against oscillation then keeps them, unless they are better replicated than
   the subscribed candidate.
5. `orphan_list`: `fetch_denylist_inner` looks at the followed editors and applies the list under two
   locks, one after the other. An unfollowing in between leaves the list in force, with
   no editor to lift it, until the next restart.
6. `stale_trust`: `retrust_reports` copies the editors under one lock and hands the copy over
   under another. Of two concurrent changes, the older copy may come last.

### Noticed while modelling

Behaviours that the models have and no run of their own shows; where a property meets one, the
property names it as its exception.

* Streaming: the cold fallback does not repair a rotten block under the policy `Stream`
  (`p2p.rs:3788`), and `local_bytes` (`stream/mod.rs:154`) then prefers the block to the file of the session: a
  500 for a segment that was downloaded. `local_bytes` serves a block without a look at the
  moderation. A segment that was present is not fetched again when its block goes.
  A request that was claimed and failed is not put back on the list (`stream/scheduler.rs:120`): it is retried
  only within the window, or when it is asked for again.
* Feeds: a node stores a record whatever number it holds already (`p2p.rs:5083`). The own issuer is subject
  to the bound on issuers of the catalog, though the comment at `p2p.rs:1578` counts on the feed being there. After a restart an author
  does not republish its feed before its next publication, which makes the other holders matter
  (`KeptOnOffer`). A feed that was checked before a ban and is applied after its purge fills the catalog of a barred issuer again,
  until the next purge or restart. A `.feed_seq` that cannot be written is only logged (`p2p.rs:1571`) and the feed published: after a restart
  its number is given again, and nodes that have the first feed ignore the second; a file that was cut short reads as its first digits,
  or as 0. A number is used up by a feed that is out of bounds.
* Denylists: where the purge of a list applied by hand fails (`p2p.rs:1316`), or the write of its cache, the list is in force
  and not on disk. Applying it again does not save it, nor does fetching it, since it is stale by then.
* Calls: a `listen` whose listener dies never returns (`p2p.rs:5006`). `follow_loop`'s plain sleep
  (`p2p.rs:3237`) delays the end of a node by up to one interval.
* Settings: quota, profile and flags are written without a lock; the files of settings are rewritten
  in place, while cached denylists are renamed into place (`moderation.rs:379`); a call that fails
  to write leaves the memory changed; `add_bootstrap` looks at its bound before its lock, and what is beyond it
  is cut at the next start; a failed removal of a subscription by `block_channel` is only logged.
* Listeners: the listener of streams (`ffi.rs:747`) and the loop of `gui.rs` go on after lost ticks without reading again.
  No tick is sent for an eviction after which the candidate is not committed (no room, a failed fetch, an issuer no longer wanted),
  for a pin, a quota, an unblocking, nor where a call returns an error once the memory has changed (`p2p.rs:1311`, `1316`,
  `1402`, `1444`).

## 4. The proofs

Seven modules prove the theorems below, for any sets of channels, manifests, segments, nodes, editors, users
and tasks, any sizes, feeds, lists, scenes and bounds that satisfy the assumptions named in the modules
they extend; an eighth, `DataLemmas`, has the facts about data that they share. TLC evaluates those
assumptions in the runs. Every safety property that a passing run checks, invariant or action property, is
stated by one of them, and so are the three refinements.

| module | theorems |
|---|---|
| `SeedNodeProofs` | `TypeCorrect`, `NeverIndexedTwice`, `PinsAreKept`, `PurgedIsOut`, `NodeKeepsPromise` (the refinement of Custody) |
| `RetentionProofs` | `QuotaIsKept`, `NothingIsLeftBehind` |
| `StreamProofs` | `SessionTypeCorrect`, `NoSlotIsLost`, `PresentCanBeServed`, `ListedStaysOut`, `SessionDelivers` (the refinement of Delivery), `RefusalIsFinal`, `NoWakeupIsLost`, `SlicesFit` |
| `FeedNetworkProofs` | `FeedTypeCorrect`, `PublicationsVerify`, `CatalogsOnlyAdvance` (the refinement of NewestFeed), `BansHold` |
| `DistributionProofs` | `BookStaysBounded`, `BookIsSorted`, `BookForgetsNothing`; `SignedBytesAreRead`, `SignaturesAreUnambiguous` |
| `DenylistProofs` | `TypeCorrect`, `ProtectedOffline`, `ProjectIsKept` |
| `NodeProofs` | `LifeTypeCorrect`, `AnswersReachTheirCalls`, `MaintainedOnce`; `SettingsTypeCorrect`, `SettingsLast`; `FrontTypeCorrect`, `FrontCatchesUp` |

Each follows one pattern: an inductive invariant that adds to the type, or to the property, what
the `pc` of a task implies about its local state; one lemma for each group of actions; the step
from the invariant to the property; for an action property or a refinement, a lemma that says
which actions change what it is about.

* **SeedNodeProofs**. `TypeOK` is not inductive: `Needed` is only a block while `done` is short of the length of
  the publication, `Insert` only yields a publication if the task that calls it knows its
  issuer and manifest. `Inv` adds `SeederInv`, `ViewerInv`, `PurgerInv`. Lemmas about the operators
  come first (`BlocksType`, `InsertType`, `RemoveType`). `IndexStep` says which actions change the index, and how: by an insertion whose guard
  excludes a duplicate and which was begun for its issuer, by a removal, or not at all. `NeverIndexedTwice` and
  `PinsAreKept` follow from it; the latter needs that a purge which is under way knows its kind.
  `PurgedIsOut` needs that nothing begins late: `AtRest` says that between attempts the loop has no candidate,
  `SeederLate` that it takes one only from a catalog that offers it, `CatalogStep` that a catalog is
  filled only by a feed that was pending, `PendingStep` that one comes to be so only for an issuer that is not banned, `ViewersStep` the same of foreground tasks.
  `NodeKeepsPromise` has a lemma for each kind of step of Custody (`FeedOffers`, `SeederConsiders`, `CommitTakes`, `EvictDrops`, `RegisterTakes`,
  `PurgeIndexDrops` and so on), and `CustodyParts` says which variables each part of the mapping rests on. It needs of the
  invariant that a task which ingests does so for the node itself, that a purge which goes through the catalog is one for
  moderation, and from `VictimStep` that a task only comes to `evict` with a victim that is no pin.
* **RetentionProofs**. Both theorems restrict `Allowed`, each by operations that break the property one at a time
  (TLC finds a violation with each of them added alone), so that neither restriction can be dropped.
  `QuotaIsKept` is for a node that downloads and ingests nothing in the foreground: `register_seeded_publication` and `ingest_file`
  index with no look at the quota. Restarts, sessions, pins, purges and denylists are in. `QuotaInv` says that what
  an attempt has fetched fits below the quota that `make_room_for` read, until its last block; it survives the steps of the others because
  only the commit makes the index heavier (`OnlyTheLoopInserts`, `IndexShrinks`), and it is about sums over sets of blocks,
  whose laws are the lemmas `Sum...` of DataLemmas.
  `NothingIsLeftBehind` is for a node with subscriptions, unsubscriptions, feeds, watched sessions, as many as one likes and on
  one manifest or several, blocks, denylists, quotas and reannouncements, but no restart (sessions and requests are
  lost), no pin (a pinned manifest survives the close and then loses its pin), no download in the foreground or
  session on a subscribed channel (what fails or is left halfway has no cleanup) and no ingestion. `NoOrphanManifest` is not
  inductive, since it counts what tasks have seen rather than what they will do. `Minded` says who will: the index, an
  attempt past its manifest, a request in the channel, a session, or a cleanup that has not deleted yet. For each
  group of actions a lemma shows that whoever stops minding a manifest hands it on or has deleted it.
* **StreamProofs**. The invariant is `SlotsAreTasks` with the types of what it speaks of, and what a task in
  `write` has in hand. `ListedStaysOut` needs that what is barred has no task beyond its last check; `RefusalIsFinal` and
  `NoWakeupIsLost` that a request only leaves `look` with what it has seen under the lock.
  `SessionTypeCorrect` adds what the vectors of the scheduler are indexed with, the queue of the readers included (`TakenOut`,
  `LeftOver`). `SlicesFit` goes through the forms of a header (`EveryHeaderExact`), for a block of any length.
* **FeedNetworkProofs**. `Inv` says that both copies of the number of a node agree with the highest number it signed,
  unless a write of it failed (`NumbersAgree`, `NumberTaken`), and that nothing anywhere (catalogs, records, gossip, what is heard, fetched or to be put again) has
  a number that was not signed (`CatalogsOld`, `AirOld`, `EarsOld`, `KeepersOld`, `TasksOld`). The lock on `feed_seq` gives the first, `Catalog::apply` the rest of the refinement.
* **DistributionProofs**. Of the report book, the bounds are shown of `retrust` with cardinalities of finite sets; a report that
  is lost is one which does not fit into what is left once the drains are over.
  Of the signatures, `SignedBytesAreRead` says of documents of any size (texts over any bytes, any number of entries, tags, tools, CIDs
  and keys, lengths below 2^64) that the same bytes are the same document. `push_field` is `SelfDelimiting` (`PushedTold`), what such a code makes of a
  list is told apart by an induction over its length (`ListsTold`, `FlattenedTold`); so the fields are told from the bytes, and the parts
  from the fields, entry by entry (`EntriesTold`), as a count precedes what repeats. `SignaturesAreUnambiguous`
  is the property of the run: as many signed bytes as contents.
* **DenylistProofs**. `OfflineProtection` holds of states at rest, so the invariant must say what is true of the
  others: `Cached` says that a list of the project in force is in the cache, or that a worker
  which `WillCache` has it in hand, or that the last to have one gave up (`uncached`). `WorkerInv` adds what the `pc` of a worker implies: it
  holds a list where it is about to apply or cache one, and only an unfollowing, never of the project's
  editor, lifts one.
* **NodeProofs**. In the calls, a question is in one place at a time: in the channel (`Queued`), or in what the event
  loop has pending under the id that the call knows (`Answered`), with all that its query found so
  far (`Gathers`); an id nobody waits for is `Silent`. `Started` links the flag, the loop and the count.
  In the settings, a call that is about to write holds the lock and writes what the memory holds now (`Locks`, `Sound`); `True` says of
  each promise that memory and file keep it, unless the file is cut.
  In the front, where it is behind the last tick (`FrontTold`), a call not yet followed or a tick on its way will tell it; that a tick gives way only to a newer one is `MakeRoom`.
* **DataLemmas**. What the operators over data compute, for every input. The library's induction theorems take an operator
  as a parameter and cannot be used; here an induction is made over the set of numbers, or of finite sets, for which its claim holds
  (`NatSetInduction`, `FiniteInduction`), from the first-order fact that the numbers are well founded. A recursive function is
  unfolded first (`SumUnfold`, `RetainedUnfold`, `FlattenedUnfold`).

The assumptions are those of the modules; most say that bounds are numbers and that sets of names are apart. `CidsFinite` of SeedIndex
says that CIDs are finitely many, as digests of a fixed length are; sums over blocks need it.

Only model-checked: everything about liveness (`Dampened`, `RoomIsUsed`, `PlayheadArrives`, `DemandIsTaken`,
`CatchesUp`, `KeptOnOffer`, `Converges`, `EveryCallReturns`, `StopsWhenDropped`), which with ENABLED is out of the
prover's reach. The six properties of the runs that end in a violation are false, and there is nothing to prove.

## 5. What is not modelled

See the components of `PROJECT.json` with their reasons. In short:

* libp2p: Kademlia, gossipsub, Identify and mDNS are external. What the code does with their events is modelled.
* The gateway of the cold backend is one more source of bytes; its HTTP is external.
* Parsing and building manifests, playlists, links and paths, and the identity file: functions of
  bytes, with no state that changes at run time. The program that cuts a file into segments is external.
* Text search, titles and tags: they read the catalog and change nothing.
* The CLI, the daemon, bootstrap and relay servers and the desktop fronts forward calls of `Node`, or run a swarm with no
  protocol state of this project. The FFI facade converts types; its listeners are modelled.
* Two sessions on one manifest at once, the announcement of
  blocks one by one while purges remove them, the sharding of the blockstore into directories.

## 6. Plan

1. *(done)* SeedIndex, NodeState, SeedLoop, Purge, Viewing, SeedNode; types and three safety properties proved.
2. *(done)* **Denylist**; **FeedNetwork** with NewestFeed; **ReportBook**; **Signing**.
3. *(done)* **BlockFetch**, **StreamSession** with Delivery, **RangeHeader**.
4. *(done)* **NodeLife** (calls, event loop, maintenance), **Settings**, **Listeners**.
5. *(done)* **Custody**, an abstract specification that SeedNode refines; `NoOrphanManifest`, `CommitWithinQuota` and what is
   signed, proved.
6. Two sessions on one manifest; reannouncement block by block against purges.
