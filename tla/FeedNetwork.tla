------------------------------ MODULE FeedNetwork ------------------------------
(***************************************************************************)
(* How signed feeds reach the catalogs of nodes that all run this code:    *)
(* gossip, the records that the nodes store for the DHT, the follow loop,  *)
(* the republication of the maintenance loop, subscriptions, bans and      *)
(* restarts (p2p.rs, catalog.rs, feed.rs).                                 *)
(*                                                                         *)
(* Gossip may lose, repeat and reorder: air is what was ever sent, and who *)
(* hears it when is not said.  A put reaches the node itself and some of   *)
(* the others; a query reads every node at one moment, or some of them     *)
(* when answers are lost, and its answer is used later.                    *)
(*                                                                         *)
(* subs and blocked are in dotfiles, written while their lock is held: the *)
(* writes of these that fail are in Settings, those of the number here.    *)
(* blocked is is_key_blocked_inner: the keys blocked here or banned by a   *)
(* denylist in force.                                                      *)
(***************************************************************************)
EXTENDS Catalog

CONSTANTS
    Node,           \* the nodes, each an issuer too
    Call,           \* calls of the users and tasks they spawn
    Home,           \* Home[t]: the node that t belongs to
    Allowed,        \* what may occur in one behaviour: sets of <<operation, worker, issuer>>
    Noise,          \* feeds that other peers send, forged ones included
    MaxOps,         \* bound on operations and faults
    NoIssuer

Operation == {"publish", "unwritten", "hear", "subscribe", "unsubscribe", "fetch", "resolve",
              "search", "block", "ban", "unblock", "replay", "expire", "lose", "restart"}

ASSUME NetworkAssumption ==
    /\ Node \subseteq Issuer /\ NoIssuer \notin Issuer
    /\ Call \cap Node = {} /\ Home \in [Call -> Node]
    /\ Allowed \subseteq SUBSET (Operation \X (Call \cup Node) \X Issuer)
    /\ Noise \subseteq Feed
    /\ \A f \in Noise : f.issuer \in Node => ~f.ok
    /\ MaxOps \in Nat

VARIABLES
    seq,            \* feed_seq
    saved,          \* .feed_seq on disk
    high,           \* high[i]: the highest number that i signed a feed with (history)
    again,          \* again[i]: how often i took a number it had taken before (history)
    unsaved,        \* the nodes whose highest number is not in the file (history)
    catalog,
    record,         \* record[n][i]: the number of the feed of i that n stores for the DHT
    subs, blocked,
    air,            \* the feeds on the gossip topic
    task,           \* the calls, and under the name of a node its follow loop
    ear,            \* a feed that the event loop has checked and not yet applied
    keeper,         \* what the maintenance loop has still to put, <<issuer, number>>
    may,            \* what occurs in this behaviour, a member of Allowed
    ops             \* operations and faults so far

numbers == <<seq, saved, high, again, unsaved>>
nodeVars == <<numbers, catalog, subs, blocked>>
vars == <<nodeVars, record, air, task, ear, keeper, may, ops>>

\* Worker n is the follow loop of node n.
Worker == Call \cup Node

NodeOf(w) == IF w \in Node THEN w ELSE Home[w]

Work(pc, i, q, ok, todo) == [pc |-> pc, issuer |-> i, seq |-> q, ok |-> ok, todo |-> todo]
Idle == Work("idle", NoIssuer, 0, FALSE, {})
NoFeed == [issuer |-> NoIssuer, seq |-> 0, ok |-> FALSE]

TaskState ==
    [pc: {"idle", "next", "ask", "preview", "apply", "own", "put", "send", "purge"},
     issuer: Issuer \cup {NoIssuer}, seq: 0 .. MaxSeq, ok: BOOLEAN, todo: SUBSET Issuer]

NodeTypeOK ==
    /\ seq \in [Node -> 0 .. MaxSeq] /\ saved \in [Node -> 0 .. MaxSeq]
    /\ high \in [Issuer -> 0 .. MaxSeq]
    /\ again \in [Issuer -> Nat] /\ unsaved \subseteq Node
    /\ catalog \in [Node -> Catalogs] /\ record \in [Node -> Catalogs]
    /\ subs \in [Node -> SUBSET Issuer] /\ blocked \in [Node -> SUBSET Issuer]
    /\ air \subseteq Feed

FeedTypeOK ==
    /\ NodeTypeOK
    /\ task \in [Worker -> TaskState]
    /\ ear \in [Node -> Feed \cup {NoFeed}]
    /\ keeper \in [Node -> SUBSET (Issuer \X (1 .. MaxSeq))]
    /\ may \in Allowed
    /\ ops \in 0 .. MaxOps

\* The highest number under which a stranger's valid feed goes round.
Sent(i) == {f.seq : f \in {g \in Noise : g.issuer = i /\ g.ok}}
HighAtStart ==
    [i \in Issuer |-> IF Sent(i) = {} THEN 0
                      ELSE CHOOSE q \in Sent(i) : \A r \in Sent(i) : r <= q]

\* Nodes with empty directories; a run may begin with part of its bound spent.
FeedInit ==
    /\ seq = [n \in Node |-> 0] /\ saved = seq
    /\ high = HighAtStart /\ again = [i \in Issuer |-> 0] /\ unsaved = {}
    /\ catalog = [n \in Node |-> NoFeeds] /\ record = catalog
    /\ subs = [n \in Node |-> {}] /\ blocked = subs
    /\ air = Noise
    /\ task = [w \in Worker |-> Idle]
    /\ ear = [n \in Node |-> NoFeed]
    /\ keeper = [n \in Node |-> {}]
    /\ may \in Allowed
    /\ ops \in 0 .. MaxOps

Occurs(op, w, i) == <<op, w, i>> \in may /\ ops < MaxOps /\ ops' = ops + 1

Begin(t, work) == task[t].pc = "idle" /\ task' = [task EXCEPT ![t] = work]

Goto(w, pc) == task' = [task EXCEPT ![w].pc = pc]

\* A worker is through with its issuer; the follow loop and a search have a list.
Finish(w) ==
    task' = [task EXCEPT ![w] = IF w \in Node \/ task[w].todo # {}
                                THEN Work("next", NoIssuer, 0, FALSE, task[w].todo)
                                ELSE Idle]

FeedOf(w) == [issuer |-> task[w].issuer, seq |-> task[w].seq, ok |-> task[w].ok]

\* is_key_blocked_inner
KeyBlocked(n, i) == i \in blocked[n]

Learn(n, f) == catalog' = [catalog EXCEPT ![n] = Apply(catalog[n], subs[n], f)]

-----------------------------------------------------------------------------
(* Records of the DHT *)

\* put_record stores in the node itself; the others that it reaches store what
\* handle_inbound_kad_request finds valid, without a look at the number they hold.
Put(n, f, reached) ==
    record' = [s \in Node |-> IF s = n \/ (s \in reached /\ Verify(f))
                              THEN [record[s] EXCEPT ![f.issuer] = f.seq]
                              ELSE record[s]]

\* Anyone may put again a feed that was sent once; what does not verify is not stored.
Replay(n, i) ==
    /\ Occurs("replay", n, i)
    /\ \E f \in air : f.issuer = i /\ Verify(f) /\ record' = [record EXCEPT ![n][i] = f.seq]
    /\ UNCHANGED <<nodeVars, air, task, ear, keeper, may>>

Expire(n, i) ==
    /\ Occurs("expire", n, i)
    /\ record' = [record EXCEPT ![n][i] = 0]
    /\ UNCHANGED <<nodeVars, air, task, ear, keeper, may>>

\* The newest of the records of i that the nodes in asked store.
Newest(i, asked) ==
    LET found == {record[s][i] : s \in asked} \cup {0}
    IN  CHOOSE q \in found : \A r \in found : r <= q

-----------------------------------------------------------------------------
(* Publishing: publish_feed_with *)

\* The next number is taken under its lock, whether or not the entries and the profile
\* that it will sign are within the bounds.
TakeNumber(t, n) ==
    /\ seq[n] < MaxSeq
    /\ seq' = [seq EXCEPT ![n] = seq[n] + 1]
    /\ \/ seq'[n] > high[n] /\ high' = [high EXCEPT ![n] = seq'[n]] /\ UNCHANGED again
       \/ seq'[n] <= high[n] /\ again' = [again EXCEPT ![n] = @ + 1] /\ UNCHANGED high
    /\ \E ok \in BOOLEAN : Begin(t, Work("own", n, seq'[n], ok, {}))
    /\ UNCHANGED <<catalog, subs, blocked, record, air, ear, keeper, may>>

\* Mutant of Publish: the number is not written.
PublishUnsaved(t, n) ==
    /\ Occurs("publish", t, n)
    /\ TakeNumber(t, n)
    /\ UNCHANGED <<saved, unsaved>>

\* The number is written with the lock still held.
Publish(t, n) ==
    /\ Occurs("publish", t, n)
    /\ TakeNumber(t, n)
    /\ saved' = [saved EXCEPT ![n] = seq'[n]]
    /\ unsaved' = IF seq'[n] < high[n] THEN unsaved ELSE unsaved \ {n}

\* What may be read where the write of q was cut short: its first digits, or none.
CutShort(q) == {r \in 0 .. q : 10 * r <= q}

\* The write fails, which is logged, and the feed is published with the number: the file
\* is as it was, or it was emptied to be written.
PublishUnwritten(t, n) ==
    /\ Occurs("unwritten", t, n)
    /\ TakeNumber(t, n)
    /\ \E q \in {saved[n]} \cup CutShort(seq'[n]) : saved' = [saved EXCEPT ![n] = q]
    /\ unsaved' = unsaved \cup {n}

\* Mutant of ApplyOwn: what the own catalog refuses is announced all the same.
ApplyOwnAnyway(t) ==
    /\ task[t].pc = "own"
    /\ Learn(NodeOf(t), FeedOf(t)) /\ Goto(t, "put")
    /\ UNCHANGED <<numbers, subs, blocked, record, air, ear, keeper, may, ops>>

\* The own catalog verifies the feed first: out of bounds, it goes no further.
ApplyOwn(t) ==
    /\ task[t].pc = "own"
    /\ \/ ~Verify(FeedOf(t)) /\ Finish(t) /\ UNCHANGED catalog
       \/ Verify(FeedOf(t)) /\ Learn(NodeOf(t), FeedOf(t)) /\ Goto(t, "put")
    /\ UNCHANGED <<numbers, subs, blocked, record, air, ear, keeper, may, ops>>

PutOwn(t) ==
    /\ task[t].pc = "put"
    /\ \E reached \in SUBSET Node : Put(NodeOf(t), FeedOf(t), reached)
    /\ Goto(t, "send")
    /\ UNCHANGED <<nodeVars, air, ear, keeper, may, ops>>

\* gossipsub::publish
SendOwn(t) ==
    /\ task[t].pc = "send"
    /\ air' = air \cup {FeedOf(t)}
    /\ Finish(t)
    /\ UNCHANGED <<nodeVars, record, ear, keeper, may, ops>>

-----------------------------------------------------------------------------
(* Gossip: handle_feed_message *)

\* A feed that does not verify, or of a blocked key, is rejected.
Hear(n) ==
    /\ ear[n] = NoFeed
    /\ \E f \in air :
           /\ <<"hear", n, f.issuer>> \in may
           /\ Verify(f) /\ ~KeyBlocked(n, f.issuer)
           /\ ear' = [ear EXCEPT ![n] = f]
    /\ UNCHANGED <<nodeVars, record, air, task, keeper, may, ops>>

ApplyHeard(n) ==
    /\ ear[n] # NoFeed
    /\ Learn(n, ear[n])
    /\ ear' = [ear EXCEPT ![n] = NoFeed]
    /\ UNCHANGED <<numbers, subs, blocked, record, air, task, keeper, may, ops>>

-----------------------------------------------------------------------------
(* Fetching: fetch_feed_inner, for the follow loop and for calls *)

\* The node looks at the bans once it has its answer; then the feed is applied.
Answered(w, asked) ==
    LET n == NodeOf(w)
        i == task[w].issuer
        q == Newest(i, asked)
    IN  /\ task[w].pc = "ask"
        /\ \/ /\ q = 0 \/ KeyBlocked(n, i)
              /\ Finish(w)
           \/ /\ q # 0 /\ ~KeyBlocked(n, i)
              /\ task' = [task EXCEPT ![w] = Work("apply", i, q, TRUE, task[w].todo)]

Answer(w) ==
    /\ Answered(w, Node)
    /\ UNCHANGED <<nodeVars, record, air, ear, keeper, may, ops>>

AnswerPartly(w) ==
    /\ Occurs("lose", w, task[w].issuer)
    /\ \E asked \in SUBSET Node : Answered(w, asked)
    /\ UNCHANGED <<nodeVars, record, air, ear, keeper, may>>

ApplyFetched(w) ==
    /\ task[w].pc = "apply"
    /\ Learn(NodeOf(w), FeedOf(w)) /\ Finish(w)
    /\ UNCHANGED <<numbers, subs, blocked, record, air, ear, keeper, may, ops>>

Fetch(t, n, i) ==
    /\ Occurs("fetch", t, i)
    /\ Begin(t, Work("ask", i, 0, FALSE, {}))
    /\ UNCHANGED <<nodeVars, record, air, ear, keeper, may>>

\* Mutant of ResolveChannel: a blocked channel is fetched, and its feed applied unseen.
ResolveApplying(t, n, i) ==
    /\ Occurs("resolve", t, i) /\ i \notin Known(catalog[n])
    /\ LET q == Newest(i, Node)
       IN  Begin(t, IF q # 0 THEN Work("apply", i, q, TRUE, {}) ELSE Idle)
    /\ UNCHANGED <<nodeVars, record, air, ear, keeper, may>>

\* What the catalog knows is shown from there.  A blocked channel is shown from the DHT
\* and never applied; any other is fetched.
ResolveChannel(t, n, i) ==
    /\ Occurs("resolve", t, i) /\ i \notin Known(catalog[n])
    /\ Begin(t, Work(IF KeyBlocked(n, i) THEN "preview" ELSE "ask", i, 0, FALSE, {}))
    /\ UNCHANGED <<nodeVars, record, air, ear, keeper, may>>

ShowPreview(t) ==
    /\ task[t].pc = "preview"
    /\ Finish(t)
    /\ UNCHANGED <<nodeVars, record, air, ear, keeper, may, ops>>

\* search_tag fetches the feeds of all who announce the tag, one after the other.  A
\* publication announces the tags of its entries.
SearchTag(t, n) ==
    /\ Occurs("search", t, n)
    /\ \E found \in SUBSET {i \in Issuer : high[i] # 0} \ {{}} :
          Begin(t, Work("next", NoIssuer, 0, FALSE, found))
    /\ UNCHANGED <<nodeVars, record, air, ear, keeper, may>>

\* follow_loop copies the subscriptions, then fetches likewise.
FollowPass(n) ==
    /\ subs[n] # {}
    /\ Begin(n, Work("next", NoIssuer, 0, FALSE, subs[n]))
    /\ UNCHANGED <<nodeVars, record, air, ear, keeper, may, ops>>

FetchNext(w) ==
    /\ task[w].pc = "next"
    /\ \/ task[w].todo = {} /\ task' = [task EXCEPT ![w] = Idle]
       \/ \E i \in task[w].todo :
              task' = [task EXCEPT ![w] = Work("ask", i, 0, FALSE, task[w].todo \ {i})]
    /\ UNCHANGED <<nodeVars, record, air, ear, keeper, may, ops>>

-----------------------------------------------------------------------------
(* Subscriptions and bans *)

\* subscribe refuses a blocked key and spawns a first fetch.
Subscribe(t, n, i) ==
    /\ Occurs("subscribe", t, i)
    /\ ~KeyBlocked(n, i)
    /\ subs' = [subs EXCEPT ![n] = @ \cup {i}]
    /\ Begin(t, Work("ask", i, 0, FALSE, {}))
    /\ UNCHANGED <<numbers, catalog, blocked, record, air, ear, keeper, may>>

\* The catalog keeps its entry.
Unsubscribe(n, i) ==
    /\ Occurs("unsubscribe", n, i)
    /\ subs' = [subs EXCEPT ![n] = @ \ {i}]
    /\ UNCHANGED <<numbers, catalog, blocked, record, air, task, ear, keeper, may>>

\* block_channel drops the subscription, a denylist that bans the key leaves it.
Bar(t, n, i) ==
    /\ \/ Occurs("block", t, i) /\ subs' = [subs EXCEPT ![n] = @ \ {i}]
       \/ Occurs("ban", t, i) /\ UNCHANGED subs
    /\ blocked' = [blocked EXCEPT ![n] = @ \cup {i}]
    /\ Begin(t, Work("purge", i, 0, FALSE, {}))
    /\ UNCHANGED <<numbers, catalog, record, air, ear, keeper, may>>

\* purge_blocked_issuer_inner; SeedNode has the publications and the blocks.
Purge(t) ==
    LET n == NodeOf(t)
    IN  /\ task[t].pc = "purge"
        /\ catalog' = [catalog EXCEPT ![n] = RemoveIssuer(catalog[n], task[t].issuer)]
        /\ Finish(t)
        /\ UNCHANGED <<numbers, subs, blocked, record, air, ear, keeper, may, ops>>

\* unblock_channel, or the denylist is lifted
Unblock(n, i) ==
    /\ Occurs("unblock", n, i)
    /\ blocked' = [blocked EXCEPT ![n] = @ \ {i}]
    /\ UNCHANGED <<numbers, catalog, subs, record, air, task, ear, keeper, may>>

-----------------------------------------------------------------------------
(* The maintenance loop: republish_known_feeds_inner *)

\* Mutant of Republished: a node puts only what it published itself.
RepublishedOwn(n) ==
    {i \in Known(catalog[n]) : i = n /\ ~KeyBlocked(n, i)}

\* Mutant of Republished: what is not in the catalog is put as well.
RepublishedUnknown(n) ==
    {i \in Issuer : (i = n \/ i \in subs[n]) /\ ~KeyBlocked(n, i)}

Republished(n) ==
    {i \in Known(catalog[n]) : (i = n \/ i \in subs[n]) /\ ~KeyBlocked(n, i)}

KeepPass(n) ==
    /\ keeper[n] = {} /\ Republished(n) # {}
    /\ keeper' = [keeper EXCEPT ![n] = {<<i, catalog[n][i]>> : i \in Republished(n)}]
    /\ UNCHANGED <<nodeVars, record, air, task, ear, may, ops>>

KeepPut(n) ==
    /\ \E k \in keeper[n], reached \in SUBSET Node :
           /\ Put(n, [issuer |-> k[1], seq |-> k[2], ok |-> TRUE], reached)
           /\ keeper' = [keeper EXCEPT ![n] = @ \ {k}]
    /\ UNCHANGED <<nodeVars, air, task, ear, may, ops>>

-----------------------------------------------------------------------------

\* The catalog and the records are in memory; the number is read from its file.
Restart(n) ==
    /\ Occurs("restart", n, n)
    /\ seq' = [seq EXCEPT ![n] = saved[n]]
    /\ catalog' = [catalog EXCEPT ![n] = NoFeeds]
    /\ record' = [record EXCEPT ![n] = NoFeeds]
    /\ task' = [w \in Worker |-> IF NodeOf(w) = n THEN Idle ELSE task[w]]
    /\ ear' = [ear EXCEPT ![n] = NoFeed]
    /\ keeper' = [keeper EXCEPT ![n] = {}]
    /\ UNCHANGED <<saved, high, again, unsaved, subs, blocked, air, may>>

CallStep(t) ==
    \/ ApplyOwn(t) \/ PutOwn(t) \/ SendOwn(t) \/ Purge(t)
    \/ Publish(t, Home[t]) \/ PublishUnwritten(t, Home[t])
    \/ SearchTag(t, Home[t]) \/ ShowPreview(t)
    \/ \E i \in Issuer : \/ Fetch(t, Home[t], i) \/ ResolveChannel(t, Home[t], i)
                         \/ Subscribe(t, Home[t], i) \/ Bar(t, Home[t], i)

FetchStep(w) == FetchNext(w) \/ Answer(w) \/ AnswerPartly(w) \/ ApplyFetched(w)

NodeStep(n) ==
    \/ Hear(n) \/ ApplyHeard(n) \/ FollowPass(n)
    \/ KeepPass(n) \/ KeepPut(n) \/ Restart(n)
    \/ \E i \in Issuer : Unsubscribe(n, i) \/ Unblock(n, i) \/ Replay(n, i) \/ Expire(n, i)

FeedNext ==
    \/ \E t \in Call : CallStep(t)
    \/ \E w \in Worker : FetchStep(w)
    \/ \E n \in Node : NodeStep(n)

\* The loops of a node are never stopped and a query is answered in the end.
FeedFairness ==
    \A n \in Node :
        /\ WF_vars(FollowPass(n)) /\ WF_vars(FetchNext(n))
        /\ WF_vars(Answer(n)) /\ WF_vars(ApplyFetched(n))
        /\ WF_vars(KeepPass(n)) /\ WF_vars(KeepPut(n))

FeedSpec == FeedInit /\ [][FeedNext]_vars /\ FeedFairness

-----------------------------------------------------------------------------
(* Properties *)

\* What a node sends, every node that hears it accepts: a publication whose title,
\* tags or profile are out of bounds has used up its number by then, and still it
\* must reach neither gossip nor the DHT (the ? after apply in publish_feed_with).
SentIsAccepted ==
    /\ \A f \in air \ Noise : f.ok
    /\ \A t \in Call : task[t].pc \in {"put", "send"} => task[t].ok

\* i is blocked at n, its entry is gone and no check made before the ban is pending.
Shut(n, i) ==
    /\ i \in blocked[n] /\ catalog[n][i] = 0 /\ ear[n].issuer # i
    /\ \A w \in Worker : NodeOf(w) = n /\ task[w].issuer = i => task[w].pc # "apply"

\* A feed is checked against the bans and applied later, by the event loop, the
\* follow loop and calls, while a ban is recorded and purged in between.  One feed
\* may so outlive the purge of its issuer; but once the checks of before the ban are
\* through, nothing of the issuer comes back until it is unblocked, over restarts too.
BannedStaysOut ==
    [][\A n \in Node : \A i \in Issuer \ {n} :
           Shut(n, i) => Shut(n, i)' \/ i \notin blocked'[n]]_vars

Register == INSTANCE NewestFeed WITH issued <- high, known <- catalog

\* Over lost, repeated and reordered gossip, records of any age and restarts, no catalog
\* goes back to an older feed of an issuer that it knows, or shows a number that was not
\* signed (Catalog::apply); and an issuer never numbers two feeds alike (feed_seq), but
\* where the write of its highest number failed.
ImplementsNewest == Register!Spec

OnOffer(i) == high[i] # 0 /\ \E s \in Node : record[s][i] = high[i]

\* A subscriber that missed every message of the gossip catches up from the DHT, though
\* its catalog is full of strangers, it restarts, and older feeds are put again.
CatchesUp ==
    \A n \in Node, i \in Issuer :
        <>[](i \in subs[n] \ blocked[n] /\ OnOffer(i)) => <>[](catalog[n][i] = high[i])

\* n shows the feed of i with the highest number, and republishes it.
Keeps(n, i) ==
    high[i] # 0 /\ catalog[n][i] = high[i] /\ (n = i \/ i \in subs[n]) /\ i \notin blocked[n]

\* As long as somebody keeps the newest feed of an issuer, who may be gone for good,
\* its record comes back to the DHT each time that it expires or an older one replaces it.
KeptOnOffer == \A i \in Issuer : (<>[]\E n \in Node : Keeps(n, i)) => []<>OnOffer(i)
================================================================================
