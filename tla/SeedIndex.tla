------------------------------ MODULE SeedIndex ------------------------------
(***************************************************************************)
(* The index of retained publications (seeding.rs): what a node keeps for  *)
(* the channels it follows or watched, under a byte quota.  Pure data: the *)
(* operators are the methods of SeedIndex and eviction_order.              *)
(*                                                                         *)
(* A publication is an HLS manifest and its segments.  total_bytes is kept *)
(* as `counted', the blocks whose size went into the sum.  `order', a u64  *)
(* that insert assigns from a counter, is kept as the rank of the entry    *)
(* among those present: it is only ever compared.                          *)
(***************************************************************************)
EXTENDS Naturals, Sequences, FiniteSets, FiniteSetsExt

CONSTANTS
    Issuer,     \* channels (PeerIds) that publish feeds
    Manifest,   \* CIDs of HLS manifests
    Bare,       \* CIDs a feed may list that are no manifest (blocks added on their own)
    Segment,    \* CIDs of video segments
    Segments,   \* Segments[m]: the segments of manifest m, in playing order
    Size        \* Size[c]: bytes of the block c

\* No segment occurs twice in a manifest: total_bytes would count it twice.
ASSUME SegmentsAssumption ==
    /\ Segments \in [Manifest -> Seq(Segment)]
    /\ \A m \in Manifest : Cardinality(Range(Segments[m])) = Len(Segments[m])
ASSUME CidsDisjoint ==
    /\ Manifest \cap Bare = {} /\ Manifest \cap Segment = {} /\ Bare \cap Segment = {}
\* A CID is a digest of a fixed length.
ASSUME CidsFinite == IsFiniteSet(Manifest \cup Bare \cup Segment)
ASSUME SizeAssumption == Size \in [Manifest \cup Bare \cup Segment -> Nat \ {0}]

Cid == Manifest \cup Bare \cup Segment
Listed == Manifest \cup Bare        \* what an entry of a feed may name

\* The blocks of a publication in the order they are fetched, manifest first.
\* A bare block is fetched like a manifest, which it turns out not to be.
Blocks(c) == <<c>> \o (IF c \in Manifest THEN Segments[c] ELSE <<>>)
BlockSet(c) == {c} \cup (IF c \in Manifest THEN Range(Segments[c]) ELSE {})

Weight(S) == MapThenSumSet(LAMBDA c : Size[c], S)

Publication == [issuer: Issuer, manifest: Manifest, counted: SUBSET Cid, order: Nat]

-----------------------------------------------------------------------------

ContainsManifest(idx, m) == \E p \in idx : p.manifest = m
AllCids(idx) == UNION {BlockSet(p.manifest) : p \in idx}
AllSegmentCids(idx) == UNION {Range(Segments[p.manifest]) : p \in idx}
TotalBytes(idx) == MapThenSumSet(LAMBDA p : Weight(p.counted), idx)

\* Mutant: the order is the rank of the entry before.
InsertBehind(idx, i, m, blocks) ==
    idx \cup {[issuer |-> i, manifest |-> m, counted |-> blocks, order |-> Cardinality(idx) - 1]}

\* insert: the new entry is the youngest.  Callers look for the manifest first.
Insert(idx, i, m, blocks) ==
    idx \cup {[issuer |-> i, manifest |-> m, counted |-> blocks, order |-> Cardinality(idx)]}

\* Removal closes the gaps that the ranks would otherwise show.
Remove(idx, gone) ==
    LET kept == idx \ gone
    IN  {[p EXCEPT !.order = Cardinality({q \in kept : q.order < p.order})] : p \in kept}

EntriesOf(idx, m) == {p \in idx : p.manifest = m}

\* purge_issuer: the entries of i that leave the index.
Purged(idx, pins, i, keepPinned) ==
    {p \in idx : p.issuer = i /\ ~(keepPinned /\ p.manifest \in pins)}

-----------------------------------------------------------------------------

\* Mutant: pins do not protect from an eviction.
EvictableAny(idx, pins) == idx

Evictable(idx, pins) == {p \in idx : p.manifest \notin pins}

\* The measured replication of a manifest; one that was not measured counts 0.
Replication(repl, m) == IF m \in DOMAIN repl THEN repl[m] ELSE 0

\* The sort of eviction_order: what nobody here subscribes to goes first, then
\* what is best replicated elsewhere, then the oldest.
EvictedBefore(p, q, repl, subscribed) ==
    LET tier(r) == r.issuer \in subscribed
        rp == Replication(repl, p.manifest)
        rq == Replication(repl, q.manifest)
    IN  \/ ~tier(p) /\ tier(q)
        \/ tier(p) = tier(q) /\ (rp > rq \/ (rp = rq /\ p.order < q.order))

\* p is the head of eviction_order.
FirstEvicted(p, idx, pins, repl, subscribed) ==
    /\ p \in Evictable(idx, pins)
    /\ \A q \in Evictable(idx, pins) \ {p} : EvictedBefore(p, q, repl, subscribed)
=============================================================================
