-------------------------------- MODULE Catalog --------------------------------
(***************************************************************************)
(* The catalog of one node (catalog.rs) and the feeds it is made of        *)
(* (feed.rs).  A feed is the key that signs it, its number, and whether    *)
(* Feed::verify accepts it: schema, bounds and signature are one Boolean.  *)
(* A catalog maps an issuer to the number of its current feed, 0 if it has *)
(* none; two feeds of one issuer with one number are not told apart, and   *)
(* Catalog::apply takes the first.  FeedNetwork says when a node signs two.*)
(***************************************************************************)
EXTENDS Naturals, FiniteSets

CONSTANTS
    Issuer,         \* the keys that sign feeds
    MaxSeq,         \* bound on the numbers
    MaxIssuers      \* max_issuers, beyond which an unknown issuer needs a subscription

ASSUME CatalogAssumption == MaxSeq \in Nat /\ MaxIssuers \in Nat

Feed == [issuer: Issuer, seq: 1 .. MaxSeq, ok: BOOLEAN]
Catalogs == [Issuer -> 0 .. MaxSeq]

\* Catalog::new
NoFeeds == [i \in Issuer |-> 0]

\* Feed::verify
Verify(f) == f.ok

Known(cat) == {i \in Issuer : cat[i] # 0}

\* Mutant of Admits: the bound holds for every unknown issuer.
AdmitsNobody(cat, subs, f) ==
    IF cat[f.issuer] # 0 THEN f.seq > cat[f.issuer] ELSE Cardinality(Known(cat)) < MaxIssuers

\* A feed replaces an older one; an unknown issuer needs room or a subscriber.
Admits(cat, subs, f) ==
    IF cat[f.issuer] # 0
    THEN f.seq > cat[f.issuer]
    ELSE f.issuer \in subs \/ Cardinality(Known(cat)) < MaxIssuers

\* Catalog::apply, for a feed that verify accepts
Apply(cat, subs, f) ==
    IF Admits(cat, subs, f) THEN [cat EXCEPT ![f.issuer] = f.seq] ELSE cat

\* Catalog::remove_issuer
RemoveIssuer(cat, i) == [cat EXCEPT ![i] = 0]
================================================================================
