------------------------------ MODULE MCSeedNode ------------------------------
(***************************************************************************)
(* Small instances of SeedNode.  Every block weighs 1 unless a run says    *)
(* otherwise; the segments of m1 and m2 are told apart, or shared, by the  *)
(* run.                                                                    *)
(***************************************************************************)
EXTENDS SeedNode, TLC

CONSTANTS alice, bob, m1, m2, x, s1, s2, v1, v2, u1, u2

OneSegment == m1 :> <<s1>> @@ m2 :> <<s2>>
SharedSegment == m1 :> <<s1>> @@ m2 :> <<s1, s2>>

UnitSize == [c \in Cid |-> 1]

\* alice publishes both manifests, or a block that is none; or alice one
\* manifest and bob the other.
FeedsMixed == [i \in Issuer |-> IF i = alice THEN {{m1, m2}, {x}} ELSE {}]
FeedsOfBoth == [i \in Issuer |-> CASE i = alice -> {{m1}} [] i = bob -> {{m2}} [] OTHER -> {}]

\* A list that bans the key of alice, one that bans its segment.
KeyList == [keys |-> {alice}, cids |-> {}]
CidList == [keys |-> {}, cids |-> {s1}]
NoLists == {}
BothLists == {KeyList, CidList}
OnlyKeyList == {KeyList}

\* Foreground tasks are interchangeable.
Viewers == Permutations({v1, v2})

ReplOne == [c \in Listed |-> {1}]
ReplVaries == [c \in Listed |-> {1, 2}]
=============================================================================
