---------------------------- MODULE DistributionProofs ----------------------------
(***************************************************************************)
(* Theorems about what nodes hand each other: the book of the reports that *)
(* came in (ReportBook), for any CIDs, reporters and bounds, and the bytes *)
(* that are signed (Signing), for documents of any size.                   *)
(***************************************************************************)
EXTENDS Signing, ReportBook, DataLemmas

--------------------------------------------------------------------------------
(* The book of reports *)

\* What every step preserves: the types, finite tiers, the bounds and the keys.
BookInv ==
    /\ BookTypeOK
    /\ IsFiniteSet(trusted) /\ IsFiniteSet(others)
    /\ TiersMatchKeys
    /\ BookBounded

-----------------------------------------------------------------------------
(* CIDs and reporters of a tier *)

\* A finite tier names finitely many CIDs, and no more of them when it loses reports.
LEMMA FewerCids ==
    ASSUME NEW tier, IsFiniteSet(tier), NEW part, part \subseteq tier
    PROVE  /\ IsFiniteSet(Cids(tier)) /\ IsFiniteSet(Cids(part))
           /\ Cardinality(Cids(part)) <= Cardinality(Cids(tier))
<1> DEFINE cidOf == [e \in tier |-> e[1]]
<1>1. cidOf \in Surjection(tier, Cids(tier))
  BY DEF Cids, Surjection
<1>2. IsFiniteSet(Cids(tier))
  <2> HIDE DEF cidOf
  <2> QED
    BY <1>1, FS_Surjection
<1>3. Cids(part) \in SUBSET Cids(tier)
  BY DEF Cids
<1> QED
  BY <1>2, <1>3, FS_Subset

\* The same of those who report one CID.
LEMMA FewerReporters ==
    ASSUME NEW tier, IsFiniteSet(tier), NEW part, part \subseteq tier, NEW c
    PROVE  /\ IsFiniteSet(Reporters(tier, c)) /\ IsFiniteSet(Reporters(part, c))
           /\ Cardinality(Reporters(part, c)) <= Cardinality(Reporters(tier, c))
<1> DEFINE ofC == {d \in tier : d[1] = c}
           reporterOf == [e \in ofC |-> e[2]]
<1>1. reporterOf \in Surjection(ofC, Reporters(tier, c))
  BY DEF Reporters, Surjection
<1>2. IsFiniteSet(ofC)
  BY FS_Subset
<1>3. IsFiniteSet(Reporters(tier, c))
  <2> HIDE DEF reporterOf, ofC
  <2> QED
    BY <1>1, <1>2, FS_Surjection
<1>4. Reporters(part, c) \in SUBSET Reporters(tier, c)
  BY DEF Reporters
<1> QED
  BY <1>3, <1>4, FS_Subset

\* One report adds at most one CID, and none if its CID is known.
LEMMA OneMoreCid ==
    ASSUME NEW tier, IsFiniteSet(tier), NEW e, NEW max \in Nat,
           Cardinality(Cids(tier)) <= max,
           e[1] \in Cids(tier) \/ ~(Cardinality(Cids(tier)) >= max)
    PROVE  Cardinality(Cids(tier \cup {e})) <= max
<1>1. IsFiniteSet(Cids(tier))
  BY FewerCids
<1>2. Cids(tier \cup {e}) = Cids(tier) \cup {e[1]}
  BY DEF Cids
<1>3. CASE e[1] \in Cids(tier)
  <2>1. Cids(tier) \cup {e[1]} = Cids(tier)
    BY <1>3
  <2> QED
    BY <1>2, <2>1
<1>4. CASE e[1] \notin Cids(tier)
  <2> DEFINE n == Cardinality(Cids(tier))
             m == Cardinality(Cids(tier) \cup {e[1]})
  <2>1. n \in Nat
    BY <1>1, FS_CardinalityType
  <2>2. m = n + 1
    BY <1>1, <1>4, FS_AddElement
  <2>3. ~(n >= max)
    BY <1>4
  <2>4. m <= max
    <3> HIDE DEF n, m
    <3> QED
      BY <2>1, <2>2, <2>3
  <2> QED
    BY <1>2, <2>4
<1> QED
  BY <1>3, <1>4

\* And at most one reporter, of its own CID.
LEMMA OneMoreReporter ==
    ASSUME NEW tier, IsFiniteSet(tier), NEW e, NEW c, NEW max \in Nat,
           Cardinality(Reporters(tier, c)) <= max,
           c = e[1] => ~(Cardinality(Reporters(tier, c)) >= max)
    PROVE  Cardinality(Reporters(tier \cup {e}, c)) <= max
<1>1. CASE c # e[1]
  <2>1. Reporters(tier \cup {e}, c) = Reporters(tier, c)
    BY <1>1 DEF Reporters
  <2> QED
    BY <2>1
<1>2. CASE c = e[1]
  <2>1. IsFiniteSet(Reporters(tier, c))
    BY FewerReporters
  <2>2. Reporters(tier \cup {e}, c) = Reporters(tier, c) \cup {e[2]}
    BY <1>2 DEF Reporters
  <2> DEFINE n == Cardinality(Reporters(tier, c))
             m == Cardinality(Reporters(tier, c) \cup {e[2]})
  <2>3. n \in Nat
    BY <2>1, FS_CardinalityType
  <2>4. m = n \/ m = n + 1
    BY <2>1, FS_AddElement
  <2>5. ~(n >= max)
    BY <1>2
  <2>6. m <= max
    <3> HIDE DEF n, m
    <3> QED
      BY <2>3, <2>4, <2>5
  <2> QED
    BY <2>2, <2>6
<1> QED
  BY <1>1, <1>2

-----------------------------------------------------------------------------
(* One report *)

LEMMA ReportKept ==
    ASSUME BookInv, NEW e \in Entry, ApplyReport(e),
           UNCHANGED <<editors, keys>>, reports' \in 0 .. MaxReports
    PROVE  BookInv'
<1> USE BookAssumption
<1>1. CASE e[2] \in keys
  <2>1. others' = others /\ (trusted' = trusted \/ trusted' = trusted \cup {e})
    BY <1>1 DEF ApplyReport
  <2>2. trusted' # trusted => ~TrustedRefuses(trusted, e)
    BY <1>1 DEF ApplyReport
  <2>3. BookTypeOK' /\ TiersMatchKeys'
    BY <1>1, <2>1 DEF BookInv, BookTypeOK, TiersMatchKeys
  <2>4. IsFiniteSet(trusted')
    BY <2>1, FS_AddElement DEF BookInv
  <2>5. Cardinality(Cids(trusted')) <= MaxTrustedCids
    <3>1. CASE trusted' = trusted
      BY <3>1 DEF BookInv, BookBounded
    <3>2. CASE trusted' # trusted
      <4>1. e[1] \in Cids(trusted) \/ ~(Cardinality(Cids(trusted)) >= MaxTrustedCids)
        BY <2>2, <3>2 DEF TrustedRefuses
      <4> QED
        BY <4>1, <2>1, <3>2, OneMoreCid DEF BookInv, BookBounded
    <3> QED
      BY <3>1, <3>2
  <2> QED
    BY <2>1, <2>3, <2>4, <2>5 DEF BookInv, BookBounded
<1>2. CASE e[2] \notin keys
  <2>1. trusted' = trusted /\ (others' = others \/ others' = others \cup {e})
    BY <1>2 DEF ApplyReport
  <2>2. others' # others => ~OthersRefuse(others, e)
    BY <1>2 DEF ApplyReport
  <2>3. BookTypeOK' /\ TiersMatchKeys'
    BY <1>2, <2>1 DEF BookInv, BookTypeOK, TiersMatchKeys
  <2>4. IsFiniteSet(others')
    BY <2>1, FS_AddElement DEF BookInv
  <2>5. CASE others' = others
    BY <2>1, <2>3, <2>4, <2>5 DEF BookInv, BookBounded
  <2>6. CASE others' # others
    <3>1. /\ e[1] \in Cids(others) \/ ~(Cardinality(Cids(others)) >= MaxOtherCids)
          /\ ~(Cardinality(Reporters(others, e[1])) >= MaxReporters)
      BY <2>2, <2>6 DEF OthersRefuse
    <3>2. Cardinality(Cids(others')) <= MaxOtherCids
      BY <3>1, <2>1, <2>6, OneMoreCid DEF BookInv, BookBounded
    <3>3. \A c \in Reported : Cardinality(Reporters(others', c)) <= MaxReporters
      BY <3>1, <2>1, <2>6, OneMoreReporter DEF BookInv, BookBounded
    <3> QED
      BY <2>1, <2>3, <2>4, <3>2, <3>3 DEF BookInv, BookBounded
  <2> QED
    BY <2>5, <2>6
<1> QED
  BY <1>1, <1>2

-----------------------------------------------------------------------------
(* A change of the editors *)

LEMMA TrustedAfterKept ==
    ASSUME BookInv, NEW K, NEW t,
           t \in TrustedAfter(trusted \ {e \in trusted : e[2] \notin K},
                              {e \in others : e[2] \in K})
    PROVE  /\ t \subseteq Entry /\ IsFiniteSet(t)
           /\ Cardinality(Cids(t)) <= MaxTrustedCids
           /\ \A e \in t : e[2] \in K
<1> USE BookAssumption
<1> DEFINE tier == trusted \ {e \in trusted : e[2] \notin K}
           promoted == {e \in others : e[2] \in K}
<1>1. PICK A \in SUBSET promoted : t = tier \cup A
  BY DEF TrustedAfter
<1>2. t \subseteq trusted \cup others
  BY <1>1
<1>3. IsFiniteSet(trusted \cup others)
  BY FS_Union DEF BookInv
<1>4. IsFiniteSet(t)
  BY <1>2, <1>3, FS_Subset
<1>5. Cardinality(Cids(tier)) <= MaxTrustedCids
  <2>1. /\ IsFiniteSet(Cids(tier)) /\ IsFiniteSet(Cids(trusted))
        /\ Cardinality(Cids(tier)) <= Cardinality(Cids(trusted))
    BY FewerCids DEF BookInv
  <2>2. Cardinality(Cids(tier)) \in Nat /\ Cardinality(Cids(trusted)) \in Nat
    BY <2>1, FS_CardinalityType
  <2> QED
    BY <2>1, <2>2 DEF BookInv, BookBounded
<1>6. Cardinality(Cids(t)) <= MaxTrustedCids \/ t = tier
  BY DEF TrustedAfter
<1> QED
  BY <1>1, <1>2, <1>4, <1>5, <1>6 DEF BookInv, BookTypeOK

LEMMA OthersAfterKept ==
    ASSUME BookInv, NEW K, NEW t,
           t \in OthersAfter(others \ {e \in others : e[2] \in K},
                             {e \in trusted : e[2] \notin K})
    PROVE  /\ t \subseteq Entry /\ IsFiniteSet(t)
           /\ Cardinality(Cids(t)) <= MaxOtherCids
           /\ \A c \in Reported : Cardinality(Reporters(t, c)) <= MaxReporters
           /\ \A e \in t : e[2] \notin K
<1> USE BookAssumption
<1> DEFINE tier == others \ {e \in others : e[2] \in K}
           demoted == {e \in trusted : e[2] \notin K}
<1>1. PICK A \in SUBSET demoted : t = tier \cup A
  BY DEF OthersAfter
<1>2. t \subseteq trusted \cup others
  BY <1>1
<1>3. IsFiniteSet(trusted \cup others)
  BY FS_Union DEF BookInv
<1>4. IsFiniteSet(t)
  BY <1>2, <1>3, FS_Subset
<1>5. Cardinality(Cids(tier)) <= MaxOtherCids
  <2>1. /\ IsFiniteSet(Cids(tier)) /\ IsFiniteSet(Cids(others))
        /\ Cardinality(Cids(tier)) <= Cardinality(Cids(others))
    BY FewerCids DEF BookInv
  <2>2. Cardinality(Cids(tier)) \in Nat /\ Cardinality(Cids(others)) \in Nat
    BY <2>1, FS_CardinalityType
  <2> QED
    BY <2>1, <2>2 DEF BookInv, BookBounded
<1>6. Cardinality(Cids(t)) <= MaxOtherCids \/ t = tier
  BY DEF OthersAfter
<1>7. ASSUME NEW c \in Reported PROVE Cardinality(Reporters(t, c)) <= MaxReporters
  <2>1. CASE \E e \in t \ tier : e[1] = c
    BY <2>1 DEF OthersAfter
  <2>2. CASE ~\E e \in t \ tier : e[1] = c
    <3>1. Reporters(t, c) = Reporters(tier, c)
      BY <1>1, <2>2 DEF Reporters
    <3>2. /\ IsFiniteSet(Reporters(tier, c)) /\ IsFiniteSet(Reporters(others, c))
          /\ Cardinality(Reporters(tier, c)) <= Cardinality(Reporters(others, c))
      BY FewerReporters DEF BookInv
    <3>3. Cardinality(Reporters(tier, c)) \in Nat /\ Cardinality(Reporters(others, c)) \in Nat
      BY <3>2, FS_CardinalityType
    <3> QED
      BY <3>1, <3>2, <3>3 DEF BookInv, BookBounded
  <2> QED
    BY <2>1, <2>2
<1> QED
  BY <1>1, <1>2, <1>4, <1>5, <1>6, <1>7 DEF BookInv, BookTypeOK

-----------------------------------------------------------------------------
(* The invariant *)

LEMMA BookInvInit == BookInit => BookInv
<1> SUFFICES ASSUME BookInit PROVE BookInv
  OBVIOUS
<1> USE BookAssumption DEF BookInit
<1>1. BookTypeOK /\ TiersMatchKeys
  BY DEF BookTypeOK, TiersMatchKeys
<1>2. IsFiniteSet(trusted) /\ IsFiniteSet(others)
  BY FS_EmptySet
<1>3. Cids({}) = {} /\ \A c : Reporters({}, c) = {}
  BY DEF Cids, Reporters
<1>4. BookBounded
  BY <1>3, FS_EmptySet DEF BookBounded
<1> QED
  BY <1>1, <1>2, <1>4 DEF BookInv

LEMMA BookInvNext == BookInv /\ [BookNext]_bookVars => BookInv'
<1> SUFFICES ASSUME BookInv, [BookNext]_bookVars PROVE BookInv'
  OBVIOUS
<1> USE BookAssumption
<1>1. ASSUME NEW e \in Entry, HearReport(e) PROVE BookInv'
  <2>1. reports' \in 0 .. MaxReports
    BY <1>1 DEF HearReport, Happens, BookInv, BookTypeOK
  <2> QED
    BY <1>1, <2>1, ReportKept DEF HearReport
<1>2. ASSUME NEW c \in Reported, EmitReport(c) PROVE BookInv'
  <2>1. reports' \in 0 .. MaxReports
    BY <1>2 DEF EmitReport, Happens, BookInv, BookTypeOK
  <2>2. <<c, Me>> \in Entry
    BY DEF Entry
  <2> QED
    BY <1>2, <2>1, <2>2, ReportKept DEF EmitReport
<1>3. ASSUME NEW e \in Editors, Follow(e) \/ Unfollow(e) PROVE BookInv'
  <2>1. /\ editors' \subseteq Editors /\ reports' \in 0 .. MaxReports
        /\ UNCHANGED <<keys, trusted, others>>
    BY <1>3 DEF Follow, Unfollow, Happens, BookInv, BookTypeOK
  <2> QED
    BY <2>1 DEF BookInv, BookTypeOK, TiersMatchKeys, BookBounded
<1>4. ASSUME RetrustReports PROVE BookInv'
  <2>1. /\ keys' = editors /\ UNCHANGED <<editors, reports>>
        /\ trusted' \in TrustedAfter(trusted \ {e \in trusted : e[2] \notin editors},
                                     {e \in others : e[2] \in editors})
        /\ others' \in OthersAfter(others \ {e \in others : e[2] \in editors},
                                   {e \in trusted : e[2] \notin editors})
    BY <1>4 DEF RetrustReports, Retrust
  <2>2. /\ trusted' \subseteq Entry /\ IsFiniteSet(trusted')
        /\ Cardinality(Cids(trusted')) <= MaxTrustedCids
        /\ \A e \in trusted' : e[2] \in editors
    BY <2>1, TrustedAfterKept
  <2>3. /\ others' \subseteq Entry /\ IsFiniteSet(others')
        /\ Cardinality(Cids(others')) <= MaxOtherCids
        /\ \A c \in Reported : Cardinality(Reporters(others', c)) <= MaxReporters
        /\ \A e \in others' : e[2] \notin editors
    BY <2>1, OthersAfterKept
  <2> QED
    BY <2>1, <2>2, <2>3 DEF BookInv, BookTypeOK, TiersMatchKeys, BookBounded
<1>5. ASSUME UNCHANGED bookVars PROVE BookInv'
  BY <1>5 DEF bookVars, BookInv, BookTypeOK, TiersMatchKeys, BookBounded
<1> QED
  BY <1>1, <1>2, <1>3, <1>4, <1>5 DEF BookNext

LEMMA BookInvHolds == BookSpec => []BookInv
  BY BookInvInit, BookInvNext, PTL DEF BookSpec

-----------------------------------------------------------------------------
(* Theorems *)

\* No tier of the book grows beyond its bounds, whatever reports arrive and however
\* often the followed editors change (ReportBook::insert_into, retrust).
THEOREM BookStaysBounded == BookSpec => []BookBounded
  BY BookInvHolds, PTL DEF BookInv

\* The trusted tier holds reports of trusted keys only, the other one none of them.
THEOREM BookIsSorted == BookSpec => []TiersMatchKeys
  BY BookInvHolds, PTL DEF BookInv

\* A report is only lost by a change of editors, to a tier that has no room left for it
\* once the places freed by the same change are given away.
THEOREM BookForgetsNothing == BookSpec => NothingLostForNothing
<1> DEFINE Kept == \A e \in trusted \cup others :
           \/ e \in trusted' \cup others'
           \/ e[2] \in keys' \ keys /\ TrustedRefuses(trusted', e)
           \/ e[2] \in keys \ keys' /\ OthersRefuse(others', e)
<1>1. BookInv /\ [BookNext]_bookVars => [Kept]_bookVars
  <2> SUFFICES ASSUME BookInv, BookNext PROVE Kept
    OBVIOUS
  <2>1. ASSUME NEW e \in Entry, ApplyReport(e) PROVE Kept
    BY <2>1 DEF ApplyReport
  <2>2. ASSUME UNCHANGED <<trusted, others>> PROVE Kept
    BY <2>2
  <2>3. ASSUME RetrustReports PROVE Kept
    <3> DEFINE demoted == {e \in trusted : e[2] \notin editors}
               promoted == {e \in others : e[2] \in editors}
    <3>1. /\ keys' = editors
          /\ trusted' \in TrustedAfter(trusted \ demoted, promoted)
          /\ others' \in OthersAfter(others \ promoted, demoted)
      BY <2>3 DEF RetrustReports, Retrust
    <3>2. /\ \A e \in ((trusted \ demoted) \cup promoted) \ trusted' : TrustedRefuses(trusted', e)
          /\ trusted \ demoted \subseteq trusted'
      BY <3>1 DEF TrustedAfter
    <3>3. /\ \A e \in ((others \ promoted) \cup demoted) \ others' : OthersRefuse(others', e)
          /\ others \ promoted \subseteq others'
      BY <3>1 DEF OthersAfter
    <3>4. \A e \in demoted : e[2] \in keys \ keys'
      BY <3>1 DEF BookInv, TiersMatchKeys
    <3>5. \A e \in promoted : e[2] \in keys' \ keys
      BY <3>1 DEF BookInv, TiersMatchKeys
    <3> QED
      BY <3>2, <3>3, <3>4, <3>5
  <2>4. \A c \in Reported : <<c, Me>> \in Entry
    BY BookAssumption DEF Entry
  <2> QED
    BY <2>1, <2>2, <2>3, <2>4 DEF BookNext, HearReport, EmitReport, Follow, Unfollow
<1> QED
  BY <1>1, BookInvHolds, PTL DEF BookSpec, NothingLostForNothing

--------------------------------------------------------------------------------
(* What is signed *)

Txt == Seq(Nat)
AnyEntry == [cid: Txt, title: Txt, tags: Seq(Txt), mode: Txt, tools: Seq(Txt)]
AnyFeed == [kind: {"feed"}, seq: Nat, name: Txt, description: Txt,
            avatar: {NoAvatar} \cup (Txt \ {<<>>}), entries: Seq(AnyEntry)]
AnyList == [kind: {"list"}, seq: Nat, name: Txt, updated: Txt, cids: Seq(Txt), keys: Seq(Txt)]
AnyReport == [kind: {"report"}, cid: Txt, reason: Txt]

\* Beginnings of one length are cut off.
Cut(p, q, r, s) == p \o r = q \o s => p = q /\ r = s

LEMMA CutAll ==
    ASSUME NEW T, NEW p \in Seq(T), NEW q \in Seq(T), Len(p) = Len(q)
    PROVE  \A r, s \in Seq(T) : Cut(p, q, r, s)
<1> SUFFICES ASSUME NEW r \in Seq(T), NEW s \in Seq(T), p \o r = q \o s
             PROVE  p = q /\ r = s
    BY DEF Cut
<1> DEFINE w == p \o r
           n == Len(p)
<1>0. n \in Nat /\ Len(r) \in Nat /\ Len(s) \in Nat
    OBVIOUS
<1>1. /\ Len(w) = n + Len(r)
      /\ \A i \in 1 .. n + Len(r) : w[i] = IF i <= n THEN p[i] ELSE r[i - n]
    BY ConcatProperties
<1>2. /\ Len(w) = n + Len(s)
      /\ \A i \in 1 .. n + Len(s) : w[i] = IF i <= n THEN q[i] ELSE s[i - n]
    BY ConcatProperties
<1>3. Len(r) = Len(s)
    <2> HIDE DEF w, n
    <2> QED BY <1>0, <1>1, <1>2
<1>4. \A i \in 1 .. n : p[i] = q[i]
    <2> HIDE DEF w
    <2>1. \A i \in 1 .. n : i \in 1 .. n + Len(r) /\ i \in 1 .. n + Len(s) /\ i <= n
        BY <1>0
    <2> QED BY <1>1, <1>2, <2>1
<1>5. \A i \in 1 .. Len(r) : r[i] = s[i]
    <2> HIDE DEF w, n
    <2>1. \A i \in 1 .. Len(r) : n + i \in 1 .. n + Len(r) /\ ~(n + i <= n) /\ (n + i) - n = i
        BY <1>0
    <2> QED BY <1>1, <1>2, <1>3, <2>1
<1>6. p = q
    BY <1>4, SeqEqual
<1>7. r = s
    BY <1>3, <1>5, SeqEqual
<1> QED BY <1>6, <1>7

-----------------------------------------------------------------------------
(* push_field *)

Pushed == [t \in Txt |-> PushField(t)]

LEMMA PushedType == Pushed \in [Txt -> Seq(Nat)] /\ \A t \in Txt : Pushed[t] # <<>>
<1> SUFFICES ASSUME NEW t \in Txt PROVE PushField(t) \in Seq(Nat) /\ PushField(t) # <<>>
    BY DEF Pushed
<1> DEFINE l == <<Len(t)>>
<1>1. l \in Seq(Nat) /\ t \in Seq(Nat) /\ l # <<>>
    BY DEF Txt
<1>2. PushField(t) = l \o t
    BY DEF PushField, U64
<1> HIDE DEF l
<1> QED BY <1>1, <1>2, ConcatProperties, ConcatEqualIffEmpty

LEMMA PushedTold == SelfDelimiting(Pushed, Txt, Nat)
<1> SUFFICES ASSUME NEW u \in Txt, NEW v \in Txt, NEW c \in Seq(Nat), NEW d \in Seq(Nat),
                    Pushed[u] \o c = Pushed[v] \o d
             PROVE  u = v /\ c = d
    BY DEF SelfDelimiting, Apart
<1> DEFINE lu == <<Len(u)>>
           lv == <<Len(v)>>
<1>1. lu \in Seq(Nat) /\ lv \in Seq(Nat) /\ Len(lu) = Len(lv) /\ lu[1] = Len(u) /\ lv[1] = Len(v)
    BY DEF Txt
<1>2. Pushed[u] = lu \o u /\ Pushed[v] = lv \o v
    BY DEF Pushed, PushField, U64
<1> HIDE DEF lu, lv
<1>3. u \in Seq(Nat) /\ v \in Seq(Nat)
    BY DEF Txt
<1>4. Regroups(lu, u, c) /\ Regroups(lv, v, d)
    BY <1>1, <1>3, AllRegroup, Zenon
<1>5. lu \o (u \o c) = lv \o (v \o d)
    BY <1>2, <1>4 DEF Regroups
<1>6. u \o c \in Seq(Nat) /\ v \o d \in Seq(Nat)
    BY <1>3
<1>7. Cut(lu, lv, u \o c, v \o d)
    <2>1. \A r, s \in Seq(Nat) : Cut(lu, lv, r, s)
        BY <1>1, CutAll
    <2> QED BY <1>6, <2>1, Zenon
<1>8. lu = lv /\ u \o c = v \o d
    BY <1>5, <1>7, Zenon DEF Cut
<1>9. Len(u) = Len(v)
    BY <1>1, <1>8
<1>10. Cut(u, v, c, d)
    <2>1. \A r, s \in Seq(Nat) : Cut(u, v, r, s)
        BY <1>3, <1>9, CutAll
    <2> QED BY <2>1, Zenon
<1> QED BY <1>8, <1>10, Zenon DEF Cut

LEMMA PushIsFlattened == \A f \in Seq(Txt) : Push(f) = Flattened(Coded(Pushed, f))
<1> TAKE f \in Seq(Txt)
<1>1. \A i \in DOMAIN f : Pushed[f[i]] = PushField(f[i])
    BY DEF Pushed
<1> QED BY <1>1 DEF Push, Coded

\* Fields with their lengths before them are never read as other fields, nor as more or
\* fewer of them (push_field).
LEMMA FieldsAreTold ==
    ASSUME NEW f \in Seq(Txt), NEW g \in Seq(Txt), Push(f) = Push(g)
    PROVE  f = g
<1>1. Flattened(Coded(Pushed, f)) = Flattened(Coded(Pushed, g))
    BY PushIsFlattened
<1>2. Pushed \in [Txt -> Seq(Nat)] /\ \A t \in Txt : Pushed[t] # <<>>
    BY PushedType
<1> QED BY <1>1, <1>2, PushedTold, FlattenedOnce

-----------------------------------------------------------------------------
(* Vectors of texts and entries *)

Counts == [l \in Seq(Txt) |-> Counted(l)]

LEMMA NumberIsText == \A n \in Nat : U64(n) \in Txt
    BY DEF U64, Txt

LEMMA CountedType ==
    ASSUME NEW l \in Seq(Txt)
    PROVE  <<U64(Len(l))>> \in Seq(Txt) /\ Counted(l) \in Seq(Txt)
<1> DEFINE n == U64(Len(l))
<1>1. n \in Txt
    BY NumberIsText
<1> HIDE DEF n
<1>2. <<n>> \in Seq(Txt) /\ <<n>> \o l \in Seq(Txt)
    BY <1>1
<1> QED BY <1>2 DEF Counted, n

\* A vector whose length is written before it is told from what follows it.
CountedApart(k, l, c, d) == Counted(k) \o c = Counted(l) \o d => k = l /\ c = d

LEMMA CountedTold ==
    \A k, l \in Seq(Txt) : \A c, d \in Seq(Txt) : CountedApart(k, l, c, d)
<1> SUFFICES ASSUME NEW k \in Seq(Txt), NEW l \in Seq(Txt), NEW c \in Seq(Txt), NEW d \in Seq(Txt),
                    Counted(k) \o c = Counted(l) \o d
             PROVE  k = l /\ c = d
    BY DEF CountedApart
<1> DEFINE nk == <<U64(Len(k))>>
           nl == <<U64(Len(l))>>
<1>1. /\ nk \in Seq(Txt) /\ nl \in Seq(Txt) /\ Len(nk) = Len(nl)
      /\ nk = nl => Len(k) = Len(l)
    BY CountedType DEF U64
<1>2. Counted(k) = nk \o k /\ Counted(l) = nl \o l
    BY DEF Counted
<1> HIDE DEF nk, nl
<1>3. Regroups(nk, k, c) /\ Regroups(nl, l, d)
    BY <1>1, AllRegroup, Zenon
<1>4. nk \o (k \o c) = nl \o (l \o d)
    BY <1>2, <1>3 DEF Regroups
<1>5. k \o c \in Seq(Txt) /\ l \o d \in Seq(Txt)
    OBVIOUS
<1>6. Cut(nk, nl, k \o c, l \o d)
    <2>1. \A r, s \in Seq(Txt) : Cut(nk, nl, r, s)
        BY <1>1, CutAll
    <2> QED BY <1>5, <2>1, Zenon
<1>7. nk = nl /\ k \o c = l \o d
    BY <1>4, <1>6, Zenon DEF Cut
<1>8. Len(k) = Len(l)
    BY <1>1, <1>7
<1>9. Cut(k, l, c, d)
    <2>1. \A r, s \in Seq(Txt) : Cut(k, l, r, s)
        BY <1>8, CutAll
    <2> QED BY <2>1, Zenon
<1> QED BY <1>7, <1>9, Zenon DEF Cut

Entered == [e \in AnyEntry |-> EntryFields(e)]

\* The parts of the fields of an entry, from the first to the last.
LEMMA EntryParts ==
    ASSUME NEW e \in AnyEntry
    PROVE  /\ <<e.cid, e.title>> \in Seq(Txt) /\ <<e.mode>> \in Seq(Txt)
           /\ Counted(e.tags) \in Seq(Txt) /\ Counted(e.tools) \in Seq(Txt)
           /\ EntryFields(e) \in Seq(Txt)
<1>1. /\ e.cid \in Txt /\ e.title \in Txt /\ e.mode \in Txt
      /\ e.tags \in Seq(Txt) /\ e.tools \in Seq(Txt)
    BY DEF AnyEntry
<1>2. <<e.cid, e.title>> \in Seq(Txt) /\ <<e.mode>> \in Seq(Txt)
    BY <1>1
<1>3. Counted(e.tags) \in Seq(Txt) /\ Counted(e.tools) \in Seq(Txt)
    BY <1>1, CountedType
<1> DEFINE a == <<e.cid, e.title>>
           b == Counted(e.tags)
           m == <<e.mode>>
           t == Counted(e.tools)
<1>4. EntryFields(e) = a \o b \o m \o t
    BY DEF EntryFields
<1>5. a \in Seq(Txt) /\ b \in Seq(Txt) /\ m \in Seq(Txt) /\ t \in Seq(Txt)
    BY <1>2, <1>3
<1> HIDE DEF a, b, m, t
<1>6. a \o b \o m \o t \in Seq(Txt)
    BY <1>5
<1> QED BY <1>2, <1>3, <1>4, <1>6

\* What follows the parts of one entry, one after the other.
LEMMA EntryFollowed ==
    ASSUME NEW e \in AnyEntry, NEW c \in Seq(Txt)
    PROVE  /\ EntryFields(e) \o c =
                <<e.cid, e.title>> \o (Counted(e.tags) \o (<<e.mode>> \o (Counted(e.tools) \o c)))
           /\ Counted(e.tags) \o (<<e.mode>> \o (Counted(e.tools) \o c)) \in Seq(Txt)
           /\ <<e.mode>> \o (Counted(e.tools) \o c) \in Seq(Txt)
           /\ Counted(e.tools) \o c \in Seq(Txt)
<1> DEFINE a == <<e.cid, e.title>>
           b == Counted(e.tags)
           m == <<e.mode>>
           t == Counted(e.tools)
<1>1. EntryFields(e) = ((a \o b) \o m) \o t
    BY DEF EntryFields
<1>2. a \in Seq(Txt) /\ b \in Seq(Txt) /\ m \in Seq(Txt) /\ t \in Seq(Txt)
    BY EntryParts
<1> HIDE DEF a, b, m, t
<1>3. /\ t \o c \in Seq(Txt) /\ m \o (t \o c) \in Seq(Txt) /\ b \o (m \o (t \o c)) \in Seq(Txt)
      /\ a \o b \in Seq(Txt) /\ (a \o b) \o m \in Seq(Txt)
    BY <1>2
<1>4. Regroups((a \o b) \o m, t, c)
    BY <1>2, <1>3, AllRegroup, Zenon
<1>5. Regroups(a \o b, m, t \o c)
    BY <1>2, <1>3, AllRegroup, Zenon
<1>6. Regroups(a, b, m \o (t \o c))
    BY <1>2, <1>3, AllRegroup, Zenon
<1>7. EntryFields(e) \o c = a \o (b \o (m \o (t \o c)))
    BY <1>1, <1>4, <1>5, <1>6, Zenon DEF Regroups
<1> QED BY <1>3, <1>7 DEF a, b, m, t

LEMMA EntriesTold == SelfDelimiting(Entered, AnyEntry, Txt)
<1> SUFFICES ASSUME NEW u \in AnyEntry, NEW v \in AnyEntry, NEW c \in Seq(Txt), NEW d \in Seq(Txt),
                    Entered[u] \o c = Entered[v] \o d
             PROVE  u = v /\ c = d
    BY Zenon DEF SelfDelimiting, Apart
<1>0. EntryFields(u) \o c = EntryFields(v) \o d
    BY DEF Entered
<1> DEFINE tu == Counted(u.tools) \o c
           tv == Counted(v.tools) \o d
           mu == <<u.mode>> \o tu
           mv == <<v.mode>> \o tv
           gu == Counted(u.tags) \o mu
           gv == Counted(v.tags) \o mv
           hu == <<u.cid, u.title>>
           hv == <<v.cid, v.title>>
           ou == <<u.mode>>
           ov == <<v.mode>>
<1>1. /\ EntryFields(u) \o c = hu \o gu /\ EntryFields(v) \o d = hv \o gv
      /\ gu \in Seq(Txt) /\ gv \in Seq(Txt) /\ mu \in Seq(Txt) /\ mv \in Seq(Txt)
      /\ tu \in Seq(Txt) /\ tv \in Seq(Txt)
    BY EntryFollowed
<1>2. /\ u.tags \in Seq(Txt) /\ v.tags \in Seq(Txt) /\ u.tools \in Seq(Txt) /\ v.tools \in Seq(Txt)
      /\ hu \in Seq(Txt) /\ hv \in Seq(Txt) /\ ou \in Seq(Txt) /\ ov \in Seq(Txt)
      /\ Len(hu) = Len(hv) /\ Len(ou) = Len(ov)
      /\ hu = hv => u.cid = v.cid /\ u.title = v.title
      /\ ou = ov => u.mode = v.mode
    BY EntryParts DEF AnyEntry
<1>3. mu = ou \o tu /\ mv = ov \o tv /\ gu = Counted(u.tags) \o mu /\ gv = Counted(v.tags) \o mv
      /\ tu = Counted(u.tools) \o c /\ tv = Counted(v.tools) \o d
    OBVIOUS
<1> HIDE DEF tu, tv, mu, mv, gu, gv, hu, hv, ou, ov
<1>4. hu = hv /\ gu = gv
    <2>1. \A r, s \in Seq(Txt) : Cut(hu, hv, r, s)
        BY <1>2, CutAll
    <2> QED BY <1>0, <1>1, <2>1, Zenon DEF Cut
<1>5. u.tags = v.tags /\ mu = mv
    <2>1. CountedApart(u.tags, v.tags, mu, mv)
        BY <1>1, <1>2, CountedTold, Zenon
    <2> QED BY <1>3, <1>4, <2>1 DEF CountedApart
<1>6. ou = ov /\ tu = tv
    <2>1. \A r, s \in Seq(Txt) : Cut(ou, ov, r, s)
        BY <1>2, CutAll
    <2> QED BY <1>1, <1>3, <1>5, <2>1, Zenon DEF Cut
<1>7. u.tools = v.tools /\ c = d
    <2>1. CountedApart(u.tools, v.tools, c, d)
        BY <1>2, CountedTold, Zenon
    <2> QED BY <1>3, <1>6, <2>1 DEF CountedApart
<1>8. u = v
    <2>1. /\ u.cid = v.cid /\ u.title = v.title /\ u.tags = v.tags
          /\ u.mode = v.mode /\ u.tools = v.tools
        BY <1>2, <1>4, <1>5, <1>6, <1>7
    <2>2. \A e \in AnyEntry : e = [cid |-> e.cid, title |-> e.title, tags |-> e.tags,
                                  mode |-> e.mode, tools |-> e.tools]
        BY DEF AnyEntry
    <2> QED BY <2>1, <2>2, Zenon
<1> QED BY <1>7, <1>8

LEMMA EnteredType == Entered \in [AnyEntry -> Seq(Txt)]
    BY EntryParts DEF Entered

-----------------------------------------------------------------------------
(* Documents *)

Profile(f) ==
    <<<<0>>, U64(f.seq), f.name, f.description, IF f.avatar = NoAvatar THEN <<>> ELSE f.avatar,
      U64(Len(f.entries))>>

LEMMA FirstStays ==
    ASSUME NEW T, NEW p \in Seq(T), NEW r \in Seq(T), Len(p) > 0
    PROVE  p \o r \in Seq(T) /\ (p \o r)[1] = p[1]
    OBVIOUS

LEMMA FeedParts ==
    ASSUME NEW f \in AnyFeed
    PROVE  /\ Profile(f) \in Seq(Txt) /\ Len(Profile(f)) = 6 /\ Profile(f)[1] = <<0>>
           /\ Flattened(Coded(Entered, f.entries)) \in Seq(Txt)
           /\ FeedFields(f) = Profile(f) \o Flattened(Coded(Entered, f.entries))
<1>1. /\ f.seq \in Nat /\ f.name \in Txt /\ f.description \in Txt
      /\ f.avatar \in {NoAvatar} \cup (Txt \ {<<>>}) /\ f.entries \in Seq(AnyEntry)
    BY DEF AnyFeed
<1>2. Profile(f) \in Seq(Txt)
    <2> DEFINE a == <<0>>
               n == U64(f.seq)
               v == IF f.avatar = NoAvatar THEN <<>> ELSE f.avatar
               l == U64(Len(f.entries))
    <2>1. a \in Txt /\ n \in Txt /\ l \in Txt
        <3>1. a \in Txt
            BY DEF Txt
        <3>2. Len(f.entries) \in Nat
            BY <1>1
        <3> QED BY <1>1, <3>1, <3>2, NumberIsText
    <2>2. v \in Txt
        BY <1>1 DEF Txt
    <2>3. Profile(f) = <<a, n, f.name, f.description, v, l>>
        BY DEF Profile
    <2> HIDE DEF a, n, v, l
    <2> QED BY <1>1, <2>1, <2>2, <2>3
<1>3. Len(Profile(f)) = 6 /\ Profile(f)[1] = <<0>>
    BY DEF Profile
<1>4. Coded(Entered, f.entries) \in Seq(Seq(Txt))
    BY <1>1, EnteredType, CodedType
<1>5. Flattened(Coded(Entered, f.entries)) \in Seq(Txt)
    BY <1>4, FlattenedType
<1>6. [i \in DOMAIN f.entries |-> EntryFields(f.entries[i])] = Coded(Entered, f.entries)
    <2>1. \A i \in DOMAIN f.entries : Entered[f.entries[i]] = EntryFields(f.entries[i])
        BY <1>1 DEF Entered
    <2> QED BY <2>1 DEF Coded
<1> QED BY <1>2, <1>3, <1>5, <1>6 DEF FeedFields, Profile

Head4(d) == <<<<1>>, d.name, d.updated, U64(d.seq)>>

LEMMA ListParts ==
    ASSUME NEW d \in AnyList
    PROVE  /\ Head4(d) \in Seq(Txt) /\ Len(Head4(d)) = 4 /\ Head4(d)[1] = <<1>>
           /\ Counted(d.cids) \in Seq(Txt) /\ Counted(d.keys) \in Seq(Txt)
           /\ Counted(d.cids) \o Counted(d.keys) \in Seq(Txt)
           /\ DenylistFields(d) = Head4(d) \o (Counted(d.cids) \o Counted(d.keys))
<1>1. /\ d.seq \in Nat /\ d.name \in Txt /\ d.updated \in Txt
      /\ d.cids \in Seq(Txt) /\ d.keys \in Seq(Txt)
    BY DEF AnyList
<1>2. Head4(d) \in Seq(Txt)
    <2> DEFINE a == <<1>>
               n == U64(d.seq)
    <2>1. a \in Txt /\ n \in Txt
        BY <1>1, NumberIsText DEF Txt
    <2>2. Head4(d) = <<a, d.name, d.updated, n>>
        BY DEF Head4
    <2> HIDE DEF a, n
    <2> QED BY <1>1, <2>1, <2>2
<1>3. Len(Head4(d)) = 4 /\ Head4(d)[1] = <<1>>
    BY DEF Head4
<1>4. Counted(d.cids) \in Seq(Txt) /\ Counted(d.keys) \in Seq(Txt)
    BY <1>1, CountedType
<1>5. DenylistFields(d) = (Head4(d) \o Counted(d.cids)) \o Counted(d.keys)
    BY DEF DenylistFields, Head4
<1>6. Regroups(Head4(d), Counted(d.cids), Counted(d.keys))
    BY <1>2, <1>4, AllRegroup, Zenon
<1>7. DenylistFields(d) = Head4(d) \o (Counted(d.cids) \o Counted(d.keys))
    BY <1>5, <1>6, Zenon DEF Regroups
<1>8. Counted(d.cids) \o Counted(d.keys) \in Seq(Txt)
    BY <1>4
<1> QED BY <1>2, <1>3, <1>4, <1>7, <1>8

LEMMA ReportParts ==
    ASSUME NEW r \in AnyReport
    PROVE  ReportFields(r) \in Seq(Txt) /\ ReportFields(r)[1] = <<1, 0>>
<1> DEFINE a == <<1, 0>>
<1>1. a \in Txt /\ r.cid \in Txt /\ r.reason \in Txt
    BY DEF AnyReport, Txt
<1>2. ReportFields(r) = <<a, r.cid, r.reason>>
    BY DEF ReportFields
<1> HIDE DEF a
<1>3. ReportFields(r) \in Seq(Txt) /\ ReportFields(r)[1] = a
    BY <1>1, <1>2
<1> QED BY <1>3 DEF a

\* The first field says of which kind a document is.
AnyDocument == AnyFeed \cup AnyList \cup AnyReport

Tag(kind) == CASE kind = "feed" -> <<0>> [] kind = "list" -> <<1>> [] kind = "report" -> <<1, 0>>

LEMMA FieldsTagged ==
    ASSUME NEW d \in AnyDocument
    PROVE  /\ Fields(d) \in Seq(Txt) /\ Fields(d)[1] = Tag(d.kind)
           /\ d.kind = "feed" => d \in AnyFeed /\ Fields(d) = FeedFields(d)
           /\ d.kind = "list" => d \in AnyList /\ Fields(d) = DenylistFields(d)
           /\ d.kind = "report" => d \in AnyReport /\ Fields(d) = ReportFields(d)
           /\ d.kind \in {"feed", "list", "report"}
<1>1. CASE d \in AnyFeed
    <2>1. d.kind = "feed"
        BY <1>1 DEF AnyFeed
    <2>2. Fields(d) = FeedFields(d) /\ Tag(d.kind) = <<0>>
        BY <2>1 DEF Fields, Tag
    <2> DEFINE p == Profile(d)
               j == Flattened(Coded(Entered, d.entries))
    <2>3. p \in Seq(Txt) /\ j \in Seq(Txt) /\ Len(p) = 6 /\ p[1] = <<0>> /\ FeedFields(d) = p \o j
        BY <1>1, FeedParts
    <2> HIDE DEF p, j
    <2>0. p \o j \in Seq(Txt) /\ (p \o j)[1] = p[1]
        <3>1. p \in Seq(Txt) /\ j \in Seq(Txt) /\ Len(p) > 0
            BY <2>3
        <3>2. \A T : \A q, r \in Seq(T) : Len(q) > 0 => q \o r \in Seq(T) /\ (q \o r)[1] = q[1]
            BY FirstStays
        <3> QED BY <3>1, <3>2
    <2>4. FeedFields(d) \in Seq(Txt) /\ FeedFields(d)[1] = <<0>>
        BY <2>0, <2>3
    <2> QED BY <1>1, <2>1, <2>2, <2>4
<1>2. CASE d \in AnyList
    <2>1. d.kind = "list"
        BY <1>2 DEF AnyList
    <2>2. Fields(d) = DenylistFields(d) /\ Tag(d.kind) = <<1>>
        BY <2>1 DEF Fields, Tag
    <2> DEFINE p == Head4(d)
               j == Counted(d.cids) \o Counted(d.keys)
    <2>3. p \in Seq(Txt) /\ j \in Seq(Txt) /\ Len(p) = 4 /\ p[1] = <<1>> /\ DenylistFields(d) = p \o j
        BY <1>2, ListParts
    <2> HIDE DEF p, j
    <2>0. p \o j \in Seq(Txt) /\ (p \o j)[1] = p[1]
        <3>1. p \in Seq(Txt) /\ j \in Seq(Txt) /\ Len(p) > 0
            BY <2>3
        <3>2. \A T : \A q, r \in Seq(T) : Len(q) > 0 => q \o r \in Seq(T) /\ (q \o r)[1] = q[1]
            BY FirstStays
        <3> QED BY <3>1, <3>2
    <2>4. DenylistFields(d) \in Seq(Txt) /\ DenylistFields(d)[1] = <<1>>
        BY <2>0, <2>3
    <2> QED BY <1>2, <2>1, <2>2, <2>4
<1>3. CASE d \in AnyReport
    <2>1. d.kind = "report"
        BY <1>3 DEF AnyReport
    <2>2. Fields(d) = ReportFields(d) /\ Tag(d.kind) = <<1, 0>>
        BY <2>1 DEF Fields, Tag
    <2> QED BY <1>3, <2>1, <2>2, ReportParts
<1> QED BY <1>1, <1>2, <1>3 DEF AnyDocument

LEMMA FeedsTold ==
    ASSUME NEW f \in AnyFeed, NEW g \in AnyFeed, FeedFields(f) = FeedFields(g)
    PROVE  f = g
<1> DEFINE pf == Profile(f)
           pg == Profile(g)
           jf == Flattened(Coded(Entered, f.entries))
           jg == Flattened(Coded(Entered, g.entries))
<1>1. /\ pf \in Seq(Txt) /\ pg \in Seq(Txt) /\ Len(pf) = Len(pg) /\ jf \in Seq(Txt) /\ jg \in Seq(Txt)
      /\ pf \o jf = pg \o jg
    BY FeedParts
<1>2. /\ \A h \in AnyFeed : h = [kind |-> "feed", seq |-> h.seq, name |-> h.name,
                                  description |-> h.description, avatar |-> h.avatar,
                                  entries |-> h.entries]
    BY DEF AnyFeed
<1>3. pf = pg /\ jf = jg
    <2> HIDE DEF pf, pg, jf, jg
    <2>1. \A r, s \in Seq(Txt) : Cut(pf, pg, r, s)
        BY <1>1, CutAll
    <2> QED BY <1>1, <2>1, Zenon DEF Cut
<1>4. /\ U64(f.seq) = U64(g.seq) /\ f.name = g.name /\ f.description = g.description
      /\ (IF f.avatar = NoAvatar THEN <<>> ELSE f.avatar) = (IF g.avatar = NoAvatar THEN <<>> ELSE g.avatar)
      /\ U64(Len(f.entries)) = U64(Len(g.entries))
    BY <1>3 DEF Profile
<1>5. f.seq = g.seq /\ Len(f.entries) = Len(g.entries)
    BY <1>4 DEF U64
<1>6. f.avatar = g.avatar
    BY <1>4 DEF AnyFeed
<1>7. f.entries = g.entries
    <2>1. f.entries \in Seq(AnyEntry) /\ g.entries \in Seq(AnyEntry)
        BY DEF AnyFeed
    <2>2. ListsTold(Entered, f.entries, g.entries, Txt)
        BY <1>5, <2>1, EnteredType, EntriesTold, FlattenedTold
    <2>3. <<>> \in Seq(Txt) /\ jf \o <<>> = jg \o <<>>
        BY <1>3
    <2> QED BY <2>2, <2>3, Zenon DEF ListsTold
<1> QED BY <1>2, <1>4, <1>5, <1>6, <1>7, Zenon

LEMMA ListsOfCidsTold ==
    ASSUME NEW c \in AnyList, NEW d \in AnyList, DenylistFields(c) = DenylistFields(d)
    PROVE  c = d
<1> DEFINE pc == Head4(c)
           pd == Head4(d)
           kc == Counted(c.keys)
           kd == Counted(d.keys)
           jc == Counted(c.cids) \o kc
           jd == Counted(d.cids) \o kd
<1>1. /\ pc \in Seq(Txt) /\ pd \in Seq(Txt) /\ Len(pc) = Len(pd) /\ jc \in Seq(Txt) /\ jd \in Seq(Txt)
      /\ kc \in Seq(Txt) /\ kd \in Seq(Txt) /\ pc \o jc = pd \o jd
    BY ListParts
<1>2. /\ \A h \in AnyList : h = [kind |-> "list", seq |-> h.seq, name |-> h.name,
                                  updated |-> h.updated, cids |-> h.cids, keys |-> h.keys]
      /\ c.cids \in Seq(Txt) /\ d.cids \in Seq(Txt) /\ c.keys \in Seq(Txt) /\ d.keys \in Seq(Txt)
    BY DEF AnyList
<1>3. pc = pd /\ jc = jd
    <2> HIDE DEF pc, pd, jc, jd
    <2>1. \A r, s \in Seq(Txt) : Cut(pc, pd, r, s)
        BY <1>1, CutAll
    <2> QED BY <1>1, <2>1, Zenon DEF Cut
<1>4. c.name = d.name /\ c.updated = d.updated /\ U64(c.seq) = U64(d.seq)
    BY <1>3 DEF Head4
<1>5. c.seq = d.seq
    BY <1>4 DEF U64
<1>6. c.cids = d.cids /\ kc = kd
    <2>1. CountedApart(c.cids, d.cids, kc, kd)
        BY <1>1, <1>2, CountedTold, Zenon
    <2> QED BY <1>3, <2>1, Zenon DEF CountedApart
<1>7. c.keys = d.keys
    <2>1. <<>> \in Seq(Txt) /\ kc \o <<>> = kd \o <<>>
        BY <1>6
    <2>2. CountedApart(c.keys, d.keys, <<>>, <<>>)
        BY <1>2, <2>1, CountedTold, Zenon
    <2> QED BY <2>1, <2>2, Zenon DEF CountedApart
<1> QED BY <1>2, <1>4, <1>5, <1>6, <1>7, Zenon

\* The bytes that are signed of a feed, a denylist or a report are those of no other
\* document: of no other fields, vector, entry or kind (signing_bytes and push_field).
THEOREM SignedBytesAreRead ==
    \A c, d \in AnyDocument : Push(Fields(c)) = Push(Fields(d)) => c = d
<1> SUFFICES ASSUME NEW c \in AnyDocument, NEW d \in AnyDocument, Push(Fields(c)) = Push(Fields(d))
             PROVE  c = d
    OBVIOUS
<1>1. Fields(c) = Fields(d)
    <2>1. Fields(c) \in Seq(Txt) /\ Fields(d) \in Seq(Txt)
        BY FieldsTagged
    <2> QED BY <2>1, FieldsAreTold
<1>2. Tag(c.kind) = Tag(d.kind) /\ c.kind \in {"feed", "list", "report"}
      /\ d.kind \in {"feed", "list", "report"}
    BY <1>1, FieldsTagged
<1>3. c.kind = d.kind
    BY <1>2 DEF Tag
<1>4. CASE c.kind = "feed"
    <2>1. c \in AnyFeed /\ d \in AnyFeed /\ FeedFields(c) = FeedFields(d)
        BY <1>1, <1>3, <1>4, FieldsTagged
    <2> QED BY <2>1, FeedsTold
<1>5. CASE c.kind = "list"
    <2>1. c \in AnyList /\ d \in AnyList /\ DenylistFields(c) = DenylistFields(d)
        BY <1>1, <1>3, <1>5, FieldsTagged
    <2> QED BY <2>1, ListsOfCidsTold
<1>6. CASE c.kind = "report"
    <2>1. c \in AnyReport /\ d \in AnyReport /\ ReportFields(c) = ReportFields(d)
        BY <1>1, <1>3, <1>6, FieldsTagged
    <2>2. c.cid = d.cid /\ c.reason = d.reason
        BY <2>1 DEF ReportFields
    <2>3. \A h \in AnyReport : h = [kind |-> "report", cid |-> h.cid, reason |-> h.reason]
        BY DEF AnyReport
    <2> QED BY <2>1, <2>2, <2>3, Zenon
<1> QED BY <1>2, <1>4, <1>5, <1>6

-----------------------------------------------------------------------------
(* The documents that TLC enumerates *)

LEMMA UpToType == ASSUME NEW S, NEW n \in Nat PROVE UpTo(n, S) \subseteq Seq(S)
    BY DEF UpTo

LEMMA SmallTexts ==
    /\ Text \subseteq Txt /\ Word \subseteq Txt /\ Name \subseteq Txt
    /\ Entries \subseteq AnyEntry
    /\ UpTo(2, Entries) \subseteq Seq(AnyEntry) /\ UpTo(2, Name) \subseteq Seq(Txt)
<1>1. Text \subseteq Txt
    <2>1. Text \subseteq Seq(Byte) /\ Byte \subseteq Nat
        BY UpToType DEF Text, Byte
    <2>2. \A t \in Seq(Byte) : t \in Seq(Nat)
        BY <2>1, SeqMonotonic
    <2> QED BY <2>1, <2>2 DEF Txt
<1>2. Word \subseteq Txt /\ Name \subseteq Txt
    BY DEF Word, Name, Txt
<1>3. Entries \subseteq AnyEntry
    <2>1. UpTo(1, Word) \subseteq Seq(Word)
        BY UpToType
    <2>2. \A t \in Seq(Word) : t \in Seq(Txt)
        BY <1>2, SeqMonotonic
    <2> QED BY <1>2, <2>1, <2>2 DEF Entries, AnyEntry
<1>4. UpTo(2, Entries) \subseteq Seq(AnyEntry)
    <2>1. UpTo(2, Entries) \subseteq Seq(Entries)
        BY UpToType
    <2>2. \A t \in Seq(Entries) : t \in Seq(AnyEntry)
        BY <1>3, SeqMonotonic
    <2> QED BY <2>1, <2>2
<1>5. UpTo(2, Name) \subseteq Seq(Txt)
    <2>1. UpTo(2, Name) \subseteq Seq(Name)
        BY UpToType
    <2>2. \A t \in Seq(Name) : t \in Seq(Txt)
        BY <1>2, SeqMonotonic
    <2> QED BY <2>1, <2>2
<1> QED BY <1>1, <1>2, <1>3, <1>4, <1>5

LEMMA SortedType ==
    /\ \A l \in Seq(AnyEntry) : ByCid(l) \in Seq(AnyEntry)
    /\ \A l \in Seq(Txt) : Sorted(l) \in Seq(Txt)
<1>1. \A l \in Seq(AnyEntry) : \A n : Of(l, n) \in Seq(AnyEntry)
    BY RetainedType DEF Of
<1>2. \A l \in Seq(Txt) : \A S : Retained(l, S) \in Seq(Txt)
    BY RetainedType
<1>3. \A T : \A p, q \in Seq(T) : p \o q \in Seq(T)
    OBVIOUS
<1> QED BY <1>1, <1>2, <1>3 DEF ByCid, Sorted

LEMMA ContentType == \A d \in Documents : Content(d) \in AnyDocument
<1> TAKE d \in Documents
<1>1. CASE d \in Feeds
    <2>1. /\ d.kind = "feed" /\ d.seq \in Nat /\ d.name \in Txt /\ d.description \in Txt
          /\ d.avatar \in {NoAvatar} \cup Txt
          /\ d = [kind |-> "feed", seq |-> d.seq, name |-> d.name, description |-> d.description,
                  avatar |-> d.avatar, entries |-> d.entries]
        <3>0. <<>> \in Txt /\ 1 \in Nat /\ 1 .. 2 \subseteq Nat
            BY DEF Txt
        <3> DEFINE Wide == [kind: {"feed"}, seq: Nat, name: Txt, description: Txt,
                            avatar: {NoAvatar} \cup Txt,
                            entries: UpTo(2, Entries) \cup {<<>>} \cup {<<e>> : e \in Entries}]
        <3>1. CASE d \in [kind: {"feed"}, seq: {1}, name: {<<>>}, description: {<<>>},
                          avatar: {NoAvatar}, entries: UpTo(2, Entries)]
            <4> HIDE DEF Wide
            <4>1. d \in Wide
                BY <3>0, <3>1 DEF Wide
            <4> QED BY <4>1 DEF Wide
        <3>2. CASE d \in [kind: {"feed"}, seq: 1 .. 2, name: Text, description: Text,
                          avatar: {NoAvatar} \cup Word, entries: {<<>>} \cup
                          {<<e>> : e \in {h \in Entries : h.title = <<>> /\ h.tools = <<>>}}]
            <4>1. d \in Wide
                BY <3>0, <3>2, SmallTexts
            <4> QED BY <4>1
        <3> QED BY <1>1, <3>1, <3>2 DEF Feeds
    <2>2. d.entries \in Seq(AnyEntry)
        <3>1. CASE d.entries \in UpTo(2, Entries)
            BY <3>1, SmallTexts
        <3>2. CASE d.entries = <<>>
            BY <3>2
        <3>3. ASSUME NEW e \in Entries, d.entries = <<e>> PROVE d.entries \in Seq(AnyEntry)
            <4>1. e \in AnyEntry
                BY SmallTexts
            <4> QED BY <3>3, <4>1
        <3> QED BY <1>1, <3>1, <3>2, <3>3 DEF Feeds
    <2>3. d.avatar # <<>>
        BY <2>1 DEF Documents, WellFormed
    <2>4. Content(d) = [kind |-> "feed", seq |-> d.seq, name |-> d.name, description |-> d.description,
                        avatar |-> d.avatar, entries |-> ByCid(d.entries)]
        BY <2>1 DEF Content
    <2>5. ByCid(d.entries) \in Seq(AnyEntry)
        BY <2>2, SortedType
    <2>6. Content(d) \in AnyFeed
        BY <2>1, <2>3, <2>4, <2>5 DEF AnyFeed
    <2> QED BY <2>6 DEF AnyDocument
<1>2. CASE d \in Denylists
    <2>1. /\ d.kind = "list" /\ d.seq \in Nat /\ d.name \in Txt /\ d.updated \in Txt
          /\ d.cids \in Seq(Txt) /\ d.keys \in Seq(Txt)
          /\ d = [kind |-> "list", seq |-> d.seq, name |-> d.name, updated |-> d.updated,
                  cids |-> d.cids, keys |-> d.keys]
        BY <1>2, SmallTexts DEF Denylists
    <2>2. Content(d) = [kind |-> "list", seq |-> d.seq, name |-> d.name, updated |-> d.updated,
                        cids |-> Sorted(d.cids), keys |-> Sorted(d.keys)]
        BY <2>1 DEF Content
    <2>3. Content(d) \in AnyList
        BY <2>1, <2>2, SortedType DEF AnyList
    <2> QED BY <2>3 DEF AnyDocument
<1>3. CASE d \in Reports
    <2>1. d \in AnyReport /\ Content(d) = d
        BY <1>3, SmallTexts DEF Reports, AnyReport, Content
    <2> QED BY <2>1 DEF AnyDocument
<1> QED BY <1>1, <1>2, <1>3 DEF Documents

--------------------------------------------------------------------------------
(* TLC can enumerate them *)

\* What a map from a finite set reaches is finite.
LEMMA FiniteReach ==
    ASSUME NEW S, IsFiniteSet(S), NEW f, NEW T, \A t \in T : \E s \in S : f[s] = t
    PROVE  IsFiniteSet(T)
<1> DEFINE R == {s \in S : f[s] \in T}
           g == [s \in R |-> f[s]]
<1>1. IsFiniteSet(R)
    BY FS_Subset
<1>2. g \in Surjection(R, T)
    BY DEF Surjection
<1> HIDE DEF R, g
<1> QED BY <1>1, <1>2, FS_Surjection

LEMMA UpToFinite ==
    ASSUME NEW S, IsFiniteSet(S)
    PROVE  IsFiniteSet(UpTo(1, S)) /\ IsFiniteSet(UpTo(2, S))
<1> DEFINE one == [a \in S |-> <<a>>]
           two == [p \in S \X S |-> <<p[1], p[2]>>]
           One == [1 .. 1 -> S]
           Two == [1 .. 2 -> S]
<1>0. [1 .. 0 -> S] = {<<>>} /\ IsFiniteSet({<<>>})
    <2>1. ASSUME NEW h \in [1 .. 0 -> S] PROVE h = <<>>
        <3>1. h \in Seq(S) /\ Len(h) = 0
            OBVIOUS
        <3> QED BY <3>1, EmptySeq
    <2>2. <<>> \in [1 .. 0 -> S]
        OBVIOUS
    <2>3. [1 .. 0 -> S] = {<<>>}
        BY <2>1, <2>2
    <2> QED BY <2>3, FS_Singleton
<1>1. IsFiniteSet(One)
    <2>1. ASSUME NEW h \in One PROVE \E s \in S : one[s] = h
        <3>1. h[1] \in S /\ h = <<h[1]>>
            OBVIOUS
        <3> QED BY <3>1
    <2> HIDE DEF one, One
    <2> QED BY <2>1, FiniteReach
<1>2. IsFiniteSet(Two)
    <2>1. ASSUME NEW h \in Two PROVE \E s \in S \X S : two[s] = h
        <3>1. h[1] \in S /\ h[2] \in S /\ h = <<h[1], h[2]>>
            OBVIOUS
        <3>2. <<h[1], h[2]>> \in S \X S /\ two[<<h[1], h[2]>>] = h
            BY <3>1
        <3> QED BY <3>2
    <2>2. IsFiniteSet(S \X S)
        BY FS_Product
    <2> HIDE DEF two, Two
    <2> QED BY <2>1, <2>2, FiniteReach
<1>3. UpTo(1, S) = [1 .. 0 -> S] \cup One /\ UpTo(2, S) = [1 .. 0 -> S] \cup One \cup Two
    <2>1. 0 .. 1 = {0, 1} /\ 0 .. 2 = {0, 1, 2}
        OBVIOUS
    <2> QED BY <2>1 DEF UpTo
<1> HIDE DEF One, Two
<1>4. IsFiniteSet(UpTo(1, S))
    <2>1. IsFiniteSet([1 .. 0 -> S])
        BY <1>0, Zenon
    <2>2. IsFiniteSet([1 .. 0 -> S] \cup One)
        BY <1>1, <2>1, FS_Union
    <2> QED BY <1>3, <2>2, Zenon
<1>5. UpTo(2, S) = UpTo(1, S) \cup Two
    BY <1>3
<1> QED BY <1>2, <1>4, <1>5, FS_Union

LEMMA ReportsFinite ==
    ASSUME NEW K, NEW A, IsFiniteSet(A), NEW B, IsFiniteSet(B)
    PROVE  IsFiniteSet([kind: {K}, cid: A, reason: B])
<1> DEFINE f == [p \in A \X B |-> [kind |-> K, cid |-> p[1], reason |-> p[2]]]
           R == [kind: {K}, cid: A, reason: B]
<1>1. ASSUME NEW r \in R PROVE \E p \in A \X B : f[p] = r
    <2>1. <<r.cid, r.reason>> \in A \X B
        OBVIOUS
    <2>2. r = [kind |-> K, cid |-> r.cid, reason |-> r.reason]
        OBVIOUS
    <2>3. f[<<r.cid, r.reason>>] = r
        BY <2>1, <2>2
    <2> QED BY <2>1, <2>3
<1>2. IsFiniteSet(A \X B)
    BY FS_Product
<1> HIDE DEF f, R
<1>3. IsFiniteSet(R)
    BY <1>1, <1>2, FiniteReach
<1> QED BY <1>3 DEF R

LEMMA EntriesFinite ==
    ASSUME NEW A, IsFiniteSet(A), NEW B, IsFiniteSet(B), NEW C, IsFiniteSet(C),
           NEW D, IsFiniteSet(D), NEW E, IsFiniteSet(E)
    PROVE  IsFiniteSet([cid: A, title: B, tags: C, mode: D, tools: E])
<1> DEFINE P == (A \X B) \X C
           Q == D \X E
           f == [p \in P \X Q |-> [cid |-> p[1][1][1], title |-> p[1][1][2], tags |-> p[1][2],
                                   mode |-> p[2][1], tools |-> p[2][2]]]
           R == [cid: A, title: B, tags: C, mode: D, tools: E]
<1>1. ASSUME NEW r \in R PROVE \E p \in P \X Q : f[p] = r
    <2> DEFINE p == << << <<r.cid, r.title>>, r.tags>>, <<r.mode, r.tools>> >>
    <2>1. p \in P \X Q
        OBVIOUS
    <2>2. r = [cid |-> r.cid, title |-> r.title, tags |-> r.tags, mode |-> r.mode,
               tools |-> r.tools]
        OBVIOUS
    <2>3. f[p] = r
        BY <2>1, <2>2
    <2> HIDE DEF p
    <2> QED BY <2>1, <2>3
<1>2. IsFiniteSet(P \X Q)
    <2>1. IsFiniteSet(A \X B) /\ IsFiniteSet(Q)
        BY FS_Product
    <2>2. IsFiniteSet(P)
        BY <2>1, FS_Product
    <2> HIDE DEF P, Q
    <2> QED BY <2>1, <2>2, FS_Product
<1> HIDE DEF f, P, Q, R
<1>3. IsFiniteSet(R)
    BY <1>1, <1>2, FiniteReach
<1> QED BY <1>3 DEF R

LEMMA FeedsFinite ==
    ASSUME NEW K, NEW A, IsFiniteSet(A), NEW B, IsFiniteSet(B), NEW C, IsFiniteSet(C),
           NEW D, IsFiniteSet(D), NEW E, IsFiniteSet(E)
    PROVE  IsFiniteSet([kind: {K}, seq: A, name: B, description: C, avatar: D, entries: E])
<1> DEFINE P == (A \X B) \X C
           Q == D \X E
           f == [p \in P \X Q |-> [kind |-> K, seq |-> p[1][1][1], name |-> p[1][1][2],
                                   description |-> p[1][2], avatar |-> p[2][1],
                                   entries |-> p[2][2]]]
           R == [kind: {K}, seq: A, name: B, description: C, avatar: D, entries: E]
<1>1. ASSUME NEW r \in R PROVE \E p \in P \X Q : f[p] = r
    <2> DEFINE p == << << <<r.seq, r.name>>, r.description>>, <<r.avatar, r.entries>> >>
    <2>1. p \in P \X Q
        OBVIOUS
    <2>2. r = [kind |-> K, seq |-> r.seq, name |-> r.name, description |-> r.description,
               avatar |-> r.avatar, entries |-> r.entries]
        OBVIOUS
    <2>3. f[p] = r
        BY <2>1, <2>2
    <2> HIDE DEF p
    <2> QED BY <2>1, <2>3
<1>2. IsFiniteSet(P \X Q)
    <2>1. IsFiniteSet(A \X B) /\ IsFiniteSet(Q)
        BY FS_Product
    <2>2. IsFiniteSet(P)
        BY <2>1, FS_Product
    <2> HIDE DEF P, Q
    <2> QED BY <2>1, <2>2, FS_Product
<1> HIDE DEF f, P, Q, R
<1>3. IsFiniteSet(R)
    BY <1>1, <1>2, FiniteReach
<1> QED BY <1>3 DEF R

LEMMA ListsFinite ==
    ASSUME NEW K, NEW A, IsFiniteSet(A), NEW B, IsFiniteSet(B), NEW C, IsFiniteSet(C),
           NEW D, IsFiniteSet(D), NEW E, IsFiniteSet(E)
    PROVE  IsFiniteSet([kind: {K}, seq: A, name: B, updated: C, cids: D, keys: E])
<1> DEFINE P == (A \X B) \X C
           Q == D \X E
           f == [p \in P \X Q |-> [kind |-> K, seq |-> p[1][1][1], name |-> p[1][1][2],
                                   updated |-> p[1][2], cids |-> p[2][1], keys |-> p[2][2]]]
           R == [kind: {K}, seq: A, name: B, updated: C, cids: D, keys: E]
<1>1. ASSUME NEW r \in R PROVE \E p \in P \X Q : f[p] = r
    <2> DEFINE p == << << <<r.seq, r.name>>, r.updated>>, <<r.cids, r.keys>> >>
    <2>1. p \in P \X Q
        OBVIOUS
    <2>2. r = [kind |-> K, seq |-> r.seq, name |-> r.name, updated |-> r.updated,
               cids |-> r.cids, keys |-> r.keys]
        OBVIOUS
    <2>3. f[p] = r
        BY <2>1, <2>2
    <2> HIDE DEF p
    <2> QED BY <2>1, <2>3
<1>2. IsFiniteSet(P \X Q)
    <2>1. IsFiniteSet(A \X B) /\ IsFiniteSet(Q)
        BY FS_Product
    <2>2. IsFiniteSet(P)
        BY <2>1, FS_Product
    <2> HIDE DEF P, Q
    <2> QED BY <2>1, <2>2, FS_Product
<1> HIDE DEF f, P, Q, R
<1>3. IsFiniteSet(R)
    BY <1>1, <1>2, FiniteReach
<1> QED BY <1>3 DEF R

LEMMA DocumentsFinite == IsFiniteSet(Documents)
<1>1. IsFiniteSet(Word) /\ IsFiniteSet(Name) /\ IsFiniteSet(Byte) /\ IsFiniteSet(1 .. 2)
    <2>1. \A x, y : IsFiniteSet({x, y})
        <3> TAKE x, y
        <3>1. {x, y} = {x} \cup {y}
            OBVIOUS
        <3>2. IsFiniteSet({x}) /\ IsFiniteSet({y})
            BY FS_Singleton
        <3>3. IsFiniteSet({x} \cup {y})
            BY <3>2, FS_Union
        <3> QED BY <3>1, <3>3
    <2>2. IsFiniteSet(Word) /\ IsFiniteSet(Name)
        BY <2>1, Zenon DEF Word, Name
    <2>3. IsFiniteSet(0 .. 1) /\ IsFiniteSet(1 .. 2)
        <3>1. 0 .. 1 = {0, 1} /\ 1 .. 2 = {1, 2}
            OBVIOUS
        <3> QED BY <2>1, <3>1, Zenon
    <2> QED BY <2>2, <2>3, Zenon DEF Byte
<1>2. IsFiniteSet(Text)
    BY <1>1, UpToFinite DEF Text
<1>3. IsFiniteSet(Entries) /\ IsFiniteSet(UpTo(2, Entries))
    BY <1>1, UpToFinite, EntriesFinite DEF Entries
<1>4. IsFiniteSet(Feeds)
    <2> DEFINE bare == {d \in Entries : d.title = <<>> /\ d.tools = <<>>}
               ones == {<<e>> : e \in bare}
               seqs == {<<>>} \cup ones
               pics == {NoAvatar} \cup Word
               long == [kind: {"feed"}, seq: {1}, name: {<<>>}, description: {<<>>},
                        avatar: {NoAvatar}, entries: UpTo(2, Entries)]
               wide == [kind: {"feed"}, seq: 1 .. 2, name: Text, description: Text,
                        avatar: pics, entries: seqs]
    <2>1. \A x : IsFiniteSet({x})
        BY FS_Singleton
    <2>2. IsFiniteSet(pics)
        BY <1>1, <2>1, FS_Union
    <2>3. IsFiniteSet(ones)
        <3> DEFINE f == [e \in bare |-> <<e>>]
        <3>1. IsFiniteSet(bare)
            BY <1>3, FS_Subset
        <3>2. \A t \in ones : \E e \in bare : f[e] = t
            <4> HIDE DEF bare
            <4> QED OBVIOUS
        <3> HIDE DEF f, bare, ones
        <3> QED BY <3>1, <3>2, FiniteReach
    <2>4. IsFiniteSet(seqs)
        <3> HIDE DEF ones
        <3> QED BY <2>1, <2>3, FS_Union
    <2>5. IsFiniteSet(long)
        BY <1>3, <2>1, FeedsFinite
    <2>6. IsFiniteSet(wide)
        <3> HIDE DEF pics, seqs
        <3> QED BY <1>1, <1>2, <2>2, <2>4, FeedsFinite
    <2>7. Feeds = long \cup wide
        BY DEF Feeds
    <2> HIDE DEF long, wide
    <2> QED BY <2>5, <2>6, <2>7, FS_Union
<1>5. IsFiniteSet(Denylists)
    BY <1>1, <1>2, UpToFinite, ListsFinite DEF Denylists
<1>6. IsFiniteSet(Reports)
    BY <1>1, <1>2, ReportsFinite DEF Reports
<1>7. IsFiniteSet(Feeds \cup Denylists \cup Reports)
    BY <1>4, <1>5, <1>6, FS_Union
<1>8. Documents \subseteq Feeds \cup Denylists \cup Reports
    BY DEF Documents
<1> QED BY <1>7, <1>8, FS_Subset

-----------------------------------------------------------------------------
(* SignedMeansOneThing *)

LEMMA OneContent == OneContentPerSignature
<1> DEFINE C == {Content(d) : d \in Documents}
           B == {SigningBytes(d) : d \in Documents}
           f == [c \in C |-> Push(Fields(c))]
           g == [d \in Documents |-> Content(d)]
<1>1. IsFiniteSet(C)
    <2>1. \A c \in C : \E d \in Documents : g[d] = c
        OBVIOUS
    <2> HIDE DEF C, g
    <2> QED BY <2>1, DocumentsFinite, FiniteReach
<1>2. \A d \in Documents : SigningBytes(d) = Push(Fields(Content(d)))
    BY DEF SigningBytes
<1>3. f \in [C -> B] /\ \A b \in B : \E c \in C : f[c] = b
    BY <1>2, Zenon
<1>4. \A c, e \in C : f[c] = f[e] => c = e
    <2>1. C \subseteq AnyDocument
        BY ContentType, Zenon
    <2> HIDE DEF C
    <2> QED BY <2>1, SignedBytesAreRead, Zenon
<1> HIDE DEF f
<1>5. f \in Surjection(C, B) /\ f \in Injection(C, B)
    <2> HIDE DEF C, B
    <2>1. DOMAIN f = C
        BY <1>3
    <2> QED BY <1>3, <1>4, <2>1, Zenon DEF Surjection, Injection, IsInjective
<1>6. Cardinality(B) = Cardinality(C)
    <2> HIDE DEF C, B
    <2> QED BY <1>1, <1>5, FS_Surjection
<1> QED BY <1>6 DEF OneContentPerSignature

THEOREM SignaturesAreUnambiguous == FeedSpec => []SignedMeansOneThing
<1>1. SignedMeansOneThing
    BY OneContent, Zenon DEF SignedMeansOneThing
<1> QED BY <1>1, PTL
================================================================================
