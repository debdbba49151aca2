--------------------------- MODULE RetentionProofs ---------------------------
(***************************************************************************)
(* What SeedNode retains: the bytes that the seed loop commits under the   *)
(* quota, and what is left in the blockstore.                              *)
(***************************************************************************)
EXTENDS SeedNodeProofs, DataLemmas

(* The bytes of an index *)

LEMMA WeightIsSum == \A S : Weight(S) = Sum(Size, S)
BY Zenon DEF Weight, Sum

LEMMA CidSets ==
    ASSUME NEW S \in SUBSET Cid
    PROVE  IsFiniteSet(S) /\ (\A c \in S : Size[c] \in Nat) /\ Weight(S) \in Nat
<1>1. IsFiniteSet(S) /\ \A c \in S : Size[c] \in Nat
    BY CidsFinite, SizeAssumption, FS_Subset DEF Cid
<1> QED BY <1>1, SumType, WeightIsSum

LEMMA WeightOfOneMore ==
    ASSUME NEW S \in SUBSET Cid, NEW c \in Cid
    PROVE  Weight(S \cup {c}) <= Weight(S) + Size[c]
<1>1. Size[c] \in Nat /\ Weight(S) \in Nat /\ IsFiniteSet(S) /\ \A b \in S : Size[b] \in Nat
    BY CidSets, SizeAssumption DEF Cid
<1>2. CASE c \in S
    <2>1. S \cup {c} = S
        BY <1>2
    <2>2. Weight(S \cup {c}) = Weight(S)
        BY <2>1, Zenon
    <2> QED BY <1>1, <2>2
<1>3. CASE c \notin S
    <2>1. Sum(Size, S \cup {c}) = Size[c] + Sum(Size, S)
        BY <1>1, <1>3, SumAdd
    <2>2. Weight(S \cup {c}) = Size[c] + Weight(S)
        BY <2>1, WeightIsSum
    <2> QED BY <1>1, <2>2
<1> QED BY <1>2, <1>3

\* No block is larger than the largest.
LEMMA LargestIsLargest ==
    ASSUME NEW c \in Cid
    PROVE  LargestBlock \in Nat /\ Size[c] <= LargestBlock
<1> DEFINE sizes == {Size[b] : b \in Cid}
           Bounds == {n \in Nat : \A b \in Cid : Size[b] <= n}
           F == {S \in SUBSET Cid : \E n \in Nat : \A b \in S : Size[b] <= n}
<1>0. \A b \in Cid : Size[b] \in Nat
    BY SizeAssumption DEF Cid
<1>1. Cid \in F
    <2>1. IsFiniteSet(Cid) /\ F \in SUBSET SUBSET Cid
        BY CidSets
    <2>2. {} \in F
        OBVIOUS
    <2>3. ASSUME NEW S \in F, NEW b \in Cid \ S PROVE S \cup {b} \in F
        <3>1. PICK n \in Nat : \A d \in S : Size[d] <= n
            OBVIOUS
        <3>2. Size[b] \in Nat /\ n + Size[b] \in Nat
            BY <1>0
        <3>3. \A d \in S \cup {b} : Size[d] <= n + Size[b]
            BY <1>0, <3>1, <3>2
        <3> QED BY <3>2, <3>3
    <2> HIDE DEF F
    <2> QED BY <2>1, <2>2, <2>3, FiniteInduction
<1>2. PICK n \in Bounds : \A k \in Bounds : n <= k
    <2>1. Bounds \in SUBSET Nat /\ Bounds # {}
        BY <1>1
    <2> HIDE DEF Bounds
    <2> QED BY <2>1, LeastNatural
<1>3. n \in sizes
    <2> SUFFICES ASSUME n \notin sizes PROVE FALSE
        OBVIOUS
    <2>1. \A b \in Cid : Size[b] <= n /\ Size[b] # n /\ Size[b] \in Nat
        BY <1>0
    <2>2. n # 0 /\ n - 1 \in Nat
        BY <2>1
    <2>3. n - 1 \in Bounds
        BY <2>1, <2>2
    <2> QED BY <1>2, <2>2, <2>3
<1>4. \A b \in Cid : Size[b] <= n
    BY <1>2
<1>5. LargestBlock \in sizes /\ \A b \in Cid : Size[b] <= LargestBlock
    <2> HIDE DEF sizes, Bounds
    <2> QED BY <1>3, <1>4, Zenon DEF LargestBlock, sizes
<1> QED BY <1>0, <1>5

Bytes == [p \in Publication |-> Weight(p.counted)]

\* h[s] is the sum that TotalBytes takes over s.
IsTotal(h, idx) ==
    h = [s \in SUBSET idx |-> IF s = {} THEN 0
                              ELSE Weight(Pick(s).counted) + h[s \ {Pick(s)}]]

LEMMA TotalIsSum ==
    ASSUME NEW idx \in SUBSET Publication, IsFiniteSet(idx)
    PROVE  /\ TotalBytes(idx) = Sum(Bytes, idx)
           /\ \A p \in idx : Bytes[p] \in Nat
<1>1. \A p \in idx : Bytes[p] = Weight(p.counted) /\ Bytes[p] \in Nat
    BY CidSets DEF Bytes, Publication
<1>2. ASSUME NEW h PROVE IsSum(h, Bytes, idx) <=> IsTotal(h, idx)
    <2>1. \A s \in SUBSET idx : s # {} => Bytes[Pick(s)] = Weight(Pick(s).counted)
        BY <1>1, PickIn
    <2>2. [s \in SUBSET idx |-> IF s = {} THEN 0 ELSE Bytes[Pick(s)] + h[s \ {Pick(s)}]]
           = [s \in SUBSET idx |-> IF s = {} THEN 0
                                   ELSE Weight(Pick(s).counted) + h[s \ {Pick(s)}]]
        BY <2>1
    <2> QED BY <2>2 DEF IsSum, IsTotal
<1> DEFINE iter == CHOOSE h : IsTotal(h, idx)
<1>3. IsTotal(iter, idx)
    <2>1. \E h : IsTotal(h, idx)
        BY <1>2, SumExists
    <2> QED BY <2>1, Zenon
<1>4. TotalBytes(idx) = iter[idx]
    BY Zenon DEF TotalBytes, MapThenSumSet, MapThenFoldSet, IsTotal, Pick
<1>5. Sum(Bytes, idx) = iter[idx]
    <2> HIDE DEF iter
    <2> QED BY <1>1, <1>2, <1>3, SumPart
<1> QED BY <1>1, <1>4, <1>5

LEMMA TotalType ==
    ASSUME NEW idx \in SUBSET Publication, IsFiniteSet(idx)
    PROVE  TotalBytes(idx) \in Nat
BY TotalIsSum, SumType

LEMMA TotalOfInsert ==
    ASSUME NEW idx \in SUBSET Publication, IsFiniteSet(idx),
           NEW i \in Issuer, NEW m \in Manifest, NEW blocks \in SUBSET Cid,
           ~ContainsManifest(idx, m)
    PROVE  TotalBytes(Insert(idx, i, m, blocks)) = TotalBytes(idx) + Weight(blocks)
<1> DEFINE new == [issuer |-> i, manifest |-> m, counted |-> blocks, order |-> Cardinality(idx)]
<1>1. new \in Publication /\ new \notin idx /\ Insert(idx, i, m, blocks) = idx \cup {new}
    BY FS_CardinalityType DEF Publication, ContainsManifest, Insert
<1>2. IsFiniteSet(idx \cup {new}) /\ idx \cup {new} \in SUBSET Publication
    BY <1>1, FS_AddElement
<1>3. Bytes[new] = Weight(blocks)
    BY <1>1 DEF Bytes
<1> HIDE DEF new
<1>4. Sum(Bytes, idx \cup {new}) = Bytes[new] + Sum(Bytes, idx)
    BY <1>1, <1>2, TotalIsSum, SumAdd
<1>5. Weight(blocks) \in Nat /\ TotalBytes(idx) \in Nat
    BY CidSets, TotalType
<1> QED BY <1>1, <1>2, <1>3, <1>4, <1>5, TotalIsSum

\* Removal frees bytes: what stays counts what it counted.
LEMMA TotalOfRemove ==
    ASSUME NEW idx \in SUBSET Publication, IsFiniteSet(idx), NEW gone
    PROVE  TotalBytes(Remove(idx, gone)) <= TotalBytes(idx)
<1> DEFINE kept == idx \ gone
           rank(p) == Cardinality({q \in kept : q.order < p.order})
           r == [p \in kept |-> [p EXCEPT !.order = rank(p)]]
<1>1. IsFiniteSet(kept) /\ kept \in SUBSET Publication /\ kept \in SUBSET idx
    BY FS_Subset
<1>2. ASSUME NEW p \in kept PROVE rank(p) \in Nat
    <2>1. IsFiniteSet({q \in kept : q.order < p.order})
        BY <1>1, FS_Subset, {q \in kept : q.order < p.order} \subseteq kept
    <2> QED BY <2>1, FS_CardinalityType
<1>3. Remove(idx, gone) = {r[p] : p \in kept}
    BY DEF Remove
<1>4. ASSUME NEW p \in kept PROVE Bytes[p] \in Nat /\ Bytes[r[p]] = Bytes[p]
    <2>1. p \in Publication /\ rank(p) \in Nat
        BY <1>1, <1>2
    <2> HIDE DEF rank
    <2>2. r[p] \in Publication /\ r[p].counted = p.counted
        BY <2>1 DEF Publication
    <2> HIDE DEF r, kept
    <2>3. Bytes[p] \in Nat
        BY <1>1, TotalIsSum
    <2> QED BY <2>1, <2>2, <2>3 DEF Bytes
<1> HIDE DEF r
<1>5. Sum(Bytes, {r[p] : p \in kept}) <= Sum(Bytes, kept)
    BY <1>1, <1>4, SumImage
<1>6. Sum(Bytes, kept) <= Sum(Bytes, idx)
    BY <1>1, TotalIsSum, SumSubset
<1>7. Remove(idx, gone) \in SUBSET Publication /\ IsFiniteSet(Remove(idx, gone))
    BY RemoveType
<1>8. /\ TotalBytes(Remove(idx, gone)) = Sum(Bytes, Remove(idx, gone))
      /\ TotalBytes(Remove(idx, gone)) \in Nat
    BY <1>7, TotalIsSum, TotalType
<1>9. /\ TotalBytes(idx) = Sum(Bytes, idx) /\ TotalBytes(idx) \in Nat
      /\ TotalBytes(kept) = Sum(Bytes, kept) /\ TotalBytes(kept) \in Nat
    BY <1>1, TotalIsSum, TotalType
<1> HIDE DEF kept
<1> QED BY <1>3, <1>5, <1>6, <1>8, <1>9

-----------------------------------------------------------------------------
(* The invariants *)

\* A foreground task is one of those that occur.
KindInv == \A v \in Viewer : viewer[v].pc # "idle" => viewer[v].kind \in Allowed

\* make_room_for has ensured that the blocks fetched so far fit below the quota; the
\* last block comes on top, and nothing but the loop's own commit adds to the index.
QuotaInv ==
    /\ seeder.pc \in {"ask", "net"} =>
          TotalBytes(index) + Weight(Fetched) < seeder.quota
    /\ seeder.pc \in {"ban", "intent", "insert"} =>
          TotalBytes(index) + Weight(Fetched) < seeder.quota + LargestBlock

\* What a task has yet to remove from the store.
ToSweep(t) ==
    CASE t.pc \in {"remaining", "stop", "sweep"} -> t.sweep
      [] t.pc = "delete"                         -> t.sweep \ t.keep
      [] OTHER                                   -> {}

SeederMinds(m) ==
    \/ m \in ToSweep(seeder)
    \/ m = seeder.cid /\ seeder.watched
    \/ m = seeder.cid /\ seeder.done # 0 /\ (Fetching \/ seeder.pc \in {"ban", "intent", "insert"})

ViewerMinds(v, m) ==
    \/ m \in ToSweep(viewer[v])
    \/ /\ m = viewer[v].cid
       /\ \/ viewer[v].pc \in {"fetch", "net", "landed", "frozen", "complete"} /\ m \in viewer[v].got
          \/ viewer[v].pc = "landed" /\ m = viewer[v].want

\* Somebody has indexed the manifest m, or will index or remove it.
Minded(m) ==
    \/ ContainsManifest(index, m)
    \/ SeederMinds(m)
    \/ \E n \in Range(seedNow) : n[2] = m
    \/ \E v \in Viewer : ViewerMinds(v, m)
    \/ \E u \in Purger : m \in ToSweep(purger[u])

\* The manifest that a session asks for is that of its publication.
WantInv ==
    \A v \in Viewer :
        viewer[v].pc \in {"net", "landed"} /\ viewer[v].want \in Manifest =>
            viewer[v].want = viewer[v].cid

MindedInv == \A m \in store \cap Manifest : Minded(m)

-----------------------------------------------------------------------------
(* The foreground tasks *)

LEMMA KindStep ==
    ASSUME Inv, KindInv, [Next]_vars
    PROVE  KindInv'
<1>1. CASE UNCHANGED viewer
  BY <1>1 DEF KindInv
<1>2. CASE Restart
  BY <1>2 DEF Restart, KindInv, ViewerIdle
<1>3. ASSUME NEW v \in Viewer, ViewerStep(v) \/ ViewerChoice(v)
      PROVE  KindInv'
  <2>1. Moves(v, viewer'[v]) /\ \A w \in Viewer \ {v} : viewer'[w] = viewer[w]
    BY <1>3, MoveOf
  <2>2. viewer'[v].pc # "idle" => viewer'[v].kind \in Allowed
    <3>1. CASE viewer'[v] = ViewerIdle
      BY <3>1 DEF ViewerIdle
    <3>2. CASE viewer[v].pc # "idle" /\ viewer'[v].kind = viewer[v].kind
      BY <3>2 DEF KindInv
    <3>3. CASE viewer[v].pc # "idle" /\ viewer[v].kind = "watch" /\ viewer'[v] = Sweeping(viewer[v].got)
      BY <3>3 DEF KindInv, Sweeping, ViewerIdle
    <3>4. ASSUME NEW kind \in Allowed, NEW i \in Issuer, NEW m \in Manifest,
                 viewer'[v] = Beginning(kind, i, m)
          PROVE  viewer'[v].kind \in Allowed
      BY <3>4 DEF Beginning, ViewerIdle
    <3> QED
      BY <2>1, <3>1, <3>2, <3>3, <3>4 DEF Moves
  <2> QED
    BY <2>1, <2>2 DEF KindInv
<1> QED
  BY <1>1, <1>2, <1>3, OthersLeaveViewers

LEMMA KindHolds == Spec => []KindInv
<1>1. Init => KindInv
  BY DEF Init, KindInv, ViewerIdle
<1> QED
  BY <1>1, KindStep, InvHolds, PTL DEF Spec

-----------------------------------------------------------------------------
(* The quota *)

\* Where nothing is downloaded or ingested in the foreground, the loop alone adds to the
\* index, by its commit.
LEMMA OnlyTheLoopInserts ==
    ASSUME Inv, KindInv, Allowed \cap {"hls", "ingest"} = {}, [Next]_vars, ~Commit
    PROVE  UNCHANGED index \/ EvictedOne \/ PurgedSome
<1>1. CASE SeederStep
  <2>1. CASE Evict
    BY <2>1, Zenon DEF Evict, EvictedOne
  <2>2. ASSUME ~Evict
        PROVE  UNCHANGED index
    BY <1>1, <2>2, Zenon DEF SeederStep, StartPass, VisitIssuer, EndPass, SkipListed, TryListed,
       EndChannel, EnterRoom, RoomFound, MeasureCandidates, NoCandidate, PickVictim, Refuse,
       Snapshot, Delete, AskModeration, AskStore, Download, NotFound, ReadBan,
       ReadIntent, EndListed, EndNamed, Tick, Wake, TakeNamed, seedVars
  <2> QED
    BY <2>1, <2>2
<1>2. CASE \E u \in Purger : PurgerStep(u)
  BY <1>2, PurgerIndex
<1>3. CASE \E v \in Viewer : ViewerStep(v)
  <2>1. ASSUME NEW v \in Viewer
        PROVE  ~RegisterDownload(v) /\ ~RegisterOwn(v)
    BY DEF KindInv, RegisterDownload, RegisterOwn
  <2> QED
    BY <1>3, <2>1, Zenon DEF ViewerStep, ViewRefused, ViewAsk, ViewDownload, ViewJoin,
       ViewNotFound, IngestBlock, FinishCall, FinishStream, FinishWatch, ViewerSnapshot,
       ViewerDelete, seedVars
<1>4. CASE (\E j \in Issuer : SubscribeRecord(j) \/ FeedStep(j)) \/ Reprovide \/ Restart \/ UNCHANGED vars
  BY <1>4, Zenon DEF SubscribeRecord, FeedStep, FeedApplied, FeedDropped, Reprovide, Restart,
     vars, seedVars
<1>5. CASE UserStep
  BY <1>5, Zenon DEF UserStep, SubscribeCheck, Unblock, FeedChecked, SetQuota, Pin, Unpin,
     LiftList, Unsubscribe, BlockChannel, ApplyList, seedVars
<1>6. CASE \E v \in Viewer : ViewerChoice(v)
  BY <1>6, Zenon DEF ViewerChoice, ViewSubscribed, WatchOther, Ingest, Begin, CloseSettled,
     CloseWatched, seedVars
<1> QED
  BY <1>1, <1>2, <1>3, <1>4, <1>5, <1>6, Zenon DEF Next, TaskStep

LEMMA IndexShrinks ==
    ASSUME Inv, UNCHANGED index \/ EvictedOne \/ PurgedSome
    PROVE  TotalBytes(index') <= TotalBytes(index) /\ TotalBytes(index) \in Nat /\ TotalBytes(index') \in Nat
<1>1. index \in SUBSET Publication /\ IsFiniteSet(index)
  BY DEF Inv, SeedTypeOK
<1>2. TotalBytes(index) \in Nat
  BY <1>1, TotalType
<1>3. CASE UNCHANGED index
  <2>1. TotalBytes(index') = TotalBytes(index)
    BY <1>3, Zenon
  <2> QED
    BY <1>2, <2>1
<1>4. ASSUME NEW gone, index' = Remove(index, gone)
      PROVE  TotalBytes(index') <= TotalBytes(index) /\ TotalBytes(index') \in Nat
  <2>1. TotalBytes(index') = TotalBytes(Remove(index, gone))
    BY <1>4, Zenon
  <2>2. Remove(index, gone) \in SUBSET Publication /\ IsFiniteSet(Remove(index, gone))
    BY <1>1, RemoveType
  <2> QED
    BY <1>1, <2>1, <2>2, TotalOfRemove, TotalType
<1> QED
  BY <1>2, <1>3, <1>4 DEF EvictedOne, PurgedSome

LEMMA ReceivedOne ==
    ASSUME Inv, Fetching, Receive
    PROVE  /\ Fetched' = Fetched \cup {Needed}
           /\ seeder'.quota = seeder.quota
           /\ seeder'.pc \in {"end", "ban", "room"}
<1> DEFINE pc == IF seeder.cid \in Bare THEN "end"
                 ELSE IF seeder.done + 1 = Len(Blocks(seeder.cid)) THEN "ban" ELSE "room"
           b == Blocks(seeder.cid)
<1>1. seeder \in SeederState /\ seeder.cid \in Listed
  BY DEF Inv, SeederInv, Fetching, Attempting
<1>2. seeder' = [seeder EXCEPT !.done = seeder.done + 1, !.pc = pc] /\ pc \in {"end", "ban", "room"}
  BY DEF Receive
<1>3. /\ seeder'.pc \in {"end", "ban", "room"} /\ seeder'.quota = seeder.quota
      /\ seeder'.done = seeder.done + 1 /\ seeder'.cid = seeder.cid
      /\ seeder.done \in Nat
  BY <1>1, <1>2 DEF SeederState
<1>4. seeder.cid # NoCid
  BY <1>1, NoneAssumption DEF Cid, Listed
<1>5. b \in Seq(Cid) /\ seeder.done + 1 \in 1 .. Len(b)
  BY <1>1, BlocksType, AttemptType DEF Inv
<1>6. /\ Fetched = {b[k] : k \in {k \in DOMAIN b : k <= seeder.done}}
      /\ Fetched' = {b[k] : k \in {k \in DOMAIN b : k <= seeder.done + 1}}
      /\ Needed = b[seeder.done + 1]
  BY <1>3, <1>4, Zenon DEF Fetched, Needed
<1> HIDE DEF b, pc
<1>7. {k \in DOMAIN b : k <= seeder.done + 1} = {k \in DOMAIN b : k <= seeder.done} \cup {seeder.done + 1}
  BY <1>3, <1>5
<1> QED
  BY <1>3, <1>6, <1>7

\* The other steps of the loop leave what the commit depends on, or the attempt.
LEMMA OtherStepsOfTheLoop ==
    ASSUME Inv, SeederStep, ~RoomFound, ~AskStore, ~Download
    PROVE  \/ seeder'.pc \notin {"ask", "net", "ban", "intent", "insert"}
           \/ /\ seeder.pc \in {"ban", "intent"} /\ seeder'.pc \in {"ban", "intent", "insert"}
              /\ seeder'.quota = seeder.quota /\ Fetched' = Fetched /\ UNCHANGED index
<1> DEFINE Quits == seeder'.pc \notin {"ask", "net", "ban", "intent", "insert"}
           Keeps == /\ seeder.pc \in {"ban", "intent"} /\ seeder'.pc \in {"ban", "intent", "insert"}
                    /\ seeder'.quota = seeder.quota /\ Fetched' = Fetched /\ UNCHANGED index
<1>1. seeder \in SeederState /\ SeederInv
  BY DEF Inv, SeederInv
<1>2. ASSUME NEW pc \in SeederPC, Goto(pc), pc \notin {"ask", "net", "ban", "intent", "insert"}
      PROVE  Quits
  BY <1>1, <1>2, GotoTarget
<1>3. ASSUME NEW cids, NEW tail, SweepThen(cids, tail)
      PROVE  Quits
  BY <1>1, <1>3, SweepTarget
<1>4. CASE Abandon
  BY <1>2, <1>3, <1>4 DEF Abandon, SeederPC
<1>5. CASE StartPass \/ VisitIssuer \/ EndPass \/ SkipListed \/ EndChannel
  <2>1. CASE StartPass
    BY <1>1, <2>1 DEF StartPass, SeederState
  <2>2. CASE VisitIssuer
    <3>1. PICK i \in seeder.issuers :
              seeder' = [seeder EXCEPT !.pc = "channel", !.issuer = i, !.cids = catalog[i],
                                       !.issuers = @ \ {i}]
      BY <2>2, Zenon DEF VisitIssuer
    <3> QED
      BY <1>1, <3>1 DEF SeederState
  <2>3. CASE EndPass
    BY <2>3 DEF EndPass, SeederIdle
  <2>4. CASE SkipListed
    BY <1>1, <2>4 DEF SkipListed, SeederState
  <2>5. CASE EndChannel
    BY <1>1, <2>5 DEF EndChannel, SeederState
  <2> QED
    BY <1>5, <2>1, <2>2, <2>3, <2>4, <2>5
<1>6. CASE TryListed
  <2>1. PICK c \in seeder.cids : \E r \in Repl[c] :
            seeder' = [seeder EXCEPT !.pc = "room", !.cid = c, !.cids = @ \ {c},
                                     !.cand = Measured(c, r)]
    BY <1>6, Zenon DEF TryListed
  <2> QED
    BY <1>1, <2>1 DEF SeederState
<1>7. CASE EnterRoom
  BY <1>1, <1>7 DEF EnterRoom, SeederState
<1>8. CASE MeasureCandidates
  <2> DEFINE M == {p.manifest : p \in Evictable(index, pins)}
  <2>1. seeder' = [seeder EXCEPT !.pc = "victim", !.measured = M]
    BY <1>8 DEF MeasureCandidates
  <2> HIDE DEF M
  <2> QED
    BY <1>1, <2>1 DEF SeederState
<1>9. CASE NoCandidate \/ PickVictim
  <2>1. \/ Abandon
        \/ \E p \in index : seeder' = [seeder EXCEPT !.pc = "evict", !.victim = p.manifest, !.measured = {}]
    BY <1>9, Zenon DEF NoCandidate, PickVictim, Refuse
  <2>2. CASE \E p \in index : seeder' = [seeder EXCEPT !.pc = "evict", !.victim = p.manifest, !.measured = {}]
    BY <1>1, <2>2 DEF SeederState
  <2> QED
    BY <1>4, <2>1, <2>2
<1>10. CASE Evict
  <2>1. Goto("loop") \/ \E cids : SweepThen(cids, "loop")
    BY <1>10, Zenon DEF Evict
  <2> QED
    BY <1>2, <1>3, <2>1 DEF SeederPC
<1>11. CASE Snapshot
  <2> DEFINE keep == AllCids(index)
  <2>1. seeder' = [seeder EXCEPT !.pc = "delete", !.keep = keep]
    BY <1>11 DEF Snapshot
  <2> HIDE DEF keep
  <2> QED
    BY <1>1, <2>1 DEF SeederState
<1>12. CASE Delete
  BY <1>1, <1>12 DEF Delete, SeederState
<1>13. CASE AskModeration \/ NotFound
  BY <1>4, <1>13, Zenon DEF AskModeration, NotFound
<1>14. CASE ReadBan
  <2> DEFINE barred == seeder.issuer \in BannedKeys
  <2>1. seeder.pc = "ban" /\ seeder' = [seeder EXCEPT !.pc = "intent", !.barred = barred] /\ UNCHANGED index
    BY <1>14 DEF ReadBan, seedVars
  <2> HIDE DEF barred
  <2>2. /\ seeder'.pc = "intent" /\ seeder'.quota = seeder.quota
        /\ seeder'.cid = seeder.cid /\ seeder'.done = seeder.done
    BY <1>1, <2>1 DEF SeederState
  <2>3. Fetched' = Fetched
    BY <2>2, Zenon DEF Fetched
  <2> QED
    BY <2>1, <2>2, <2>3
<1>15. CASE ReadIntent
  <2>1. seeder.pc = "intent" /\ UNCHANGED index
    BY <1>15 DEF ReadIntent, seedVars
  <2>2. CASE Goto("insert")
    <3>1. /\ seeder'.pc = "insert" /\ seeder'.quota = seeder.quota
          /\ seeder'.cid = seeder.cid /\ seeder'.done = seeder.done
      BY <1>1, <2>2 DEF Goto, SeederState
    <3>2. Fetched' = Fetched
      BY <3>1, Zenon DEF Fetched
    <3> QED
      BY <2>1, <3>1, <3>2
  <2> QED
    BY <1>3, <1>15, <2>2, Zenon DEF ReadIntent
<1>16. CASE Commit
  BY <1>2, <1>16 DEF Commit, SeederPC
<1>17. CASE EndListed \/ EndNamed
  <2>1. seeder'.pc \in {"channel", "start", "sweep"}
    BY <1>17 DEF EndListed, EndNamed, SeederIdle
  <2> QED
    BY <2>1
<1>18. CASE Tick \/ Wake
  BY <1>2, <1>18 DEF Tick, Wake, SeederPC
<1>19. CASE TakeNamed
  BY <1>19 DEF TakeNamed, SeederIdle
<1> QED
  BY <1>5, <1>6, <1>7, <1>8, <1>9, <1>10, <1>11, <1>12, <1>13, <1>14, <1>15, <1>16, <1>17,
     <1>18, <1>19, Zenon DEF SeederStep

LEMMA QuotaStep ==
    ASSUME Inv, KindInv, QuotaInv, Allowed \cap {"hls", "ingest"} = {}, [Next]_vars
    PROVE  QuotaInv'
<1>1. seeder \in SeederState /\ SeederInv /\ index \in SUBSET Publication /\ IsFiniteSet(index)
  BY DEF Inv, SeederInv, SeedTypeOK
<1>2. /\ TotalBytes(index) \in Nat /\ Weight(Fetched) \in Nat
      /\ Fetched \in SUBSET Cid /\ seeder.quota \in Nat
  BY <1>1, TotalType, AttemptType, CidSets DEF SeederState
<1>3. CASE RoomFound
  <2>1. /\ seeder'.pc = "ask" /\ seeder'.quota = seeder.quota
        /\ seeder'.cid = seeder.cid /\ seeder'.done = seeder.done
        /\ TotalBytes(index) + Weight(Fetched) < seeder.quota /\ UNCHANGED index
    BY <1>1, <1>3 DEF RoomFound, Goto, SeederState, Fits, seedVars
  <2>2. Fetched' = Fetched
    BY <2>1, Zenon DEF Fetched
  <2>3. Weight(Fetched') = Weight(Fetched) /\ TotalBytes(index') = TotalBytes(index)
    BY <2>1, <2>2, Zenon
  <2> QED
    BY <2>1, <2>3 DEF QuotaInv
<1>4. CASE AskStore \/ Download
  <2>1. seeder.pc \in {"ask", "net"} /\ UNCHANGED index /\ (Receive \/ Goto("net"))
    BY <1>4 DEF AskStore, Download, seedVars
  <2>2. TotalBytes(index') = TotalBytes(index)
    BY <2>1, Zenon
  <2>3. CASE Goto("net")
    <3>1. /\ seeder'.pc = "net" /\ seeder'.quota = seeder.quota
          /\ seeder'.cid = seeder.cid /\ seeder'.done = seeder.done
      BY <1>1, <2>3 DEF Goto, SeederState
    <3>2. Fetched' = Fetched
      BY <3>1, Zenon DEF Fetched
    <3>3. Weight(Fetched') = Weight(Fetched)
      BY <3>2, Zenon
    <3> QED
      BY <2>1, <2>2, <3>1, <3>3 DEF QuotaInv
  <2>4. CASE Receive
    <3>1. Fetching /\ Needed \in Cid
      BY <1>1, <2>1, AttemptType DEF Fetching
    <3>2. /\ Fetched' = Fetched \cup {Needed} /\ seeder'.quota = seeder.quota
          /\ seeder'.pc \in {"end", "ban", "room"}
      BY <2>4, <3>1, ReceivedOne
    <3>3. Weight(Fetched') = Weight(Fetched \cup {Needed})
      BY <3>2, Zenon
    <3>4. Weight(Fetched \cup {Needed}) <= Weight(Fetched) + Size[Needed]
      BY <1>2, <3>1, WeightOfOneMore
    <3>5. Size[Needed] <= LargestBlock /\ LargestBlock \in Nat /\ Size[Needed] \in Nat
      BY <3>1, LargestIsLargest, SizeAssumption DEF Cid
    <3>6. Weight(Fetched') \in Nat
      BY <1>2, <3>1, <3>3, CidSets
    <3>7. TotalBytes(index) + Weight(Fetched) < seeder.quota
      BY <2>1 DEF QuotaInv
    <3> HIDE DEF Needed
    <3>8. TotalBytes(index') + Weight(Fetched') < seeder'.quota + LargestBlock
      BY <1>2, <2>2, <3>2, <3>3, <3>4, <3>5, <3>6, <3>7
    <3> QED
      BY <3>2, <3>8 DEF QuotaInv
  <2> QED
    BY <2>1, <2>3, <2>4
<1>5. CASE SeederStep /\ ~RoomFound /\ ~AskStore /\ ~Download
  <2>1. CASE seeder'.pc \notin {"ask", "net", "ban", "intent", "insert"}
    BY <2>1 DEF QuotaInv
  <2>2. CASE /\ seeder.pc \in {"ban", "intent"} /\ seeder'.pc \in {"ban", "intent", "insert"}
             /\ seeder'.quota = seeder.quota /\ Fetched' = Fetched /\ UNCHANGED index
    <3>1. Weight(Fetched') = Weight(Fetched) /\ TotalBytes(index') = TotalBytes(index)
      BY <2>2, Zenon
    <3> QED
      BY <2>2, <3>1 DEF QuotaInv
  <2> QED
    BY <1>5, <2>1, <2>2, OtherStepsOfTheLoop
<1>6. CASE Restart
  BY <1>6 DEF Restart, SeederIdle, QuotaInv
<1>7. ASSUME ~SeederStep, ~Restart
      PROVE  QuotaInv'
  <2>1. UNCHANGED seeder /\ ~Commit
    BY <1>7, OthersLeaveSeeder DEF SeederStep
  <2>2. Fetched' = Fetched
    BY <2>1, Zenon DEF Fetched
  <2>3. Weight(Fetched') = Weight(Fetched)
    BY <2>2, Zenon
  <2>4. TotalBytes(index') <= TotalBytes(index) /\ TotalBytes(index') \in Nat
    BY <2>1, OnlyTheLoopInserts, IndexShrinks
  <2>5. LargestBlock \in Nat \/ seeder.pc \notin {"ban", "intent", "insert"}
    <3>1. CASE seeder.pc \in {"ban", "intent", "insert"}
      <4>1. seeder.cid \in Cid
        BY <1>1, <3>1 DEF SeederInv, Cid
      <4> QED
        BY <4>1, LargestIsLargest
    <3> QED
      BY <3>1
  <2> QED
    BY <1>2, <2>1, <2>3, <2>4, <2>5 DEF QuotaInv
<1> QED
  BY <1>3, <1>4, <1>5, <1>6, <1>7 DEF SeederStep

\* Where nothing is downloaded or ingested in the foreground, which adds to the index
\* without a look at the quota, a commit of the seed loop leaves the index below the
\* quota it worked under, but for the last block: make_room_for looks before each block,
\* and the index may shrink but not grow until the commit.
THEOREM QuotaIsKept ==
    ASSUME Allowed \cap {"hls", "ingest"} = {}
    PROVE  Spec => CommitWithinQuota
<1> DEFINE Within == TotalBytes(index') > TotalBytes(index) /\ seeder.pc = "insert" =>
                         TotalBytes(index') < seeder.quota + LargestBlock
<1>1. Init => QuotaInv
  BY DEF Init, QuotaInv, SeederIdle
<1>2. Spec => []QuotaInv
  BY <1>1, QuotaStep, InvHolds, KindHolds, PTL DEF Spec
<1>3. ASSUME Inv, KindInv, QuotaInv, [Next]_vars
      PROVE  Within
  <2>1. CASE Commit
    <3>1. /\ seeder.pc = "insert" /\ seeder.cid \in Manifest /\ seeder.issuer \in Issuer
          /\ index \in SUBSET Publication /\ IsFiniteSet(index) /\ Fetched \in SUBSET Cid
      BY <1>3, <2>1, AttemptType DEF Commit, Inv, SeederInv, SeedTypeOK, Attempting
    <3>2. CASE ContainsManifest(index, seeder.cid)
      <4>1. TotalBytes(index') = TotalBytes(index)
        BY <2>1, <3>2, Zenon DEF Commit
      <4>2. TotalBytes(index) \in Nat
        BY <3>1, TotalType
      <4> QED
        BY <4>1, <4>2
    <3>3. CASE ~ContainsManifest(index, seeder.cid)
      <4>1. TotalBytes(index') = TotalBytes(Insert(index, seeder.issuer, seeder.cid, Fetched))
        BY <2>1, <3>3, Zenon DEF Commit
      <4>2. TotalBytes(index') = TotalBytes(index) + Weight(Fetched)
        BY <3>1, <3>3, <4>1, TotalOfInsert
      <4> QED
        BY <1>3, <3>1, <4>2 DEF QuotaInv
    <3> QED
      BY <3>2, <3>3
  <2>2. CASE ~Commit
    <3>1. /\ TotalBytes(index') <= TotalBytes(index)
          /\ TotalBytes(index') \in Nat /\ TotalBytes(index) \in Nat
      BY <1>3, <2>2, OnlyTheLoopInserts, IndexShrinks
    <3> QED
      BY <3>1
  <2> QED
    BY <2>1, <2>2
<1>4. Inv /\ KindInv /\ QuotaInv /\ [Next]_vars => [Within]_vars
  BY <1>3
<1> QED
  BY <1>2, <1>4, InvHolds, KindHolds, PTL DEF Spec, CommitWithinQuota

-----------------------------------------------------------------------------
(* The manifests in the store *)

LEMMA OwnBlocks ==
    ASSUME NEW c \in Manifest, NEW m \in Manifest
    PROVE  m \in BlockSet(c) <=> m = c
<1>1. Segments[c] \in Seq(Segment)
  BY SegmentsAssumption
<1>2. \A k \in DOMAIN Segments[c] : Segments[c][k] \in Segment
  BY <1>1
<1>3. Range(Segments[c]) \subseteq Segment
  BY <1>2 DEF Range
<1> QED
  BY <1>3, CidsDisjoint DEF BlockSet

LEMMA IndexedManifest ==
    ASSUME NEW idx \in SUBSET Publication, NEW m \in Manifest
    PROVE  m \in AllCids(idx) <=> ContainsManifest(idx, m)
<1>1. \A p \in idx : m \in BlockSet(p.manifest) <=> p.manifest = m
  BY OwnBlocks DEF Publication
<1> QED
  BY <1>1 DEF AllCids, ContainsManifest

LEMMA FirstFetched ==
    ASSUME Inv, seeder.cid # NoCid, seeder.done # 0
    PROVE  seeder.cid \in Fetched
<1>1. seeder.cid \in Listed /\ seeder.done \in Nat
  BY DEF Inv, SeederInv, SeederState
<1>2. Blocks(seeder.cid) \in Seq(Cid) /\ Len(Blocks(seeder.cid)) >= 1
  BY <1>1, BlocksType
<1>3. Blocks(seeder.cid)[1] = seeder.cid
  <2>1. CASE seeder.cid \in Manifest
    <3>1. Segments[seeder.cid] \in Seq(Segment)
      BY <2>1, SegmentsAssumption
    <3> QED
      BY <2>1, <3>1 DEF Blocks
  <2>2. CASE seeder.cid \notin Manifest
    BY <2>2 DEF Blocks
  <2> QED
    BY <2>1, <2>2
<1>4. 1 \in {k \in DOMAIN Blocks(seeder.cid) : k <= seeder.done}
  BY <1>1, <1>2
<1> QED
  BY <1>3, <1>4 DEF Fetched

LEMMA NeededManifest ==
    ASSUME Inv, Fetching, Needed \in Manifest
    PROVE  Needed = seeder.cid
<1> DEFINE c == seeder.cid
           k == seeder.done + 1
<1>1. c \in Listed /\ k \in 1 .. Len(Blocks(c))
  BY AttemptType DEF Inv, SeederInv, Fetching, Attempting
<1>2. CASE c \in Manifest
  <2>1. Segments[c] \in Seq(Segment)
    BY <1>2, SegmentsAssumption
  <2>2. Blocks(c) = <<c>> \o Segments[c]
    BY <1>2 DEF Blocks
  <2> HIDE DEF c, k
  <2>3. Blocks(c)[k] = c \/ Blocks(c)[k] \in Segment
    BY <1>1, <2>1, <2>2
  <2> QED
    BY <2>3, CidsDisjoint DEF Needed, c, k
<1>3. CASE c \notin Manifest
  <2>1. Blocks(c) = <<c>>
    BY <1>3 DEF Blocks
  <2> HIDE DEF c, k
  <2>2. Blocks(c)[k] = c
    BY <1>1, <2>1
  <2> QED
    BY <2>2 DEF Needed, c, k
<1> QED
  BY <1>2, <1>3

\* What was minded stays so where an entry leaves the index and its blocks are to be removed.
LEMMA StaysIndexed ==
    ASSUME Inv, NEW m \in Manifest, ContainsManifest(index, m),
           NEW gone, index' = Remove(index, gone), \A p \in gone : p.manifest # m
    PROVE  ContainsManifest(index', m)
<1>1. index \in SUBSET Publication /\ IsFiniteSet(index)
  BY DEF Inv, SeedTypeOK
<1>2. PICK p \in index : p.manifest = m
  BY DEF ContainsManifest
<1>3. \E q \in Remove(index, gone) : q.manifest = p.manifest
  BY <1>1, <1>2, RemoveType
<1> QED
  BY <1>2, <1>3 DEF ContainsManifest

\* An attempt goes on with what it has fetched.
LEMMA AttemptMinds ==
    ASSUME seeder \in SeederState, SameAttempt, seeder'.watched = seeder.watched,
           seeder.pc \notin {"sweep", "delete"},
           Fetching \/ seeder.pc \in {"ban", "intent", "insert"} =>
               Fetching' \/ seeder'.pc \in {"ban", "intent", "insert"},
           NEW m, SeederMinds(m)
    PROVE  SeederMinds(m)'
BY DEF SeederMinds, ToSweep, SameAttempt, SeederState, SeederPC

LEMMA SweepMinds ==
    ASSUME Inv, SweepThen(Fetched, "end"), seeder.pc \notin {"sweep", "delete"},
           NEW m \in Manifest, SeederMinds(m)
    PROVE  SeederMinds(m)'
<1>1. seeder \in SeederState /\ Fetched \in SUBSET Cid
  BY AttemptType DEF Inv, SeederInv
<1>2. /\ seeder'.pc = "sweep" /\ seeder'.sweep = Fetched
      /\ seeder'.cid = seeder.cid /\ seeder'.watched = seeder.watched
  BY <1>1 DEF SweepThen, SeederState
<1>3. m = seeder.cid /\ (seeder.watched \/ seeder.done # 0)
  BY <1>1 DEF SeederMinds, ToSweep, SeederState, SeederPC
<1>4. m # NoCid
  BY NoneAssumption DEF Cid
<1>5. seeder.watched \/ m \in Fetched
  BY <1>3, <1>4, FirstFetched
<1> QED
  BY <1>2, <1>3, <1>5 DEF SeederMinds, ToSweep

LEMMA AbandonMinds ==
    ASSUME Inv, Abandon, seeder.pc \notin {"sweep", "delete"}, NEW m \in Manifest, SeederMinds(m)
    PROVE  SeederMinds(m)'
<1>1. seeder \in SeederState
  BY DEF Inv, SeederInv
<1>2. CASE seeder.done = 0 /\ Goto("end")
  <2>1. m = seeder.cid /\ seeder.watched
    BY <1>1, <1>2 DEF SeederMinds, ToSweep, SeederState, SeederPC
  <2>2. seeder'.cid = seeder.cid /\ seeder'.watched = seeder.watched
    BY <1>1, <1>2, GotoTarget DEF SeederPC
  <2> QED
    BY <2>1, <2>2 DEF SeederMinds
<1> QED
  BY <1>2, SweepMinds DEF Abandon

LEMMA ReceiveMinds ==
    ASSUME Inv, Fetching, seeder.pc \notin {"sweep", "delete"}, Receive,
           NEW m \in Manifest, SeederMinds(m) \/ m = Needed
    PROVE  SeederMinds(m)'
<1> DEFINE pc == IF seeder.cid \in Bare THEN "end"
                 ELSE IF seeder.done + 1 = Len(Blocks(seeder.cid)) THEN "ban" ELSE "room"
<1>1. seeder \in SeederState
  BY DEF Inv, SeederInv
<1>2. m = seeder.cid
  <2>1. CASE SeederMinds(m)
    BY <1>1, <2>1 DEF SeederMinds, ToSweep, SeederState, SeederPC
  <2> QED
    BY <2>1, NeededManifest
<1>3. pc \in {"ban", "room"}
  BY <1>2, CidsDisjoint
<1>4. seeder' = [seeder EXCEPT !.done = seeder.done + 1, !.pc = pc]
  BY DEF Receive
<1> HIDE DEF pc
<1>5. seeder'.pc \in {"ban", "room"} /\ seeder'.done # 0 /\ seeder'.cid = seeder.cid
  BY <1>1, <1>3, <1>4 DEF SeederState
<1> QED
  BY <1>2, <1>5 DEF SeederMinds, Fetching

\* At rest the loop minds nothing but what it sweeps.
LEMMA RestingMinds ==
    ASSUME Inv, AtRest, seeder.pc \in {"wait", "start", "pass", "channel"}, NEW m \in Manifest
    PROVE  ~SeederMinds(m)
<1>1. seeder.cid = NoCid /\ m # NoCid
  BY NoneAssumption DEF AtRest, Resting, Cid
<1> QED
  BY <1>1 DEF SeederMinds, ToSweep

Requested(m) == \E n \in Range(seedNow) : n[2] = m

\* A step of the loop drops nothing that is in the store.
LEMMA SeederDropsNothing ==
    ASSUME Inv, AtRest, pins = {}, SeederStep, NEW m \in Manifest, m \in store',
           m \in store => ContainsManifest(index, m) \/ SeederMinds(m) \/ Requested(m)
    PROVE  ContainsManifest(index', m) \/ SeederMinds(m)' \/ Requested(m)'
<1> DEFINE Kept == ContainsManifest(index', m) \/ SeederMinds(m)' \/ Requested(m)'
           Same == UNCHANGED <<index, store, seedNow>>
<1>1. seeder \in SeederState /\ index \in SUBSET Publication
  BY DEF Inv, SeederInv, SeedTypeOK
<1>2. ASSUME Same, SeederMinds(m) => SeederMinds(m)'
      PROVE  Kept
  BY <1>2 DEF Requested
<1>3. CASE StartPass \/ VisitIssuer \/ EndPass \/ SkipListed \/ TryListed \/ EndChannel \/ Tick \/ Wake
  <2>1. seeder.pc \in {"wait", "start", "pass", "channel"} /\ Same
    BY <1>3 DEF StartPass, VisitIssuer, EndPass, SkipListed, TryListed, EndChannel, Tick, Wake,
       seedVars, loopVars
  <2> QED
    BY <1>2, <2>1, RestingMinds
<1>4. CASE TakeNamed
  <2>1. ~SeederMinds(m) /\ UNCHANGED <<index, store>> /\ seedNow # <<>> /\ seedNow' = Tail(seedNow)
    BY <1>4, RestingMinds DEF TakeNamed, seedVars
  <2>2. seeder'.cid = Head(seedNow)[2] /\ seeder'.watched = TRUE
    <3>1. PICK r : seeder' = [SeederIdle EXCEPT !.pc = "room", !.issuer = Head(seedNow)[1],
                             !.cid = Head(seedNow)[2],
                             !.watched = TRUE, !.cand = Measured(Head(seedNow)[2], r),
                             !.captured = IF Head(seedNow)[2] \in store
                                          THEN Range(Segments[Head(seedNow)[2]]) ELSE {}]
      BY <1>4, Zenon DEF TakeNamed
    <3> QED
      BY <3>1 DEF SeederIdle
  <2>3. ASSUME NEW n \in Range(seedNow)
        PROVE  n = Head(seedNow) \/ n \in Range(Tail(seedNow))
    <3>1. seedNow \in Seq(Issuer \X Manifest)
      BY DEF Inv, LoopTypeOK
    <3>2. PICK k \in 1 .. Len(seedNow) : n = seedNow[k]
      BY <3>1 DEF Range
    <3>3. CASE k = 1
      BY <3>1, <3>2, <3>3
    <3>4. CASE k # 1
      <4>1. k - 1 \in 1 .. Len(Tail(seedNow)) /\ Tail(seedNow)[k - 1] = n
        BY <2>1, <3>1, <3>2, <3>4
      <4>2. k - 1 \in DOMAIN Tail(seedNow)
        BY <2>1, <3>1, <4>1
      <4> QED
        BY <4>1, <4>2 DEF Range
    <3> QED
      BY <3>3, <3>4
  <2>4. CASE Requested(m)
    <3>1. PICK n \in Range(seedNow) : n[2] = m
      BY <2>4 DEF Requested
    <3> QED
      BY <2>1, <2>2, <2>3, <3>1 DEF Requested, SeederMinds
  <2> QED
    BY <2>1, <2>4
<1>5. CASE EnterRoom \/ RoomFound \/ MeasureCandidates \/ ReadBan
  <2>1. CASE EnterRoom
    <3>1. /\ SameAttempt /\ seeder'.watched = seeder.watched
          /\ seeder.pc = "room" /\ seeder'.pc = "loop" /\ Same
      BY <1>1, <2>1 DEF EnterRoom, SeederState, SameAttempt, seedVars, loopVars
    <3> QED
      BY <1>1, <1>2, <3>1, AttemptMinds DEF Fetching
  <2>2. CASE RoomFound
    <3>1. /\ SameAttempt /\ seeder'.watched = seeder.watched
          /\ seeder.pc = "loop" /\ seeder'.pc = "ask" /\ Same
      BY <1>1, <2>2 DEF RoomFound, Goto, SeederState, SameAttempt, seedVars, loopVars
    <3> QED
      BY <1>1, <1>2, <3>1, AttemptMinds DEF Fetching
  <2>3. CASE MeasureCandidates
    <3> DEFINE M == {p.manifest : p \in Evictable(index, pins)}
    <3>1. seeder' = [seeder EXCEPT !.pc = "victim", !.measured = M] /\ seeder.pc = "loop" /\ Same
      BY <2>3 DEF MeasureCandidates, seedVars, loopVars
    <3> HIDE DEF M
    <3>2. SameAttempt /\ seeder'.watched = seeder.watched /\ seeder'.pc = "victim"
      BY <1>1, <3>1 DEF SeederState, SameAttempt
    <3> QED
      BY <1>1, <1>2, <3>1, <3>2, AttemptMinds DEF Fetching
  <2>4. CASE ReadBan
    <3> DEFINE barred == seeder.issuer \in BannedKeys
    <3>1. seeder' = [seeder EXCEPT !.pc = "intent", !.barred = barred] /\ seeder.pc = "ban" /\ Same
      BY <2>4 DEF ReadBan, seedVars, loopVars
    <3> HIDE DEF barred
    <3>2. SameAttempt /\ seeder'.watched = seeder.watched /\ seeder'.pc = "intent"
      BY <1>1, <3>1 DEF SeederState, SameAttempt
    <3> QED
      BY <1>1, <1>2, <3>1, <3>2, AttemptMinds DEF Fetching
  <2> QED
    BY <1>5, <2>1, <2>2, <2>3, <2>4
<1>6. CASE NoCandidate \/ PickVictim \/ AskModeration \/ NotFound
  <2>1. /\ seeder.pc \in {"loop", "victim", "ask", "net"} /\ Same
        /\ \/ Abandon
           \/ \E p \in index : seeder' = [seeder EXCEPT !.pc = "evict", !.victim = p.manifest, !.measured = {}]
    BY <1>6 DEF NoCandidate, PickVictim, Refuse, AskModeration, NotFound, seedVars, loopVars
  <2>2. CASE \E p \in index : seeder' = [seeder EXCEPT !.pc = "evict", !.victim = p.manifest, !.measured = {}]
    <3>1. SameAttempt /\ seeder'.watched = seeder.watched /\ seeder'.pc = "evict"
      BY <1>1, <2>2 DEF SeederState, SameAttempt
    <3> QED
      BY <1>1, <1>2, <2>1, <3>1, AttemptMinds DEF Fetching
  <2>3. CASE Abandon
    BY <1>2, <2>1, <2>3, AbandonMinds
  <2> QED
    BY <2>1, <2>2, <2>3
<1>7. CASE Evict
  <2>1. seeder.pc = "evict" /\ UNCHANGED <<store, seedNow>>
    BY <1>7 DEF Evict, loopVars
  <2>2. CASE Goto("loop") /\ UNCHANGED index
    <3>1. SameAttempt /\ seeder'.watched = seeder.watched /\ seeder'.pc = "loop"
      BY <1>1, <2>2 DEF Goto, SeederState, SameAttempt
    <3> QED
      BY <1>1, <1>2, <2>1, <2>2, <3>1, AttemptMinds DEF Fetching
  <2>3. ASSUME NEW p \in index, index' = Remove(index, {p}), SweepThen(BlockSet(p.manifest), "loop")
        PROVE  Kept
    <3>1. /\ SameAttempt /\ seeder'.watched = seeder.watched /\ seeder'.pc = "sweep"
          /\ seeder'.tail = "loop" /\ seeder'.sweep = BlockSet(p.manifest)
      BY <1>1, <2>3 DEF SweepThen, SeederState, SameAttempt
    <3>2. CASE SeederMinds(m)
      BY <1>1, <2>1, <3>1, <3>2, AttemptMinds DEF Fetching
    <3>3. CASE Requested(m)
      BY <2>1, <3>3 DEF Requested
    <3>4. CASE ContainsManifest(index, m) /\ m = p.manifest
      <4>1. m \in BlockSet(m)
        BY OwnBlocks
      <4> QED
        BY <3>1, <3>4, <4>1 DEF SeederMinds, ToSweep
    <3>5. CASE ContainsManifest(index, m) /\ m # p.manifest
      BY <2>3, <3>5, StaysIndexed
    <3> QED
      BY <2>1, <3>2, <3>3, <3>4, <3>5
  <2> QED
    BY <1>7, <2>2, <2>3, Zenon DEF Evict, EntriesOf
<1>8. CASE Snapshot
  <2> DEFINE keep == AllCids(index)
  <2>1. seeder' = [seeder EXCEPT !.pc = "delete", !.keep = keep] /\ seeder.pc = "sweep" /\ Same
    BY <1>8 DEF Snapshot, seedVars, loopVars
  <2>2. m \in keep => ContainsManifest(index, m)
    BY <1>1, IndexedManifest
  <2> HIDE DEF keep
  <2>3. /\ SameAttempt /\ seeder'.watched = seeder.watched /\ seeder'.tail = seeder.tail
        /\ seeder'.pc = "delete" /\ seeder'.sweep = seeder.sweep /\ seeder'.keep = keep
    BY <1>1, <2>1 DEF SeederState, SameAttempt
  <2>4. SeederMinds(m) => SeederMinds(m)' \/ m \in keep
    BY <2>1, <2>3 DEF SeederMinds, ToSweep, Fetching, SameAttempt
  <2> QED
    BY <2>1, <2>2, <2>4 DEF Requested
<1>9. CASE Delete
  <2>1. /\ seeder.pc = "delete" /\ UNCHANGED <<index, seedNow>>
        /\ store' = store \ (seeder.sweep \ seeder.keep)
    BY <1>9 DEF Delete, loopVars
  <2>2. SameAttempt /\ seeder'.watched = seeder.watched /\ seeder'.pc = seeder.tail
    BY <1>1, <1>9 DEF Delete, SeederState, SameAttempt
  <2>3. SeederMinds(m) => SeederMinds(m)'
    BY <2>1, <2>2 DEF SeederMinds, ToSweep, Fetching, SameAttempt
  <2> QED
    BY <2>1, <2>3 DEF Requested
<1>10. CASE AskStore \/ Download
  <2>1. /\ seeder.pc \in {"ask", "net"} /\ UNCHANGED <<index, seedNow>>
        /\ UNCHANGED store \/ (store' = store \cup {Needed} /\ Receive)
        /\ Receive \/ Goto("net")
    BY <1>10 DEF AskStore, Download, seedVars, loopVars
  <2>2. Fetching
    BY <2>1 DEF Fetching
  <2>3. CASE Receive
    <3>1. SeederMinds(m) \/ m = Needed => SeederMinds(m)'
      BY <2>1, <2>2, <2>3, ReceiveMinds
    <3> QED
      BY <2>1, <3>1 DEF Requested
  <2>4. CASE Goto("net") /\ UNCHANGED store
    <3>1. SameAttempt /\ seeder'.watched = seeder.watched /\ seeder'.pc = "net"
      BY <1>1, <2>4 DEF Goto, SeederState, SameAttempt
    <3> QED
      BY <1>1, <1>2, <2>1, <2>4, <3>1, AttemptMinds DEF Fetching
  <2> QED
    BY <2>1, <2>3, <2>4
<1>11. CASE ReadIntent
  <2>1. seeder.pc = "intent" /\ Same /\ (Goto("insert") \/ SweepThen(Fetched, "end"))
    BY <1>11 DEF ReadIntent, seedVars, loopVars
  <2>2. CASE Goto("insert")
    <3>1. SameAttempt /\ seeder'.watched = seeder.watched /\ seeder'.pc = "insert"
      BY <1>1, <2>2 DEF Goto, SeederState, SameAttempt
    <3> QED
      BY <1>1, <1>2, <2>1, <3>1, AttemptMinds
  <2>3. CASE SweepThen(Fetched, "end")
    BY <1>2, <2>1, <2>3, SweepMinds
  <2> QED
    BY <2>1, <2>2, <2>3
<1>12. CASE Commit
  <2>1. seeder.pc = "insert" /\ UNCHANGED <<store, seedNow>>
    BY <1>12 DEF Commit, loopVars
  <2>2. ContainsManifest(index', seeder.cid) /\ index \subseteq index'
    <3>1. CASE ContainsManifest(index, seeder.cid)
      BY <1>12, <3>1 DEF Commit
    <3>2. CASE ~ContainsManifest(index, seeder.cid)
      <4>1. index' = Insert(index, seeder.issuer, seeder.cid, Fetched)
        BY <1>12, <3>2 DEF Commit
      <4> DEFINE new == [issuer |-> seeder.issuer, manifest |-> seeder.cid, counted |-> Fetched,
                         order |-> Cardinality(index)]
      <4>2. index' = index \cup {new} /\ new.manifest = seeder.cid
        BY <4>1 DEF Insert
      <4> HIDE DEF new
      <4> QED
        BY <4>2 DEF ContainsManifest
    <3> QED
      BY <3>1, <3>2
  <2>3. SeederMinds(m) => m = seeder.cid
    BY <2>1 DEF SeederMinds, ToSweep
  <2> QED
    BY <2>1, <2>2, <2>3 DEF Requested, ContainsManifest
<1>13. CASE EndListed
  <2>1. seeder.pc = "end" /\ ~seeder.watched /\ Same
    BY <1>13 DEF EndListed, seedVars, loopVars
  <2>2. ~SeederMinds(m)
    BY <2>1 DEF SeederMinds, ToSweep, Fetching
  <2> QED
    BY <1>2, <2>1, <2>2
<1>14. CASE EndNamed
  <2>1. seeder.pc = "end" /\ Same
    BY <1>14 DEF EndNamed, seedVars, loopVars
  <2>2. SeederMinds(m) => m = seeder.cid
    BY <2>1 DEF SeederMinds, ToSweep
  <2>3. CASE ContainsManifest(index, seeder.cid)
    BY <2>1, <2>2, <2>3 DEF Requested
  <2>4. CASE ~ContainsManifest(index, seeder.cid)
    <3>1. seeder' = [SeederIdle EXCEPT !.pc = "sweep", !.tail = "start",
                                       !.sweep = {seeder.cid} \cup seeder.captured]
      BY <1>14, <2>4 DEF EndNamed
    <3>2. seeder'.pc = "sweep" /\ seeder.cid \in seeder'.sweep
      BY <3>1 DEF SeederIdle
    <3>3. SeederMinds(m) => SeederMinds(m)'
      BY <2>2, <3>2 DEF SeederMinds, ToSweep
    <3> QED
      BY <1>2, <2>1, <3>3
  <2> QED
    BY <2>3, <2>4
<1> QED
  BY <1>3, <1>4, <1>5, <1>6, <1>7, <1>8, <1>9, <1>10, <1>11, <1>12, <1>13, <1>14, Zenon DEF SeederStep

LEMMA PurgerDropsNothing ==
    ASSUME Inv, NEW u \in Purger, PurgerStep(u), NEW m \in Manifest, m \in store', Minded(m)
    PROVE  Minded(m)'
<1> DEFINE Kept == ContainsManifest(index', m) \/ m \in ToSweep(purger'[u])
<1>1. /\ purger \in [Purger -> PurgerState] /\ purger[u] \in PurgerState
      /\ index \in SUBSET Publication
  BY DEF Inv, PurgerInv, SeedTypeOK
<1>2. UNCHANGED <<seedNow, seeder, viewer>>
  BY Zenon DEF PurgerStep, BlockSubs, SelectBlocked, PurgeCatalog, PurgeIndex, ReadRemaining,
     StopProviding, PurgerSnapshot, PurgerDelete, PurgedEntries, PurgeCids, WithdrawCids, loopVars
<1>3. \A w \in Purger \ {u} : purger'[w] = purger[w]
  BY <1>1 DEF PurgerStep, BlockSubs, SelectBlocked, PurgeCatalog, PurgeIndex, ReadRemaining,
     StopProviding, PurgerSnapshot, PurgerDelete, PurgedEntries, PurgeCids, WithdrawCids, PurgerGoto
<1>4. ASSUME ContainsManifest(index, m) \/ m \in ToSweep(purger[u])
      PROVE  Kept
  <2>1. CASE BlockSubs(u) \/ SelectBlocked(u) \/ PurgeCatalog(u) \/ PurgedEntries(u)
             \/ PurgeCids(u) \/ WithdrawCids(u)
    <3>1. /\ purger[u].pc \in {"subs", "select", "next", "cids", "withdraw"}
          /\ UNCHANGED index
      BY <2>1 DEF BlockSubs, SelectBlocked, PurgeCatalog, PurgedEntries, PurgeCids, WithdrawCids, seedVars
    <3> QED
      BY <1>4, <3>1 DEF ToSweep
  <2>2. CASE PurgeIndex(u)
    <3> DEFINE gone == Purged(index, pins, purger[u].issuer, KeepPinned(purger[u].kind))
               blocks == (UNION {BlockSet(p.manifest) : p \in gone}) \cup purger[u].cids
               pc == IF purger[u].kind = "unsubscribe" THEN "sweep" ELSE "remaining"
    <3>1. /\ purger[u].pc = "index" /\ index' = Remove(index, gone)
          /\ \/ gone = {}
             \/ purger' = [purger EXCEPT ![u].sweep = blocks, ![u].cids = {}, ![u].pc = pc]
      BY <2>2, Zenon DEF PurgeIndex
    <3>2. ContainsManifest(index, m) /\ gone \subseteq index
      BY <1>4, <3>1 DEF ToSweep, Purged
    <3>3. CASE \A p \in gone : p.manifest # m
      <4> HIDE DEF gone
      <4> QED
        BY <3>1, <3>2, <3>3, StaysIndexed
    <3>4. ASSUME NEW p \in gone, p.manifest = m
          PROVE  Kept
      <4>1. m \in BlockSet(p.manifest)
        BY <3>4, OwnBlocks
      <4>2. m \in blocks
        BY <4>1
      <4>3. pc \in {"sweep", "remaining"}
        OBVIOUS
      <4> HIDE DEF blocks, gone, pc
      <4>4. purger' = [purger EXCEPT ![u].sweep = blocks, ![u].cids = {}, ![u].pc = pc]
        BY <3>1, <3>4
      <4>5. purger'[u].pc \in {"sweep", "remaining"} /\ purger'[u].sweep = blocks
        BY <1>1, <4>3, <4>4 DEF PurgerState
      <4> QED
        BY <4>2, <4>5 DEF ToSweep
    <3> QED
      BY <3>3, <3>4
  <2>3. CASE ReadRemaining(u)
    <3> DEFINE keep == AllCids(index)
    <3>1. /\ purger[u].pc = "remaining" /\ UNCHANGED index
          /\ purger' = [purger EXCEPT ![u].pc = "stop", ![u].keep = keep]
      BY <2>3 DEF ReadRemaining, seedVars
    <3> HIDE DEF keep
    <3>2. purger'[u].pc = "stop" /\ purger'[u].sweep = purger[u].sweep
      BY <1>1, <3>1 DEF PurgerState
    <3> QED
      BY <1>4, <3>1, <3>2 DEF ToSweep
  <2>4. CASE StopProviding(u)
    <3>1. /\ purger[u].pc = "stop" /\ UNCHANGED index
          /\ purger'[u].pc = "sweep" /\ purger'[u].sweep = purger[u].sweep
      BY <1>1, <2>4 DEF StopProviding, PurgerGoto, PurgerState
    <3> QED
      BY <1>4, <3>1 DEF ToSweep
  <2>5. CASE PurgerSnapshot(u)
    <3> DEFINE keep == AllCids(index)
    <3>1. /\ purger[u].pc = "sweep" /\ UNCHANGED index
          /\ purger' = [purger EXCEPT ![u].pc = "delete", ![u].keep = keep]
      BY <2>5 DEF PurgerSnapshot, seedVars
    <3>2. m \in keep => ContainsManifest(index, m)
      BY <1>1, IndexedManifest
    <3> HIDE DEF keep
    <3>3. purger'[u].pc = "delete" /\ purger'[u].sweep = purger[u].sweep /\ purger'[u].keep = keep
      BY <1>1, <3>1 DEF PurgerState
    <3> QED
      BY <1>4, <3>1, <3>2, <3>3 DEF ToSweep
  <2>6. CASE PurgerDelete(u)
    <3>1. /\ purger[u].pc = "delete" /\ UNCHANGED index
          /\ store' = store \ (purger[u].sweep \ purger[u].keep)
      BY <2>6 DEF PurgerDelete
    <3> QED
      BY <1>4, <3>1 DEF ToSweep
  <2> QED
    BY <2>1, <2>2, <2>3, <2>4, <2>5, <2>6, Zenon DEF PurgerStep
<1>5. CASE ContainsManifest(index, m) \/ m \in ToSweep(purger[u])
  BY <1>4, <1>5 DEF Minded
<1>6. CASE SeederMinds(m) \/ Requested(m)
  BY <1>2, <1>6 DEF Minded, SeederMinds, Requested, ToSweep, Fetching
<1>7. ASSUME NEW v \in Viewer, ViewerMinds(v, m)
      PROVE  Minded(m)'
  BY <1>2, <1>7 DEF Minded, ViewerMinds, ToSweep
<1>8. ASSUME NEW w \in Purger \ {u}, m \in ToSweep(purger[w])
      PROVE  Minded(m)'
  BY <1>3, <1>8 DEF Minded, ToSweep
<1> QED
  BY <1>5, <1>6, <1>7, <1>8 DEF Minded, Requested

-----------------------------------------------------------------------------

\* The kinds of foreground task that leave no manifest behind.
Sessions == \A v \in Viewer : viewer[v].pc # "idle" => viewer[v].kind = "watch"

LEMMA OnlySessions ==
    ASSUME Inv, KindInv, Allowed \cap {"hls", "stream", "ingest"} = {}
    PROVE  Sessions
BY AllowedAssumption DEF Inv, ViewerInv, ViewerState, KindInv, Sessions, Operation

LEMMA AskedManifest ==
    ASSUME NEW v \in Viewer, viewer[v].kind = "watch", viewer[v].cid \in Manifest,
           NEW b \in NextBlocks(v), b \in Manifest
    PROVE  b = viewer[v].cid
<1>1. Segments[viewer[v].cid] \in Seq(Segment)
  BY SegmentsAssumption
<1>2. \A k \in DOMAIN Segments[viewer[v].cid] : Segments[viewer[v].cid][k] \notin Manifest
  BY <1>1, CidsDisjoint
<1> QED
  BY <1>2 DEF NextBlocks

LEMMA WantStep ==
    ASSUME Inv, Sessions, WantInv, [Next]_vars
    PROVE  WantInv'
<1>1. CASE UNCHANGED viewer
  BY <1>1 DEF WantInv
<1>2. CASE Restart
  BY <1>2 DEF Restart, WantInv, ViewerIdle
<1>3. ASSUME NEW v \in Viewer, ViewerStep(v) \/ ViewerChoice(v)
      PROVE  WantInv'
  <2> DEFINE Fine == viewer'[v].pc \in {"net", "landed"} /\ viewer'[v].want \in Manifest =>
                         viewer'[v].want = viewer'[v].cid
  <2>1. viewer \in [Viewer -> ViewerState] /\ viewer[v] \in ViewerState
    BY DEF Inv, ViewerInv
  <2>2. ASSUME ViewAsk(v) PROVE Fine
    <3>1. PICK b \in NextBlocks(v) \ BannedCids :
              viewer' = [viewer EXCEPT ![v].pc = IF b \in store THEN "landed" ELSE "net",
                                       ![v].want = b]
      BY <2>2, Zenon DEF ViewAsk
    <3>2. viewer'[v].want = b /\ viewer'[v].cid = viewer[v].cid
      BY <2>1, <3>1 DEF ViewerState
    <3>3. viewer[v].pc = "fetch" /\ viewer[v].kind = "watch" /\ viewer[v].cid \in Manifest
      BY <2>2 DEF ViewAsk, Sessions, Inv, ViewerInv
    <3> QED
      BY <3>1, <3>2, <3>3, AskedManifest
  <2>3. ASSUME ViewDownload(v) PROVE Fine
    BY <2>1, <2>3 DEF ViewDownload, ViewerGoto, ViewerState, WantInv
  <2>4. ASSUME ~ViewAsk(v), ~ViewDownload(v)
        PROVE  viewer'[v].pc \notin {"net", "landed"}
    <3>1. ASSUME NEW pc, ViewerGoto(v, pc) PROVE viewer'[v].pc = pc
      BY <2>1, <3>1 DEF ViewerGoto, ViewerState
    <3>0. ASSUME NEW pc, ViewerGoto(v, pc), pc \notin {"net", "landed"}
           PROVE  viewer'[v].pc \notin {"net", "landed"}
      BY <3>1, <3>0
    <3>2. ASSUME NEW t, viewer' = [viewer EXCEPT ![v] = t] PROVE viewer'[v] = t
      BY <2>1, <3>2
    <3>3. CASE viewer' = [viewer EXCEPT ![v] = ViewerIdle]
      <4>1. ViewerIdle.pc = "idle"
        BY DEF ViewerIdle
      <4> QED
        BY <3>2, <3>3, <4>1
    <3>4. CASE ViewRefused(v) \/ FinishCall(v) \/ FinishStream(v) \/ FinishWatch(v)
      <4>1. \/ viewer' = [viewer EXCEPT ![v] = ViewerIdle]
            \/ \E pc \in {"frozen", "register", "complete", "claimed"} : ViewerGoto(v, pc)
        BY <3>4 DEF ViewRefused, FinishCall, FinishStream, FinishWatch, SetViewer
      <4> QED
        BY <3>3, <3>0, <4>1
    <3>5. CASE ViewNotFound(v)
      <4>1. CASE viewer' = [viewer EXCEPT ![v].pc = "fetch", ![v].want = NoCid]
        BY <2>1, <4>1 DEF ViewerState
      <4> QED
        BY <3>3, <3>5, <4>1, Zenon DEF ViewNotFound, SetViewer
    <3>6. CASE ViewJoin(v)
      BY <2>1, <3>6 DEF ViewJoin, ViewerState
    <3>7. CASE IngestBlock(v)
      BY <3>7 DEF IngestBlock, Sessions
    <3>8. CASE RegisterDownload(v) \/ RegisterOwn(v) \/ ViewerDelete(v) \/ CloseSettled(v)
      BY <3>3, <3>8, Zenon DEF RegisterDownload, RegisterOwn, ViewerDelete, CloseSettled, SetViewer
    <3>9. CASE ViewerSnapshot(v)
      <4> DEFINE keep == AllCids(index)
      <4>1. viewer' = [viewer EXCEPT ![v].pc = "delete", ![v].keep = keep]
        BY <3>9 DEF ViewerSnapshot
      <4> HIDE DEF keep
      <4> QED
        BY <2>1, <4>1 DEF ViewerState
    <3>10. CASE CloseWatched(v)
      <4>1. \/ viewer' = [viewer EXCEPT ![v] = ViewerIdle]
            \/ viewer' = [viewer EXCEPT ![v] = Sweeping(viewer[v].got)]
        BY <3>10, Zenon DEF CloseWatched, SetViewer, Sweeping
      <4>2. Sweeping(viewer[v].got).pc = "sweep"
        BY DEF Sweeping, ViewerIdle
      <4> QED
        BY <3>2, <3>3, <4>1, <4>2
    <3>11. ASSUME NEW kind, NEW i \in Issuer, NEW m \in Manifest, Begin(v, kind, i, m)
           PROVE  viewer'[v].pc = "fetch"
      <4>1. viewer' = [viewer EXCEPT ![v] = Beginning(kind, i, m)]
        BY <3>11, Zenon DEF Begin, SetViewer, Beginning
      <4>2. Beginning(kind, i, m).pc = "fetch"
        BY DEF Beginning, ViewerIdle
      <4> QED
        BY <3>2, <4>1, <4>2
    <3>12. CASE \E m \in Manifest :
                   \/ \E j \in Issuer, kind \in {"hls", "stream"} : ViewSubscribed(v, kind, j, m)
                   \/ \E j \in Issuer : WatchOther(v, j, m)
                   \/ Ingest(v, m)
      BY <3>11, <3>12, SelfAssumption DEF ViewSubscribed, WatchOther, Ingest
    <3> QED
      BY <1>3, <2>4, <3>4, <3>5, <3>6, <3>7, <3>8, <3>9, <3>10, <3>12, Zenon DEF ViewerStep, ViewerChoice
  <2>5. \A w \in Viewer \ {v} : viewer'[w] = viewer[w]
    BY <1>3, MoveOf
  <2>6. Fine
    BY <2>2, <2>3, <2>4
  <2> QED
    BY <2>5, <2>6 DEF WantInv
<1> QED
  BY <1>1, <1>2, <1>3, OthersLeaveViewers

LEMMA ViewerDropsNothing ==
    ASSUME Inv, Sessions, WantInv, pins = {}, NEW v \in Viewer, ViewerStep(v) \/ ViewerChoice(v),
           NEW m \in Manifest, m \in store', m \in store => Minded(m)
    PROVE  Minded(m)'
<1> DEFINE Kept == ContainsManifest(index', m) \/ ViewerMinds(v, m)' \/ Requested(m)'
           Same == UNCHANGED <<index, store, seedNow>>
           S == viewer[v]
           T == viewer'[v]
<1>1. /\ viewer \in [Viewer -> ViewerState] /\ S \in ViewerState
      /\ index \in SUBSET Publication
  BY DEF Inv, ViewerInv, SeedTypeOK
<1>2. \A w \in Viewer \ {v} : viewer'[w] = viewer[w]
  BY MoveOf
<1>3. S.pc # "idle" => S.kind = "watch"
  BY DEF Sessions
<1>4. S.pc \notin {"idle", "sweep", "delete"} => S.cid \in Manifest
  BY DEF Inv, ViewerInv
<1>5. ~IngestBlock(v) /\ ~FinishCall(v) /\ ~FinishStream(v) /\ ~RegisterDownload(v) /\ ~RegisterOwn(v)
  BY <1>3 DEF IngestBlock, FinishCall, FinishStream, GotAll, IsSession, RegisterDownload, RegisterOwn
<1>6. UNCHANGED <<index, seeder, purger>>
  BY <1>5, Zenon DEF ViewerStep, ViewerChoice, ViewRefused, ViewAsk, ViewDownload, ViewJoin,
     ViewNotFound, FinishWatch, ViewerSnapshot, ViewerDelete, ViewSubscribed, WatchOther, Ingest,
     Begin, CloseSettled, CloseWatched, seedVars
<1>7. Requested(m) => Requested(m)'
  <2>1. CASE UNCHANGED seedNow
    BY <2>1 DEF Requested
  <2>2. CASE seedNow' = Append(seedNow, <<S.issuer, S.cid>>)
    <3>1. seedNow \in Seq(Issuer \X Manifest)
      BY DEF Inv, LoopTypeOK
    <3> DEFINE e == <<S.issuer, S.cid>>
    <3>2. seedNow' = Append(seedNow, e)
      BY <2>2
    <3> HIDE DEF e, S
    <3>3. \A k \in DOMAIN seedNow : k \in DOMAIN seedNow' /\ seedNow'[k] = seedNow[k]
      BY <3>1, <3>2
    <3> QED
      BY <3>3 DEF Requested, Range
  <2> QED
    BY <1>5, <2>1, <2>2, Zenon DEF ViewerStep, ViewerChoice, ViewRefused, ViewAsk, ViewDownload,
       ViewJoin, ViewNotFound, FinishWatch, ViewerSnapshot, ViewerDelete, ViewSubscribed,
       WatchOther, Ingest, Begin, CloseSettled, CloseWatched, loopVars
<1>8. seedNow' = Append(seedNow, <<S.issuer, S.cid>>) /\ m = S.cid => Requested(m)'
  <2> DEFINE e == <<S.issuer, S.cid>>
  <2>1. SUFFICES ASSUME seedNow' = Append(seedNow, e), m = S.cid PROVE Requested(m)'
    OBVIOUS
  <2>2. seedNow \in Seq(Issuer \X Manifest) /\ e[2] = m
    BY <2>1 DEF Inv, LoopTypeOK
  <2> HIDE DEF e, S
  <2>3. Len(seedNow) + 1 \in DOMAIN seedNow' /\ seedNow'[Len(seedNow) + 1] = e
    BY <2>1, <2>2
  <2>4. e \in Range(seedNow')
    BY <2>3 DEF Range
  <2> QED
    BY <2>2, <2>4 DEF Requested
<1>9. CASE \E w \in Viewer \ {v} : m \in store /\ ViewerMinds(w, m)
  BY <1>2, <1>9 DEF Minded, ViewerMinds, ToSweep
<1>10. CASE m \in store /\ (ContainsManifest(index, m) \/ SeederMinds(m) \/ Requested(m)
                              \/ \E u \in Purger : m \in ToSweep(purger[u]))
  BY <1>6, <1>7, <1>10 DEF Minded, SeederMinds, Requested, ToSweep, Fetching
<1>11. ASSUME m \in store => ViewerMinds(v, m) \/ ContainsManifest(index, m)
       PROVE  Kept
  <2>1. CASE ViewRefused(v) \/ ViewNotFound(v)
    <3>1. S.pc \in {"fetch", "net"} /\ UNCHANGED store
      BY <2>1 DEF ViewRefused, ViewNotFound, seedVars
    <3>2. ViewerMinds(v, m) => m = S.cid /\ m \in S.got
      BY <3>1 DEF ViewerMinds, ToSweep
    <3>3. ASSUME S.cid \in S.got
          PROVE  T.pc \in {"frozen", "fetch"} /\ T.cid = S.cid /\ T.got = S.got
      <4>1. IsSession(v)
        BY <1>3, <3>1 DEF IsSession
      <4>2. ViewerGoto(v, "frozen") \/ viewer' = [viewer EXCEPT ![v].pc = "fetch", ![v].want = NoCid]
        BY <2>1, <3>3, <4>1 DEF ViewRefused, ViewNotFound
      <4> QED
        BY <1>1, <4>2 DEF ViewerGoto, ViewerState
    <3> QED
      BY <1>6, <1>11, <3>1, <3>2, <3>3 DEF ViewerMinds
  <2>2. CASE ViewAsk(v)
    <3>1. S.pc = "fetch" /\ UNCHANGED store
      BY <2>2 DEF ViewAsk, seedVars
    <3>2. PICK b \in NextBlocks(v) \ BannedCids :
              viewer' = [viewer EXCEPT ![v].pc = IF b \in store THEN "landed" ELSE "net",
                                       ![v].want = b]
      BY <2>2, Zenon DEF ViewAsk
    <3>3. T.pc \in {"net", "landed"} /\ T.cid = S.cid /\ T.got = S.got
      BY <1>1, <3>2 DEF ViewerState
    <3> QED
      BY <1>6, <1>11, <3>1, <3>3 DEF ViewerMinds, ToSweep
  <2>3. CASE ViewDownload(v)
    <3>1. S.pc = "net" /\ store' = store \cup {S.want} /\ ViewerGoto(v, "landed")
      BY <2>3 DEF ViewDownload
    <3>2. T.pc = "landed" /\ T.cid = S.cid /\ T.got = S.got /\ T.want = S.want
      BY <1>1, <3>1 DEF ViewerGoto, ViewerState
    <3>3. m = S.want => m = S.cid
      BY <3>1 DEF WantInv
    <3> QED
      BY <1>6, <1>11, <3>1, <3>2, <3>3 DEF ViewerMinds, ToSweep
  <2>4. CASE ViewJoin(v)
    <3>1. S.pc = "landed" /\ UNCHANGED store
      BY <2>4 DEF ViewJoin, seedVars
    <3>2. T.pc = "fetch" /\ T.cid = S.cid /\ T.got = S.got \cup {S.want}
      BY <1>1, <2>4 DEF ViewJoin, ViewerState
    <3> QED
      BY <1>6, <1>11, <3>1, <3>2 DEF ViewerMinds, ToSweep
  <2>5. CASE FinishWatch(v)
    <3>1. /\ S.pc = "fetch" /\ UNCHANGED store
          /\ \/ seedNow' = Append(seedNow, <<S.issuer, S.cid>>)
             \/ ViewerGoto(v, "complete")
      BY <2>5 DEF FinishWatch, GotAll, seedVars
    <3>2. ViewerMinds(v, m) => m = S.cid /\ m \in S.got
      BY <3>1 DEF ViewerMinds, ToSweep
    <3>3. CASE ViewerGoto(v, "complete")
      <4>1. T.pc = "complete" /\ T.cid = S.cid /\ T.got = S.got
        BY <1>1, <3>3 DEF ViewerGoto, ViewerState
      <4> QED
        BY <1>6, <1>11, <3>1, <3>2, <4>1 DEF ViewerMinds
    <3> QED
      BY <1>6, <1>8, <1>11, <3>1, <3>2, <3>3
  <2>6. CASE ViewerSnapshot(v)
    <3> DEFINE keep == AllCids(index)
    <3>1. S.pc = "sweep" /\ UNCHANGED store /\ viewer' = [viewer EXCEPT ![v].pc = "delete", ![v].keep = keep]
      BY <2>6 DEF ViewerSnapshot, seedVars
    <3>2. m \in keep => ContainsManifest(index, m)
      BY <1>1, IndexedManifest
    <3> HIDE DEF keep
    <3>3. T.pc = "delete" /\ T.sweep = S.sweep /\ T.keep = keep
      BY <1>1, <3>1 DEF ViewerState
    <3> QED
      BY <1>6, <1>11, <3>1, <3>2, <3>3 DEF ViewerMinds, ToSweep
  <2>7. CASE ViewerDelete(v)
    <3>1. S.pc = "delete" /\ store' = store \ (S.sweep \ S.keep)
      BY <2>7 DEF ViewerDelete
    <3> QED
      BY <1>6, <1>11, <3>1 DEF ViewerMinds, ToSweep
  <2>8. CASE CloseSettled(v)
    <3>1. /\ S.pc \in {"fetch", "net", "landed", "frozen", "complete", "claimed"} /\ UNCHANGED store
          /\ S.pc = "claimed" \/ ContainsManifest(index, S.cid)
      BY <1>3, <2>8 DEF CloseSettled, Open, seedVars
    <3>2. ViewerMinds(v, m) => m = S.cid /\ S.pc # "claimed"
      BY <3>1 DEF ViewerMinds, ToSweep
    <3> QED
      BY <1>6, <1>11, <3>1, <3>2
  <2>9. CASE CloseWatched(v)
    <3>1. /\ S.pc \in {"fetch", "net", "landed", "frozen", "complete"} /\ UNCHANGED store
          /\ S.cid \in S.got
          /\ \/ seedNow' = Append(seedNow, <<S.issuer, S.cid>>)
             \/ viewer' = [viewer EXCEPT ![v] = Sweeping(S.got)]
      BY <2>9 DEF CloseWatched, Open, SetViewer, Sweeping, seedVars
    <3>2. ViewerMinds(v, m) => m = S.cid
      BY <3>1 DEF ViewerMinds, ToSweep
    <3>3. CASE viewer' = [viewer EXCEPT ![v] = Sweeping(S.got)]
      <4>1. T = Sweeping(S.got)
        BY <1>1, <3>3
      <4>2. T.pc = "sweep" /\ T.sweep = S.got
        BY <4>1 DEF Sweeping, ViewerIdle
      <4> QED
        BY <1>6, <1>11, <3>1, <3>2, <4>2 DEF ViewerMinds, ToSweep
    <3> QED
      BY <1>6, <1>8, <1>11, <3>1, <3>2, <3>3
  <2>10. CASE \E n \in Manifest :
                 \/ \E j \in Issuer, kind \in {"hls", "stream"} : ViewSubscribed(v, kind, j, n)
                 \/ \E j \in Issuer : WatchOther(v, j, n)
                 \/ Ingest(v, n)
    <3>1. S.pc = "idle" /\ UNCHANGED store
      BY <2>10 DEF ViewSubscribed, WatchOther, Ingest, Begin, seedVars
    <3>2. ~ViewerMinds(v, m)
      BY <3>1 DEF ViewerMinds, ToSweep
    <3> QED
      BY <1>6, <1>11, <3>1, <3>2
  <2> QED
    BY <1>5, <2>1, <2>2, <2>3, <2>4, <2>5, <2>6, <2>7, <2>8, <2>9, <2>10, Zenon
       DEF ViewerStep, ViewerChoice
<1>12. Kept => Minded(m)'
  BY DEF Minded, Requested
<1> HIDE DEF Kept
<1> QED
  BY <1>9, <1>10, <1>11, <1>12 DEF Minded, Requested

\* What the user does, and what comes from outside, begins a purge at most.
LEMMA OthersDropNothing ==
    ASSUME Inv,
           \/ UserStep \/ Reprovide \/ UNCHANGED vars
           \/ \E i \in Issuer : SubscribeRecord(i) \/ FeedStep(i),
           NEW m \in Manifest, m \in store', m \in store => Minded(m)
    PROVE  Minded(m)'
<1>1. UNCHANGED <<index, store, seedNow, seeder, viewer>>
  BY Zenon DEF UserStep, SubscribeCheck, Unblock, FeedChecked, SetQuota, Pin, Unpin, LiftList,
     Unsubscribe, BlockChannel, ApplyList, SubscribeRecord, FeedStep, FeedApplied, FeedDropped,
     Reprovide, vars, seedVars, loopVars, taskVars
<1>2. \A u \in Purger : purger'[u] = purger[u] \/ purger[u].pc = "idle"
  <2>1. purger \in [Purger -> PurgerState]
    BY DEF Inv, PurgerInv
  <2>2. CASE UNCHANGED purger
    BY <2>2
  <2>3. ASSUME NEW u \in Purger, NEW t, purger[u].pc = "idle", purger' = [purger EXCEPT ![u] = t]
        PROVE  \A w \in Purger : purger'[w] = purger[w] \/ purger[w].pc = "idle"
    BY <2>1, <2>3
  <2>4. ASSUME NEW u \in Purger,
               \/ \E i \in Issuer : Unsubscribe(u, i) \/ BlockChannel(u, i)
               \/ \E l \in Lists : ApplyList(u, l)
        PROVE  purger[u].pc = "idle" /\ \E t : purger' = [purger EXCEPT ![u] = t]
    BY <2>4, Zenon DEF Unsubscribe, BlockChannel, ApplyList
  <2>5. CASE \E u \in Purger : \/ \E i \in Issuer : Unsubscribe(u, i) \/ BlockChannel(u, i)
                               \/ \E l \in Lists : ApplyList(u, l)
    BY <2>3, <2>4, <2>5
  <2>6. \/ UNCHANGED purger
        \/ \E u \in Purger : \/ \E i \in Issuer : Unsubscribe(u, i) \/ BlockChannel(u, i)
                             \/ \E l \in Lists : ApplyList(u, l)
    BY Zenon DEF UserStep, SubscribeCheck, Unblock, FeedChecked, SetQuota, Pin, Unpin, LiftList,
       SubscribeRecord, FeedStep, FeedApplied, FeedDropped, Reprovide, vars, taskVars
  <2> QED
    BY <2>2, <2>5, <2>6
<1>3. Minded(m)
  BY <1>1
<1>4. ASSUME NEW u \in Purger, m \in ToSweep(purger[u])
      PROVE  Minded(m)'
  <2>1. purger[u].pc # "idle"
    BY <1>4 DEF ToSweep
  <2> QED
    BY <1>2, <1>4, <2>1 DEF Minded, ToSweep
<1>5. CASE ContainsManifest(index, m) \/ SeederMinds(m) \/ Requested(m)
  BY <1>1, <1>5 DEF Minded, SeederMinds, Requested, ToSweep, Fetching
<1>6. ASSUME NEW v \in Viewer, ViewerMinds(v, m)
      PROVE  Minded(m)'
  BY <1>1, <1>6 DEF Minded, ViewerMinds, ToSweep
<1> QED
  BY <1>3, <1>4, <1>5, <1>6 DEF Minded, Requested

LEMMA PinsStayEmpty ==
    ASSUME Sessions, pins = {}, Allowed \cap {"restart", "pin"} = {}, [Next]_vars
    PROVE  pins' = {}
<1>1. CASE SeederStep
  BY <1>1, Zenon DEF SeederStep, StartPass, VisitIssuer, EndPass, SkipListed, TryListed,
     EndChannel, EnterRoom, RoomFound, MeasureCandidates, NoCandidate, PickVictim, Refuse,
     Evict, Snapshot, Delete, AskModeration, AskStore, Download, NotFound, ReadBan,
     ReadIntent, Commit, EndListed, EndNamed, Tick, Wake, TakeNamed, seedVars
<1>2. CASE \E u \in Purger : PurgerStep(u)
  BY <1>2, Zenon DEF PurgerStep, BlockSubs, SelectBlocked, PurgeCatalog, PurgeIndex,
     ReadRemaining, StopProviding, PurgerSnapshot, PurgerDelete, PurgedEntries, PurgeCids,
     WithdrawCids, seedVars
<1>3. CASE \E v \in Viewer : ViewerStep(v)
  <2>1. ASSUME NEW v \in Viewer
        PROVE  ~RegisterOwn(v)
    BY DEF Sessions, RegisterOwn
  <2> QED
    BY <1>3, <2>1, Zenon DEF ViewerStep, ViewRefused, ViewAsk, ViewDownload, ViewJoin,
       ViewNotFound, IngestBlock, FinishCall, FinishStream, FinishWatch, RegisterDownload,
       ViewerSnapshot, ViewerDelete, seedVars
<1>4. CASE (\E j \in Issuer : SubscribeRecord(j) \/ FeedStep(j)) \/ Reprovide \/ Restart \/ UNCHANGED vars
  BY <1>4, Zenon DEF SubscribeRecord, FeedStep, FeedApplied, FeedDropped, Reprovide, Restart,
     vars, seedVars
<1>5. CASE UserStep
  <2>1. ASSUME NEW m \in Manifest
        PROVE  ~Pin(m)
    BY DEF Pin, Occurs
  <2>2. ASSUME NEW m \in Manifest, Unpin(m)
        PROVE  pins' = {}
    BY <2>2 DEF Unpin
  <2> QED
    BY <1>5, <2>1, <2>2, Zenon DEF UserStep, SubscribeCheck, Unblock, FeedChecked, SetQuota,
       LiftList, Unsubscribe, BlockChannel, ApplyList, seedVars
<1>6. CASE \E v \in Viewer : ViewerChoice(v)
  BY <1>6, Zenon DEF ViewerChoice, ViewSubscribed, WatchOther, Ingest, Begin, CloseSettled,
     CloseWatched, seedVars
<1> QED
  BY <1>1, <1>2, <1>3, <1>4, <1>5, <1>6, Zenon DEF Next, TaskStep

MindsAll == pins = {} /\ WantInv /\ MindedInv

LEMMA MindsStep ==
    ASSUME Inv, KindInv, AtRest, MindsAll,
           Allowed \cap {"restart", "hls", "stream", "ingest", "pin"} = {}, [Next]_vars
    PROVE  MindsAll'
<1>1. Sessions
  BY OnlySessions
<1>2. WantInv' /\ pins' = {}
  BY <1>1, WantStep, PinsStayEmpty DEF MindsAll
<1>3. ASSUME NEW m \in Manifest, m \in store'
      PROVE  Minded(m)'
  <2>1. m \in store => Minded(m)
    BY DEF MindsAll, MindedInv
  <2>2. CASE SeederStep
    <3>1. UNCHANGED <<viewer, purger>>
      BY <2>2, Zenon DEF SeederStep, StartPass, VisitIssuer, EndPass, SkipListed, TryListed,
         EndChannel, EnterRoom, RoomFound, MeasureCandidates, NoCandidate, PickVictim, Refuse,
         Evict, Snapshot, Delete, AskModeration, AskStore, Download, NotFound, ReadBan,
         ReadIntent, Commit, EndListed, EndNamed, Tick, Wake, TakeNamed
    <3>2. CASE \E v \in Viewer : ViewerMinds(v, m)
      BY <3>1, <3>2 DEF Minded, ViewerMinds, ToSweep
    <3>3. CASE \E u \in Purger : m \in ToSweep(purger[u])
      BY <3>1, <3>3 DEF Minded, ToSweep
    <3>4. CASE m \in store => ContainsManifest(index, m) \/ SeederMinds(m) \/ Requested(m)
      <4>1. ContainsManifest(index', m) \/ SeederMinds(m)' \/ Requested(m)'
        BY <1>3, <2>2, <3>4, SeederDropsNothing DEF MindsAll
      <4> QED
        BY <4>1 DEF Minded, Requested
    <3> QED
      BY <2>1, <3>2, <3>3, <3>4 DEF Minded, Requested
  <2>3. ASSUME NEW u \in Purger, PurgerStep(u)
        PROVE  Minded(m)'
    <3>1. store' \subseteq store
      BY <2>3 DEF PurgerStep, BlockSubs, SelectBlocked, PurgeCatalog, PurgeIndex,
         ReadRemaining, StopProviding, PurgerSnapshot, PurgerDelete, PurgedEntries, PurgeCids,
         WithdrawCids, seedVars
    <3> QED
      BY <1>3, <2>1, <2>3, <3>1, PurgerDropsNothing
  <2>4. ASSUME NEW v \in Viewer, ViewerStep(v) \/ ViewerChoice(v)
        PROVE  Minded(m)'
    BY <1>1, <1>3, <2>1, <2>4, ViewerDropsNothing DEF MindsAll
  <2>5. ~Restart
    BY DEF Restart, Occurs
  <2>6. CASE UserStep \/ (\E i \in Issuer : SubscribeRecord(i) \/ FeedStep(i)) \/ Reprovide \/ UNCHANGED vars
    BY <1>3, <2>1, <2>6, OthersDropNothing
  <2> QED
    BY <2>2, <2>3, <2>4, <2>5, <2>6 DEF Next, TaskStep
<1> QED
  BY <1>2, <1>3 DEF MindsAll, MindedInv

LEMMA MindedIsAccounted ==
    ASSUME Inv, NEW m \in Manifest, Minded(m)
    PROVE  m \in Accounted
<1>1. m \in BlockSet(m) /\ m # NoCid
  BY OwnBlocks, NoneAssumption DEF Cid
<1>2. CASE ContainsManifest(index, m)
  BY <1>1, <1>2 DEF ContainsManifest, AllCids, Accounted
<1>3. CASE SeederMinds(m)
  <2>1. m \in seeder.sweep \/ (seeder.watched /\ m = seeder.cid) \/ m \in Fetched
    BY <1>1, <1>3, FirstFetched DEF SeederMinds, ToSweep
  <2> QED
    BY <2>1 DEF SeederHolds, Accounted
<1>4. ASSUME NEW n \in Range(seedNow), n[2] = m
      PROVE  m \in Accounted
  BY <1>1, <1>4 DEF RequestHolds, Accounted
<1>5. ASSUME NEW v \in Viewer, ViewerMinds(v, m)
      PROVE  m \in Accounted
  <2>1. m \in ViewerHolds(v)
    BY <1>5 DEF ViewerMinds, ToSweep, ViewerHolds
  <2> QED
    BY <2>1 DEF Accounted
<1>6. ASSUME NEW u \in Purger, m \in ToSweep(purger[u])
      PROVE  m \in Accounted
  <2>1. m \in purger[u].sweep
    BY <1>6 DEF ToSweep
  <2> QED
    BY <2>1 DEF Accounted
<1> QED
  BY <1>2, <1>3, <1>4, <1>5, <1>6 DEF Minded

\* However many sessions outside the subscriptions run at once, on one publication or on
\* several, whatever the seed loop, the purges and the moderation do meanwhile, no
\* manifest stays in the store that nobody indexed nor will remove.  Not so of a restart,
\* which loses the sessions, of a pin that is taken back, of a download that fails halfway
\* and of a session on a channel left meanwhile: the code leaves their blocks behind.
THEOREM NothingIsLeftBehind ==
    ASSUME Allowed \cap {"restart", "hls", "stream", "ingest", "pin"} = {}
    PROVE  Spec => []NoOrphanManifest
<1>1. Init => MindsAll
  BY DEF Init, MindsAll, WantInv, MindedInv, ViewerIdle
<1>2. Inv /\ KindInv /\ AtRest /\ MindsAll /\ [Next]_vars => MindsAll'
  BY MindsStep
<1>3. Inv /\ MindsAll => NoOrphanManifest
  BY MindedIsAccounted DEF MindsAll, MindedInv, NoOrphanManifest
<1> QED
  BY <1>1, <1>2, <1>3, InvHolds, KindHolds, AtRestHolds, PTL DEF Spec
=============================================================================
