---------------------------- MODULE SeedNodeProofs ----------------------------
(***************************************************************************)
(* Theorems about SeedNode, for every set of issuers, of blocks and of     *)
(* tasks.                                                                  *)
(***************************************************************************)
EXTENDS SeedNode, FiniteSetTheorems, TLAPS

\* The states in which seed_publication works on a candidate.
Attempting ==
    \/ seeder.pc \in {"room", "loop", "victim", "evict", "ask", "net", "ban", "intent",
                      "insert", "end"}
    \/ seeder.pc \in {"sweep", "delete"} /\ seeder.tail \in {"loop", "end"}

\* Those in which a block is still missing.
Fetching ==
    \/ seeder.pc \in {"room", "loop", "victim", "evict", "ask", "net"}
    \/ seeder.pc \in {"sweep", "delete"} /\ seeder.tail = "loop"

Resting ==
    \/ seeder.pc \in {"wait", "start", "pass", "channel"}
    \/ seeder.pc \in {"sweep", "delete"} /\ seeder.tail = "start"

SeederInv ==
    /\ seeder \in SeederState
    /\ Attempting => seeder.cid \in Listed /\ seeder.issuer \in Issuer
    /\ Fetching => seeder.done < Len(Blocks(seeder.cid))
    /\ seeder.pc \in {"ban", "intent", "insert"} => seeder.cid \in Manifest
    /\ seeder.pc = "channel" => seeder.issuer \in Issuer
    /\ Resting => seeder.done = 0
    /\ seeder.pc \in {"sweep", "delete"} => seeder.tail # "wait"

ViewerInv ==
    /\ viewer \in [Viewer -> ViewerState]
    /\ \A v \in Viewer :
          /\ viewer[v].pc \notin {"idle", "sweep", "delete"} =>
                viewer[v].cid \in Manifest /\ viewer[v].issuer \in Issuer
          /\ viewer[v].pc \in {"net", "landed"} => viewer[v].want \in Cid
          /\ viewer[v].kind = "ingest" => viewer[v].issuer = Self

PurgerInv ==
    /\ purger \in [Purger -> PurgerState]
    /\ \A u \in Purger :
          /\ purger[u].pc = "subs" => purger[u].issuer \in Issuer
          /\ purger[u].pc # "idle" => purger[u].kind # "none"
          /\ purger[u].pc \in {"subs", "select", "next"} => purger[u].kind # "unsubscribe"

\* The inductive strengthening of TypeOK.
Inv == UserTypeOK /\ SeedTypeOK /\ LoopTypeOK /\ SeederInv /\ ViewerInv /\ PurgerInv

-----------------------------------------------------------------------------
(* The operators of the index *)

LEMMA BlocksType ==
    ASSUME NEW c \in Listed
    PROVE  /\ Blocks(c) \in Seq(Cid)
           /\ Len(Blocks(c)) >= 1
           /\ BlockSet(c) \subseteq Cid
<1>1. CASE c \in Manifest
  <2>1. Segments[c] \in Seq(Segment)
    BY <1>1, SegmentsAssumption
  <2>2. \A k \in DOMAIN Segments[c] : Segments[c][k] \in Segment
    BY <2>1
  <2>3. Range(Segments[c]) \subseteq Segment
    BY <2>2 DEF Range
  <2>4. <<c>> \in Seq(Cid) /\ Segments[c] \in Seq(Cid)
    BY <1>1, <2>1 DEF Cid
  <2>5. Blocks(c) = <<c>> \o Segments[c]
    BY <1>1 DEF Blocks
  <2> QED
    BY <1>1, <2>3, <2>4, <2>5 DEF BlockSet, Cid
<1>2. CASE c \notin Manifest
  <2>1. Blocks(c) = <<c>> \o <<>> /\ BlockSet(c) = {c} \cup {}
    BY <1>2 DEF Blocks, BlockSet
  <2>2. c \in Cid
    BY DEF Listed, Cid
  <2> QED
    BY <2>1, <2>2
<1> QED
  BY <1>1, <1>2

LEMMA InsertType ==
    ASSUME NEW idx, idx \subseteq Publication, IsFiniteSet(idx),
           NEW i \in Issuer, NEW m \in Manifest, NEW blocks \in SUBSET Cid
    PROVE  Insert(idx, i, m, blocks) \subseteq Publication /\ IsFiniteSet(Insert(idx, i, m, blocks))
<1>1. Cardinality(idx) \in Nat
  BY FS_CardinalityType
<1>2. [issuer |-> i, manifest |-> m, counted |-> blocks, order |-> Cardinality(idx)] \in Publication
  BY <1>1 DEF Publication
<1>3. IsFiniteSet(Insert(idx, i, m, blocks))
  BY FS_AddElement DEF Insert
<1> QED
  BY <1>2, <1>3 DEF Insert

\* Removing entries changes nothing of the others but their rank.
LEMMA RemoveType ==
    ASSUME NEW idx, idx \subseteq Publication, IsFiniteSet(idx), NEW gone
    PROVE  /\ Remove(idx, gone) \subseteq Publication
           /\ IsFiniteSet(Remove(idx, gone))
           /\ \A q \in Remove(idx, gone) :
                 \E p \in idx \ gone : /\ q.manifest = p.manifest /\ q.issuer = p.issuer
                                       /\ q = [p EXCEPT !.order = q.order]
           /\ \A p \in idx \ gone :
                 \E q \in Remove(idx, gone) : q.manifest = p.manifest /\ q.issuer = p.issuer
           /\ (\A p, q \in idx : p.manifest = q.manifest => p = q) =>
                 \A p, q \in Remove(idx, gone) : p.manifest = q.manifest => p = q
<1> DEFINE kept == idx \ gone
           rank(p) == Cardinality({q \in kept : q.order < p.order})
<1>1. IsFiniteSet(kept)
  BY FS_Subset
<1>2. ASSUME NEW p \in kept
      PROVE  rank(p) \in Nat
  <2>1. IsFiniteSet({q \in kept : q.order < p.order})
    BY <1>1, FS_Subset, {q \in kept : q.order < p.order} \subseteq kept
  <2> QED
    BY <2>1, FS_CardinalityType
<1>3. Remove(idx, gone) = {[p EXCEPT !.order = rank(p)] : p \in kept}
  BY DEF Remove
<1> HIDE DEF rank
<1>4. ASSUME NEW p \in kept
      PROVE  /\ [p EXCEPT !.order = rank(p)] \in Publication
             /\ [p EXCEPT !.order = rank(p)].manifest = p.manifest
             /\ [p EXCEPT !.order = rank(p)].issuer = p.issuer
             /\ [p EXCEPT !.order = rank(p)].order = rank(p)
  BY <1>2 DEF Publication
<1> DEFINE ranked == [p \in kept |-> [p EXCEPT !.order = rank(p)]]
<1>5. ranked \in Surjection(kept, Remove(idx, gone))
  BY <1>3 DEF Surjection
<1>6. IsFiniteSet(Remove(idx, gone))
  BY <1>1, <1>5, FS_Surjection
<1>7. Remove(idx, gone) \subseteq Publication
  BY <1>3, <1>4
<1>8. ASSUME NEW q \in Remove(idx, gone)
      PROVE  \E p \in kept : /\ q.manifest = p.manifest /\ q.issuer = p.issuer
                             /\ q = [p EXCEPT !.order = q.order]
  <2>1. PICK p \in kept : q = [p EXCEPT !.order = rank(p)]
    BY <1>3
  <2> QED
    BY <2>1, <1>4
<1>9. \A p \in kept : \E q \in Remove(idx, gone) : q.manifest = p.manifest /\ q.issuer = p.issuer
  BY <1>3, <1>4
<1>10. ASSUME \A p, q \in idx : p.manifest = q.manifest => p = q,
              NEW p \in Remove(idx, gone), NEW q \in Remove(idx, gone), p.manifest = q.manifest
       PROVE  p = q
  <2>1. PICK p0 \in kept : p = [p0 EXCEPT !.order = rank(p0)]
    BY <1>3
  <2>2. PICK q0 \in kept : q = [q0 EXCEPT !.order = rank(q0)]
    BY <1>3
  <2>3. p0 = q0
    BY <1>4, <1>10, <2>1, <2>2
  <2> QED
    BY <2>1, <2>2, <2>3
<1> QED
  BY <1>6, <1>7, <1>8, <1>9, <1>10

-----------------------------------------------------------------------------
(* The seed loop keeps Inv *)

LEMMA QueueType ==
    ASSUME NEW S
    PROVE  /\ <<>> \in Seq(S)
           /\ \A q \in Seq(S), e \in S : Append(q, e) \in Seq(S)
           /\ \A q \in Seq(S) : q # <<>> => Head(q) \in S /\ Tail(q) \in Seq(S)
OBVIOUS

LEMMA InitInv == Init => Inv
<1> SUFFICES ASSUME Init PROVE Inv
  OBVIOUS
<1>1. UserTypeOK
  BY QuotasAssumption DEF Init, UserTypeOK
<1>2. SeedTypeOK
  BY FS_EmptySet DEF Init, SeedTypeOK
<1>6. LoopTypeOK
  BY QueueType DEF Init, LoopTypeOK
<1>3. SeederInv
  BY DEF Init, SeederInv, SeederIdle, SeederState, SeederPC, Attempting, Fetching, Resting
<1>4. ViewerInv
  BY DEF Init, ViewerInv, ViewerIdle, ViewerState, ViewerPC
<1>5. PurgerInv
  BY DEF Init, PurgerInv, PurgerIdle, PurgerState, PurgerPC
<1> QED
  BY <1>1, <1>2, <1>3, <1>4, <1>5, <1>6 DEF Inv

\* The blocks of an attempt, its next one among them, are CIDs.
LEMMA AttemptType ==
    ASSUME SeederInv
    PROVE  /\ Fetched \subseteq Cid
           /\ Fetching => /\ Needed \in Cid
                          /\ seeder.done + 1 \in 1 .. Len(Blocks(seeder.cid))
<1>1. seeder \in SeederState
  BY DEF SeederInv
<1>2. Fetched \subseteq Cid
  <2>1. CASE seeder.cid = NoCid
    BY <2>1 DEF Fetched
  <2>2. CASE seeder.cid # NoCid
    <3>1. Blocks(seeder.cid) \in Seq(Cid)
      BY <1>1, <2>2, BlocksType DEF SeederState
    <3>2. \A k \in DOMAIN Blocks(seeder.cid) : Blocks(seeder.cid)[k] \in Cid
      BY <3>1
    <3> QED
      BY <2>2, <3>2 DEF Fetched
  <2> QED
    BY <2>1, <2>2
<1>3. ASSUME Fetching
      PROVE  Needed \in Cid /\ seeder.done + 1 \in 1 .. Len(Blocks(seeder.cid))
  <2>1. seeder.cid \in Listed /\ seeder.done < Len(Blocks(seeder.cid)) /\ seeder.done \in Nat
    BY <1>1, <1>3 DEF SeederInv, Fetching, Attempting, SeederState
  <2>2. Blocks(seeder.cid) \in Seq(Cid) /\ Len(Blocks(seeder.cid)) >= 1
    BY <2>1, BlocksType
  <2> HIDE DEF Blocks
  <2>3. seeder.done + 1 \in 1 .. Len(Blocks(seeder.cid))
    BY <2>1, <2>2
  <2> QED
    BY <2>2, <2>3 DEF Needed
<1> QED
  BY <1>2, <1>3

LEMMA AllCidsType ==
    ASSUME NEW idx \in SUBSET Publication
    PROVE  AllCids(idx) \subseteq Cid
BY BlocksType DEF AllCids, Publication, Listed

\* What a step of the seed loop leaves alone keeps its part of Inv.
LEMMA SeederFrame ==
    ASSUME Inv, UNCHANGED <<userVars, viewer, purger>>,
           SeedTypeOK', LoopTypeOK', SeederInv'
    PROVE  Inv'
BY DEF Inv, UserTypeOK, ViewerInv, PurgerInv, userVars

LEMMA SeedUnchanged == SeedTypeOK /\ UNCHANGED seedVars => SeedTypeOK'
BY DEF SeedTypeOK, seedVars

LEMMA LoopUnchanged == LoopTypeOK /\ UNCHANGED loopVars => LoopTypeOK'
BY DEF LoopTypeOK, loopVars

\* The attempt under way stays what it is.
SameAttempt ==
    seeder'.cid = seeder.cid /\ seeder'.issuer = seeder.issuer /\ seeder'.done = seeder.done

LEMMA GotoFields ==
    ASSUME seeder \in SeederState, NEW pc \in SeederPC, Goto(pc)
    PROVE  seeder' \in SeederState /\ seeder'.pc = pc /\ seeder'.tail = seeder.tail /\ SameAttempt
BY DEF SeederState, Goto, SameAttempt

LEMMA SweepFields ==
    ASSUME seeder \in SeederState, NEW cids \in SUBSET Cid, NEW tail \in {"loop", "end", "start"},
           SweepThen(cids, tail)
    PROVE  seeder' \in SeederState /\ seeder'.pc = "sweep" /\ seeder'.tail = tail /\ SameAttempt
BY DEF SeederState, SeederPC, SweepThen, SameAttempt

\* A step within an attempt, which goes on or ends.
LEMMA SameAttemptInv ==
    ASSUME SeederInv, Attempting, Attempting', SameAttempt, seeder' \in SeederState,
           Fetching' => Fetching,
           seeder'.pc \in {"ban", "intent", "insert"} => seeder.cid \in Manifest,
           seeder'.pc \in {"sweep", "delete"} => seeder'.tail # "wait"
    PROVE  SeederInv'
BY DEF SeederInv, Attempting, Fetching, Resting, SameAttempt

\* seed_pass and seed_channel.
LEMMA PassInv ==
    ASSUME Inv,
           StartPass \/ VisitIssuer \/ EndPass \/ SkipListed \/ TryListed \/ EndChannel
    PROVE  Inv'
<1>1. UNCHANGED <<userVars, viewer, purger>> /\ UNCHANGED seedVars /\ UNCHANGED loopVars
  BY Zenon DEF StartPass, VisitIssuer, EndPass, SkipListed, TryListed, EndChannel
<1>2. SeedTypeOK' /\ LoopTypeOK'
  BY <1>1, SeedUnchanged, LoopUnchanged DEF Inv
<1>3. /\ seeder \in SeederState
      /\ subs \subseteq Issuer /\ catalog \in [Issuer -> SUBSET Listed]
  BY DEF Inv, SeederInv, UserTypeOK
<1>4. CASE StartPass
  <2>1. /\ seeder.pc = "start"
        /\ seeder' \in SeederState /\ seeder'.pc = "pass" /\ SameAttempt
    BY <1>3, <1>4 DEF StartPass, SeederState, SeederPC, SameAttempt
  <2>2. SeederInv'
    BY <2>1 DEF Inv, SeederInv, Attempting, Fetching, Resting, SameAttempt
  <2> QED
    BY <1>1, <1>2, <2>2, SeederFrame
<1>5. CASE VisitIssuer
  <2>1. PICK i \in seeder.issuers :
            seeder' = [seeder EXCEPT !.pc = "channel", !.issuer = i, !.cids = catalog[i],
                                     !.issuers = @ \ {i}]
    BY <1>5, Zenon DEF VisitIssuer
  <2>2. /\ i \in Issuer
        /\ seeder' \in SeederState /\ seeder'.pc = "channel" /\ seeder'.issuer = i
        /\ seeder'.done = seeder.done
    BY <1>3, <2>1 DEF SeederState, SeederPC
  <2>3. seeder.done = 0
    <3>1. seeder.pc = "pass"
      BY <1>5, Zenon DEF VisitIssuer
    <3> QED
      BY <3>1 DEF Inv, SeederInv, Resting
  <2>4. SeederInv'
    BY <2>2, <2>3 DEF SeederInv, Attempting, Fetching, Resting
  <2> QED
    BY <1>1, <1>2, <2>4, SeederFrame
<1>6. CASE EndPass
  <2>1. SeederInv'
    BY <1>6 DEF EndPass, SeederIdle, SeederInv, SeederState, SeederPC, Attempting, Fetching,
                Resting
  <2> QED
    BY <1>1, <1>2, <2>1, SeederFrame
<1>7. CASE SkipListed
  <2>1. PICK c \in seeder.cids : seeder' = [seeder EXCEPT !.cids = @ \ {c}]
    BY <1>7, Zenon DEF SkipListed
  <2>2. /\ seeder.pc = "channel"
        /\ seeder' \in SeederState /\ seeder'.pc = "channel" /\ SameAttempt
    BY <1>3, <1>7, <2>1 DEF SkipListed, SeederState, SeederPC, SameAttempt
  <2>3. SeederInv'
    BY <2>2 DEF Inv, SeederInv, Attempting, Fetching, Resting, SameAttempt
  <2> QED
    BY <1>1, <1>2, <2>3, SeederFrame
<1>8. CASE TryListed
  <2>1. PICK c \in seeder.cids : \E r \in Repl[c] :
            seeder' = [seeder EXCEPT !.pc = "room", !.cid = c, !.cids = @ \ {c},
                                     !.cand = Measured(c, r)]
    BY <1>8, Zenon DEF TryListed
  <2>2. PICK r \in Repl[c] :
            seeder' = [seeder EXCEPT !.pc = "room", !.cid = c, !.cids = @ \ {c},
                                     !.cand = Measured(c, r)]
    BY <2>1, Zenon
  <2>3. c \in Listed
    BY <1>3, Zenon DEF SeederState
  <2>4. Measured(c, r) \in Nat
    BY <2>3, ReplAssumption DEF Measured
  <2>5. Len(Blocks(c)) >= 1 /\ Len(Blocks(c)) \in Nat
    BY <2>3, BlocksType
  <2>6. /\ seeder' \in SeederState /\ seeder'.pc = "room" /\ seeder'.cid = c
        /\ seeder'.issuer = seeder.issuer /\ seeder'.done = seeder.done
    BY <1>3, <2>2, <2>3, <2>4 DEF SeederState, SeederPC
  <2>7. seeder.issuer \in Issuer /\ seeder.done = 0
    <3>1. seeder.pc = "channel"
      BY <1>8, Zenon DEF TryListed
    <3> QED
      BY <3>1 DEF Inv, SeederInv, Resting
  <2>8. SeederInv'
    BY <2>3, <2>5, <2>6, <2>7 DEF SeederInv, Attempting, Fetching, Resting
  <2> QED
    BY <1>1, <1>2, <2>8, SeederFrame
<1>9. CASE EndChannel
  <2>1. /\ seeder.pc = "channel"
        /\ seeder' \in SeederState /\ seeder'.pc = "pass" /\ seeder'.done = seeder.done
    BY <1>3, <1>9 DEF EndChannel, SeederState, SeederPC
  <2>2. SeederInv'
    BY <2>1 DEF Inv, SeederInv, Attempting, Fetching, Resting
  <2> QED
    BY <1>1, <1>2, <2>2, SeederFrame
<1> QED
  BY <1>4, <1>5, <1>6, <1>7, <1>8, <1>9

\* remove_unindexed_fetch, whoever calls it.
LEMMA AbandonInv ==
    ASSUME SeederInv, Fetching, Abandon
    PROVE  SeederInv'
<1>1. seeder \in SeederState /\ Fetched \subseteq Cid
  BY AttemptType DEF SeederInv
<1>2. CASE seeder.done = 0
  <2>1. Goto("end")
    BY <1>2 DEF Abandon
  <2>2. seeder' \in SeederState /\ seeder'.pc = "end" /\ SameAttempt
    BY <1>1, <2>1, GotoFields DEF SeederPC
  <2> QED
    BY <2>2, SameAttemptInv DEF Attempting, Fetching
<1>3. CASE seeder.done # 0
  <2>1. SweepThen(Fetched, "end")
    BY <1>3 DEF Abandon
  <2>2. /\ seeder' \in SeederState /\ seeder'.pc = "sweep" /\ seeder'.tail = "end"
        /\ SameAttempt
    BY <1>1, <2>1, SweepFields
  <2> QED
    BY <2>2, SameAttemptInv DEF Attempting, Fetching
<1> QED
  BY <1>2, <1>3

LEMMA RefuseInv ==
    ASSUME Inv, Fetching, Refuse
    PROVE  Inv'
<1>1. UNCHANGED <<userVars, viewer, purger>> /\ UNCHANGED seedVars
  BY DEF Refuse
<1>2. SeedTypeOK'
  BY <1>1, SeedUnchanged DEF Inv
<1>3. seeder.cid \in Listed
  BY DEF Inv, SeederInv, Fetching, Attempting
<1>4. LoopTypeOK'
  BY <1>3 DEF Inv, LoopTypeOK, Refuse
<1>5. SeederInv'
  BY AbandonInv DEF Inv, Refuse
<1> QED
  BY <1>1, <1>2, <1>4, <1>5, SeederFrame

\* make_room_for, but for its evictions.
LEMMA RoomInv ==
    ASSUME Inv, EnterRoom \/ RoomFound \/ MeasureCandidates \/ NoCandidate \/ PickVictim
    PROVE  Inv'
<1>1. /\ seeder \in SeederState /\ SeederInv
      /\ subs \subseteq Issuer /\ quota \in Nat /\ index \subseteq Publication
  BY QuotasAssumption DEF Inv, SeederInv, UserTypeOK, SeedTypeOK
<1>2. ASSUME UNCHANGED <<userVars, seedVars, loopVars, viewer, purger>>, SeederInv'
      PROVE  Inv'
  BY <1>2, SeedUnchanged, LoopUnchanged, SeederFrame DEF Inv
<1>3. CASE EnterRoom
  <2>1. /\ seeder.pc = "room"
        /\ seeder' \in SeederState /\ seeder'.pc = "loop" /\ SameAttempt
    BY <1>1, <1>3 DEF EnterRoom, SeederState, SeederPC, SameAttempt
  <2>2. SeederInv'
    BY <1>1, <2>1, SameAttemptInv DEF Attempting, Fetching
  <2> QED
    BY <1>2, <1>3, <2>2 DEF EnterRoom
<1>4. CASE RoomFound
  <2>1. seeder.pc = "loop" /\ Goto("ask")
    BY <1>4 DEF RoomFound
  <2>2. seeder' \in SeederState /\ seeder'.pc = "ask" /\ SameAttempt
    BY <1>1, <2>1, GotoFields DEF SeederPC
  <2>3. SeederInv'
    BY <1>1, <2>1, <2>2, SameAttemptInv DEF Attempting, Fetching
  <2> QED
    BY <1>2, <1>4, <2>3 DEF RoomFound
<1>5. CASE MeasureCandidates
  <2> DEFINE M == {p.manifest : p \in Evictable(index, pins)}
  <2>1. M \in SUBSET Manifest
    BY <1>1 DEF Evictable, Publication
  <2>2. seeder' = [seeder EXCEPT !.pc = "victim", !.measured = M] /\ seeder.pc = "loop"
    BY <1>5 DEF MeasureCandidates
  <2> HIDE DEF M
  <2>3. seeder' \in SeederState /\ seeder'.pc = "victim" /\ SameAttempt
    BY <1>1, <2>1, <2>2 DEF SeederState, SeederPC, SameAttempt
  <2>4. SeederInv'
    BY <1>1, <2>2, <2>3, SameAttemptInv DEF Attempting, Fetching
  <2> QED
    BY <1>2, <1>5, <2>4 DEF MeasureCandidates
<1>6. CASE NoCandidate
  BY <1>6, RefuseInv DEF NoCandidate, Fetching
<1>7. CASE PickVictim
  <2>1. seeder.pc = "victim"
    BY <1>7, Zenon DEF PickVictim
  <2>2. CASE Refuse
    BY <2>1, <2>2, RefuseInv DEF Fetching
  <2>3. ASSUME NEW p \in index,
               seeder' = [seeder EXCEPT !.pc = "evict", !.victim = p.manifest, !.measured = {}],
               UNCHANGED <<userVars, seedVars, loopVars, viewer, purger>>
        PROVE  Inv'
    <3>1. p.manifest \in Manifest
      BY <1>1 DEF Publication
    <3>2. seeder' \in SeederState /\ seeder'.pc = "evict" /\ SameAttempt
      BY <1>1, <2>3, <3>1 DEF SeederState, SeederPC, SameAttempt
    <3>3. SeederInv'
      BY <1>1, <2>1, <3>2, SameAttemptInv DEF Attempting, Fetching
    <3> QED
      BY <1>2, <2>3, <3>3
  <2> QED
    BY <1>7, <2>2, <2>3, Zenon DEF PickVictim
<1> QED
  BY <1>3, <1>4, <1>5, <1>6, <1>7

\* evict_publication and remove_unshared_blocks.
LEMMA EvictInv ==
    ASSUME Inv, Evict \/ Snapshot \/ Delete
    PROVE  Inv'
<1>1. /\ seeder \in SeederState /\ SeederInv
      /\ index \subseteq Publication /\ IsFiniteSet(index) /\ store \subseteq Cid
  BY DEF Inv, SeederInv, SeedTypeOK
<1>2. CASE Evict
  <2>1. /\ seeder.pc = "evict" /\ UNCHANGED <<userVars, viewer, purger>>
        /\ UNCHANGED <<pins, store, provided>> /\ UNCHANGED loopVars
    BY <1>2, Zenon DEF Evict
  <2>2. LoopTypeOK'
    BY <2>1, LoopUnchanged DEF Inv
  <2>3. CASE Goto("loop") /\ UNCHANGED index
    <3>1. seeder' \in SeederState /\ seeder'.pc = "loop" /\ SameAttempt
      BY <1>1, <2>3, GotoFields DEF SeederPC
    <3>2. SeederInv'
      BY <1>1, <2>1, <3>1, SameAttemptInv DEF Attempting, Fetching
    <3>3. SeedTypeOK'
      BY <2>1, <2>3, SeedUnchanged DEF Inv, seedVars
    <3> QED
      BY <2>1, <2>2, <3>2, <3>3, SeederFrame
  <2>4. ASSUME NEW p \in EntriesOf(index, seeder.victim),
               index' = Remove(index, {p}), SweepThen(BlockSet(p.manifest), "loop")
        PROVE  Inv'
    <3>1. BlockSet(p.manifest) \subseteq Cid
      BY <1>1, BlocksType DEF EntriesOf, Publication, Listed
    <3>2. seeder' \in SeederState /\ seeder'.pc = "sweep" /\ seeder'.tail = "loop" /\ SameAttempt
      BY <1>1, <2>4, <3>1, SweepFields
    <3>3. SeederInv'
      BY <1>1, <2>1, <3>2, SameAttemptInv DEF Attempting, Fetching
    <3>4. SeedTypeOK'
      BY <1>1, <2>1, <2>4, RemoveType DEF Inv, SeedTypeOK
    <3> QED
      BY <2>1, <2>2, <3>3, <3>4, SeederFrame
  <2> QED
    BY <1>2, <2>3, <2>4, Zenon DEF Evict
<1>3. CASE Snapshot
  <2>1. AllCids(index) \subseteq Cid
    BY <1>1, AllCidsType
  <2>2. /\ seeder.pc = "sweep" /\ seeder' \in SeederState /\ seeder'.pc = "delete"
        /\ seeder'.tail = seeder.tail /\ SameAttempt
    BY <1>1, <1>3, <2>1 DEF Snapshot, SeederState, SeederPC, SameAttempt
  <2>3. SeederInv'
    BY <1>1, <2>2 DEF SeederInv, SameAttempt, Attempting, Fetching, Resting
  <2> QED
    BY <1>3, <2>3, SeedUnchanged, LoopUnchanged, SeederFrame DEF Snapshot, Inv
<1>4. CASE Delete
  <2>1. /\ seeder.pc = "delete" /\ seeder.tail \in {"loop", "end", "start"}
        /\ seeder' \in SeederState /\ seeder'.pc = seeder.tail /\ SameAttempt
    BY <1>1, <1>4 DEF Delete, SeederInv, SeederState, SeederPC, SameAttempt
  <2>2. SeederInv'
    BY <1>1, <2>1 DEF SeederInv, SameAttempt, Attempting, Fetching, Resting
  <2>3. SeedTypeOK'
    BY <1>4 DEF Delete, Inv, SeedTypeOK
  <2> QED
    BY <1>4, <2>2, <2>3, LoopUnchanged, SeederFrame DEF Delete, Inv
<1> QED
  BY <1>2, <1>3, <1>4

\* The part of get_with_inner that both of its ends share.
LEMMA ReceiveInv ==
    ASSUME SeederInv, Fetching, Receive
    PROVE  SeederInv'
<1>1. /\ seeder \in SeederState /\ seeder.cid \in Listed /\ seeder.issuer \in Issuer
      /\ seeder.done + 1 \in 1 .. Len(Blocks(seeder.cid))
  BY AttemptType DEF SeederInv, Fetching, Attempting
<1>2. seeder.done \in Nat /\ Len(Blocks(seeder.cid)) \in Nat
  BY <1>1, BlocksType DEF SeederState
<1> DEFINE pc == IF seeder.cid \in Bare THEN "end"
                 ELSE IF seeder.done + 1 = Len(Blocks(seeder.cid)) THEN "ban" ELSE "room"
<1>3. seeder' = [seeder EXCEPT !.done = seeder.done + 1, !.pc = pc]
  BY DEF Receive
<1>4. /\ pc = "room" => seeder.done + 1 < Len(Blocks(seeder.cid))
      /\ pc = "ban" => seeder.cid \in Manifest
      /\ pc \in SeederPC /\ pc \in {"end", "ban", "room"}
  BY <1>1, <1>2 DEF Listed, SeederPC
<1> DEFINE next == seeder.done + 1
<1>6. next \in Nat
  BY <1>2
<1>7. seeder' = [seeder EXCEPT !.done = next, !.pc = pc]
  BY <1>3
<1> HIDE DEF pc, next
<1>5. /\ seeder' \in SeederState /\ seeder'.pc = pc /\ seeder'.done = next
      /\ seeder'.cid = seeder.cid /\ seeder'.issuer = seeder.issuer
  BY <1>1, <1>4, <1>6, <1>7 DEF SeederState
<1> QED
  BY <1>1, <1>4, <1>5 DEF next, SeederInv, Attempting, Fetching, Resting

LEMMA FetchInv ==
    ASSUME Inv, AskModeration \/ AskStore \/ Download \/ NotFound
    PROVE  Inv'
<1>1. seeder \in SeederState /\ SeederInv /\ seeder.pc \in {"ask", "net"}
  BY DEF Inv, SeederInv, AskModeration, AskStore, Download, NotFound
<1>2. Attempting /\ Fetching
  BY <1>1 DEF Attempting, Fetching
<1>3. CASE AskModeration \/ NotFound
  <2>1. SeederInv'
    BY <1>1, <1>2, <1>3, AbandonInv DEF AskModeration, NotFound
  <2> QED
    BY <1>3, <2>1, SeedUnchanged, LoopUnchanged, SeederFrame DEF AskModeration, NotFound, Inv
<1>4. CASE AskStore
  <2>1. CASE Receive
    BY <1>1, <1>2, <1>4, <2>1, ReceiveInv, SeedUnchanged, LoopUnchanged, SeederFrame
       DEF AskStore, Inv
  <2>2. CASE Goto("net")
    <3>1. seeder' \in SeederState /\ seeder'.pc = "net" /\ SameAttempt
      BY <1>1, <2>2, GotoFields DEF SeederPC
    <3>2. SeederInv'
      BY <1>1, <1>2, <3>1, SameAttemptInv DEF Attempting, Fetching
    <3> QED
      BY <1>4, <3>2, SeedUnchanged, LoopUnchanged, SeederFrame DEF AskStore, Inv
  <2> QED
    BY <1>4, <2>1, <2>2 DEF AskStore
<1>5. CASE Download
  <2>1. SeederInv'
    BY <1>1, <1>2, <1>5, ReceiveInv DEF Download
  <2>2. Needed \in Cid
    BY <1>1, <1>2, AttemptType
  <2>3. SeedTypeOK'
    BY <1>5, <2>2 DEF Download, Inv, SeedTypeOK
  <2> QED
    BY <1>5, <2>1, <2>3, LoopUnchanged, SeederFrame DEF Download, Inv
<1> QED
  BY <1>3, <1>4, <1>5

\* The commit, and what an attempt leaves behind.
LEMMA CommitInv ==
    ASSUME Inv, ReadBan \/ ReadIntent \/ Commit \/ EndListed \/ EndNamed
    PROVE  Inv'
<1>1. /\ seeder \in SeederState /\ SeederInv /\ Fetched \in SUBSET Cid
      /\ index \subseteq Publication /\ IsFiniteSet(index)
  BY AttemptType DEF Inv, SeederInv, SeedTypeOK
<1>2. seeder.pc \in {"ban", "intent", "insert", "end"} =>
         Attempting /\ seeder.cid \in Listed /\ seeder.issuer \in Issuer
  BY <1>1 DEF SeederInv, Attempting
<1>3. CASE ReadBan
  <2> DEFINE barred == seeder.issuer \in BannedKeys
  <2>3. seeder.pc = "ban" /\ seeder' = [seeder EXCEPT !.pc = "intent", !.barred = barred]
    BY <1>3 DEF ReadBan
  <2>4. barred \in BOOLEAN
    OBVIOUS
  <2> HIDE DEF barred
  <2>5. seeder' \in SeederState /\ seeder'.pc = "intent" /\ SameAttempt
    BY <1>1, <2>3, <2>4 DEF SeederState, SeederPC, SameAttempt
  <2>1. /\ seeder.pc = "ban" /\ seeder.cid \in Manifest
        /\ seeder' \in SeederState /\ seeder'.pc = "intent" /\ SameAttempt
    BY <1>1, <2>3, <2>5 DEF SeederInv
  <2>2. SeederInv'
    BY <1>1, <1>2, <2>1, SameAttemptInv DEF Attempting, Fetching
  <2> QED
    BY <1>3, <2>2, SeedUnchanged, LoopUnchanged, SeederFrame DEF ReadBan, Inv
<1>4. CASE ReadIntent
  <2>1. seeder.pc = "intent" /\ seeder.cid \in Manifest
    BY <1>1, <1>4 DEF ReadIntent, SeederInv
  <2>2. ASSUME Goto("insert") PROVE SeederInv'
    <3>1. seeder' \in SeederState /\ seeder'.pc = "insert" /\ SameAttempt
      BY <1>1, <2>2, GotoFields DEF SeederPC
    <3> QED
      BY <1>1, <1>2, <2>1, <3>1, SameAttemptInv DEF Attempting, Fetching
  <2>3. ASSUME SweepThen(Fetched, "end") PROVE SeederInv'
    <3>1. seeder' \in SeederState /\ seeder'.pc = "sweep" /\ seeder'.tail = "end" /\ SameAttempt
      BY <1>1, <2>3, SweepFields
    <3> QED
      BY <1>1, <1>2, <2>1, <3>1, SameAttemptInv DEF Attempting, Fetching
  <2>4. SeederInv'
    BY <1>4, <2>2, <2>3 DEF ReadIntent
  <2> QED
    BY <1>4, <2>4, SeedUnchanged, LoopUnchanged, SeederFrame DEF ReadIntent, Inv
<1>5. CASE Commit
  <2>1. seeder.pc = "insert" /\ seeder.cid \in Manifest
    BY <1>1, <1>5 DEF Commit, SeederInv
  <2>2. seeder' \in SeederState /\ seeder'.pc = "end" /\ SameAttempt
    BY <1>1, <1>5, GotoFields DEF Commit, SeederPC
  <2>3. SeederInv'
    BY <1>1, <1>2, <2>1, <2>2, SameAttemptInv DEF Attempting, Fetching
  <2>4. index' \subseteq Publication /\ IsFiniteSet(index')
    BY <1>1, <1>2, <1>5, <2>1, InsertType DEF Commit
  <2>5. SeedTypeOK'
    BY <1>5, <2>4 DEF Commit, Inv, SeedTypeOK
  <2> QED
    BY <1>5, <2>3, <2>5, LoopUnchanged, SeederFrame DEF Commit, Inv
<1>6. CASE EndListed
  <2>1. /\ seeder.pc = "end"
        /\ seeder' = [SeederIdle EXCEPT !.pc = "channel", !.issuer = seeder.issuer,
                                        !.issuers = seeder.issuers, !.cids = seeder.cids]
    BY <1>6 DEF EndListed
  <2>2. /\ seeder' \in SeederState /\ seeder'.pc = "channel" /\ seeder'.done = 0
        /\ seeder'.issuer \in Issuer
    BY <1>1, <1>2, <2>1 DEF SeederIdle, SeederState, SeederPC
  <2>3. SeederInv'
    BY <2>2 DEF SeederInv, Attempting, Fetching, Resting
  <2> QED
    BY <1>6, <2>3, SeedUnchanged, LoopUnchanged, SeederFrame DEF EndListed, Inv
<1>7. CASE EndNamed
  <2>1. seeder.pc = "end"
    BY <1>7 DEF EndNamed
  <2>2. {seeder.cid} \cup seeder.captured \in SUBSET Cid
    BY <1>1, <1>2, <2>1 DEF SeederState, Listed, Cid
  <2>3. ASSUME seeder' = [SeederIdle EXCEPT !.pc = "start"]
        PROVE  SeederInv'
    BY <2>3 DEF SeederInv, SeederIdle, SeederState, SeederPC, Attempting, Fetching, Resting
  <2>4. ASSUME seeder' = [SeederIdle EXCEPT !.pc = "sweep", !.tail = "start",
                                            !.sweep = {seeder.cid} \cup seeder.captured]
        PROVE  SeederInv'
    <3>1. /\ seeder' \in SeederState /\ seeder'.pc = "sweep" /\ seeder'.tail = "start"
          /\ seeder'.done = 0
      BY <2>2, <2>4 DEF SeederIdle, SeederState, SeederPC
    <3> QED
      BY <3>1 DEF SeederInv, Attempting, Fetching, Resting
  <2>5. SeederInv'
    BY <1>7, <2>3, <2>4 DEF EndNamed
  <2> QED
    BY <1>7, <2>5, SeedUnchanged, LoopUnchanged, SeederFrame DEF EndNamed, Inv
<1> QED
  BY <1>3, <1>4, <1>5, <1>6, <1>7

\* The select! of seed_loop.
LEMMA SelectInv ==
    ASSUME Inv, Tick \/ Wake \/ TakeNamed
    PROVE  Inv'
<1>1. seeder \in SeederState /\ SeederInv /\ seeder.pc = "wait" /\ seeder.done = 0
  <2>1. seeder.pc = "wait"
    BY Zenon DEF Tick, Wake, TakeNamed
  <2> QED
    BY <2>1 DEF Inv, SeederInv, Resting
<1>2. ASSUME Goto("start") PROVE SeederInv'
  <2>1. seeder' \in SeederState /\ seeder'.pc = "start" /\ SameAttempt
    BY <1>1, <1>2, GotoFields DEF SeederPC
  <2> QED
    BY <1>1, <2>1 DEF SeederInv, SameAttempt, Attempting, Fetching, Resting
<1>3. CASE Tick
  BY <1>2, <1>3, SeedUnchanged, LoopUnchanged, SeederFrame DEF Tick, Inv
<1>4. CASE Wake
  <2>1. LoopTypeOK'
    BY <1>4 DEF Wake, Inv, LoopTypeOK
  <2> QED
    BY <1>2, <1>4, <2>1, SeedUnchanged, SeederFrame DEF Wake, Inv
<1>5. CASE TakeNamed
  <2> DEFINE i == Head(seedNow)[1]
             m == Head(seedNow)[2]
             captured == IF m \in store THEN Range(Segments[m]) ELSE {}
  <2>1. PICK r \in Repl[m] :
            seeder' = [SeederIdle EXCEPT !.pc = "room", !.issuer = i, !.cid = m,
                             !.watched = TRUE, !.cand = Measured(m, r), !.captured = captured]
    BY <1>5, Zenon DEF TakeNamed
  <2>2. /\ seedNow # <<>> /\ seedNow' = Tail(seedNow) /\ UNCHANGED <<quotaBlocked, wake>>
        /\ UNCHANGED <<userVars, viewer, purger>> /\ UNCHANGED seedVars
    BY <1>5, Zenon DEF TakeNamed
  <2>3. Head(seedNow) \in Issuer \X Manifest /\ seedNow' \in Seq(Issuer \X Manifest)
    BY <2>2, QueueType DEF Inv, LoopTypeOK
  <2>4. i \in Issuer /\ m \in Manifest
    BY <2>3
  <2>5. captured \in SUBSET Cid
    <3>1. Segments[m] \in Seq(Segment)
      BY <2>4, SegmentsAssumption
    <3>2. \A k \in DOMAIN Segments[m] : Segments[m][k] \in Segment
      BY <3>1
    <3> HIDE DEF i, m
    <3> QED
      BY <3>2 DEF Range, Cid
  <2>6. Measured(m, r) \in Nat
    BY <2>4, ReplAssumption DEF Measured, Listed
  <2> HIDE DEF i, m, captured
  <2>7. Len(Blocks(m)) >= 1 /\ Len(Blocks(m)) \in Nat
    BY <2>4, BlocksType DEF Listed
  <2>8. /\ seeder' \in SeederState /\ seeder'.pc = "room" /\ seeder'.issuer = i
        /\ seeder'.cid = m /\ seeder'.done = 0
    BY <2>1, <2>4, <2>5, <2>6 DEF SeederIdle, SeederState, SeederPC, Listed
  <2>9. SeederInv'
    BY <2>4, <2>7, <2>8 DEF SeederInv, Attempting, Fetching, Resting, Listed
  <2>10. LoopTypeOK'
    BY <2>2, <2>3 DEF Inv, LoopTypeOK
  <2> QED
    BY <2>2, <2>9, <2>10, SeedUnchanged, SeederFrame DEF Inv
<1> QED
  BY <1>3, <1>4, <1>5

LEMMA SeederStepInv == Inv /\ SeederStep => Inv'
BY PassInv, RoomInv, EvictInv, FetchInv, CommitInv, SelectInv DEF SeederStep

-----------------------------------------------------------------------------
(* The purges keep Inv *)

LEMMA PurgerFrame ==
    ASSUME Inv, UNCHANGED <<seeder, viewer>>,
           UserTypeOK', SeedTypeOK', LoopTypeOK', PurgerInv'
    PROVE  Inv'
BY DEF Inv, SeederInv, Attempting, Fetching, Resting, ViewerInv

LEMMA UserUnchanged == UserTypeOK /\ UNCHANGED userVars => UserTypeOK'
BY DEF UserTypeOK, userVars

\* What a purging task may become.
PurgerOK(t) ==
    /\ t \in PurgerState
    /\ t.pc = "subs" => t.issuer \in Issuer
    /\ t.pc # "idle" => t.kind # "none"
    /\ t.pc \in {"subs", "select", "next"} => t.kind # "unsubscribe"

\* A task that changes its own record only.
LEMMA OnePurger ==
    ASSUME PurgerInv, NEW u \in Purger, NEW t, PurgerOK(t), purger' = [purger EXCEPT ![u] = t]
    PROVE  PurgerInv'
BY DEF PurgerInv, PurgerOK

LEMMA PurgerIdleOK == PurgerOK(PurgerIdle)
BY DEF PurgerOK, PurgerIdle, PurgerState, PurgerPC

\* Operations of the user, and events, that are over in one step.
LEMMA ShortStepInv ==
    ASSUME Inv, UNCHANGED taskVars, UserTypeOK', SeedTypeOK', LoopTypeOK'
    PROVE  Inv'
BY PurgerFrame DEF Inv, PurgerInv, taskVars

LEMMA UserStepInv ==
    ASSUME Inv,
           \/ \E i \in Issuer : SubscribeCheck(i) \/ SubscribeRecord(i) \/ Unblock(i)
           \/ \E i \in Issuer : FeedStep(i) \/ \E f \in Feeds[i] : FeedChecked(i, f)
           \/ \E q \in Quotas : SetQuota(q)
           \/ \E m \in Manifest : Pin(m) \/ Unpin(m)
           \/ \E l \in Lists : LiftList(l)
    PROVE  Inv'
<1>1. UserTypeOK /\ SeedTypeOK /\ LoopTypeOK
  BY DEF Inv
<1>2. ASSUME NEW op, Occurs(op) PROVE ops' \in 0 .. MaxOps
  BY <1>1, <1>2, QuotasAssumption DEF Occurs, UserTypeOK
<1>3. ASSUME NEW i \in Issuer, SubscribeCheck(i) \/ SubscribeRecord(i) \/ Unblock(i)
      PROVE  Inv'
  <2>1. UserTypeOK'
    BY <1>1, <1>2, <1>3 DEF SubscribeCheck, SubscribeRecord, Unblock, UserTypeOK
  <2> QED
    BY <1>1, <1>3, <2>1, SeedUnchanged, LoopUnchanged, ShortStepInv
       DEF SubscribeCheck, SubscribeRecord, Unblock
<1>4. ASSUME NEW i \in Issuer, NEW f \in Feeds[i],
             FeedChecked(i, f) \/ FeedApplied(i, f) \/ FeedDropped(i, f)
      PROVE  Inv'
  <2>1. f \in SUBSET Listed
    BY FeedsAssumption
  <2>2. catalog' \in [Issuer -> SUBSET Listed] /\ hearing' \subseteq Issuer \X SUBSET Listed
    BY <1>1, <1>4, <2>1 DEF FeedChecked, FeedApplied, FeedDropped, UserTypeOK
  <2>3. UserTypeOK'
    BY <1>1, <1>2, <1>4, <2>2 DEF FeedChecked, FeedApplied, FeedDropped, UserTypeOK
  <2>4. LoopTypeOK'
    BY <1>1, <1>4 DEF FeedChecked, FeedApplied, FeedDropped, LoopTypeOK, loopVars
  <2> QED
    BY <1>1, <1>4, <2>3, <2>4, SeedUnchanged, ShortStepInv DEF FeedChecked, FeedApplied, FeedDropped
<1>5. ASSUME NEW q \in Quotas, SetQuota(q)
      PROVE  Inv'
  <2>1. UserTypeOK' /\ LoopTypeOK'
    BY <1>1, <1>2, <1>5 DEF SetQuota, UserTypeOK, LoopTypeOK
  <2> QED
    BY <1>1, <1>5, <2>1, SeedUnchanged, ShortStepInv DEF SetQuota
<1>6. ASSUME NEW m \in Manifest, Pin(m) \/ Unpin(m)
      PROVE  Inv'
  <2>1. UserTypeOK' /\ SeedTypeOK'
    BY <1>1, <1>2, <1>6 DEF Pin, Unpin, UserTypeOK, SeedTypeOK
  <2> QED
    BY <1>1, <1>6, <2>1, LoopUnchanged, ShortStepInv DEF Pin, Unpin
<1>7. ASSUME NEW l \in Lists, LiftList(l)
      PROVE  Inv'
  <2>1. UserTypeOK'
    BY <1>1, <1>2, <1>7 DEF LiftList, UserTypeOK
  <2> QED
    BY <1>1, <1>7, <2>1, SeedUnchanged, LoopUnchanged, ShortStepInv DEF LiftList
<1> QED
  BY <1>3, <1>4, <1>5, <1>6, <1>7 DEF FeedStep

\* The beginnings of the calls of several steps.
LEMMA PurgerStartInv ==
    ASSUME Inv, NEW u \in Purger,
           \/ \E i \in Issuer : Unsubscribe(u, i) \/ BlockChannel(u, i)
           \/ \E l \in Lists : ApplyList(u, l)
    PROVE  Inv'
<1>1. UserTypeOK /\ SeedTypeOK /\ LoopTypeOK /\ PurgerInv
  BY DEF Inv
<1>2. ASSUME NEW op, Occurs(op) PROVE ops' \in 0 .. MaxOps
  BY <1>1, <1>2, QuotasAssumption DEF Occurs, UserTypeOK
<1>3. ASSUME NEW i \in Issuer, Unsubscribe(u, i) PROVE Inv'
  <2> DEFINE t == [PurgerIdle EXCEPT !.pc = "index", !.kind = "unsubscribe", !.issuer = i]
  <2>1. PurgerOK(t)
    BY DEF PurgerOK, PurgerIdle, PurgerState, PurgerPC
  <2>2. purger' = [purger EXCEPT ![u] = t]
    BY <1>3 DEF Unsubscribe
  <2> HIDE DEF t
  <2>3. PurgerInv'
    BY <1>1, <2>1, <2>2, OnePurger
  <2>4. UserTypeOK'
    BY <1>1, <1>2, <1>3 DEF Unsubscribe, UserTypeOK
  <2> QED
    BY <1>1, <1>3, <2>3, <2>4, SeedUnchanged, LoopUnchanged, PurgerFrame DEF Unsubscribe
<1>4. ASSUME NEW i \in Issuer, BlockChannel(u, i) PROVE Inv'
  <2> DEFINE t == [PurgerIdle EXCEPT !.pc = "subs", !.kind = "block", !.issuer = i]
  <2>1. PurgerOK(t)
    BY DEF PurgerOK, PurgerIdle, PurgerState, PurgerPC
  <2>2. purger' = [purger EXCEPT ![u] = t]
    BY <1>4 DEF BlockChannel
  <2> HIDE DEF t
  <2>3. PurgerInv'
    BY <1>1, <2>1, <2>2, OnePurger
  <2>4. UserTypeOK'
    BY <1>1, <1>2, <1>4 DEF BlockChannel, UserTypeOK
  <2> QED
    BY <1>1, <1>4, <2>3, <2>4, SeedUnchanged, LoopUnchanged, PurgerFrame DEF BlockChannel
<1>5. ASSUME NEW l \in Lists, ApplyList(u, l) PROVE Inv'
  <2> DEFINE t == [PurgerIdle EXCEPT !.pc = "select", !.kind = "denylist"]
  <2>1. PurgerOK(t)
    BY DEF PurgerOK, PurgerIdle, PurgerState, PurgerPC
  <2>2. purger' = [purger EXCEPT ![u] = t]
    BY <1>5 DEF ApplyList
  <2> HIDE DEF t
  <2>3. PurgerInv'
    BY <1>1, <2>1, <2>2, OnePurger
  <2>4. UserTypeOK'
    BY <1>1, <1>2, <1>5 DEF ApplyList, UserTypeOK
  <2> QED
    BY <1>1, <1>5, <2>3, <2>4, SeedUnchanged, LoopUnchanged, PurgerFrame DEF ApplyList
<1> QED
  BY <1>3, <1>4, <1>5

\* One more step of a purge under way.
LEMMA PurgerStepInv ==
    ASSUME Inv, NEW u \in Purger, PurgerStep(u)
    PROVE  Inv'
<1>1. /\ UserTypeOK /\ SeedTypeOK /\ LoopTypeOK /\ PurgerInv
      /\ purger[u] \in PurgerState
      /\ purger \in [Purger -> PurgerState]
  BY DEF Inv, PurgerInv
<1>2. /\ index \subseteq Publication /\ IsFiniteSet(index) /\ store \subseteq Cid
      /\ catalog \in [Issuer -> SUBSET Listed]
      /\ AllCids(index) \in SUBSET Cid
  BY <1>1, AllCidsType DEF SeedTypeOK, UserTypeOK
<1>14. purger[u].kind # "none"
  <2>1. purger[u].pc # "idle"
    BY Zenon DEF PurgerStep, BlockSubs, SelectBlocked, PurgeCatalog, PurgeIndex, ReadRemaining,
                 StopProviding, PurgerSnapshot, PurgerDelete, PurgedEntries, PurgeCids,
                 WithdrawCids
  <2> QED
    BY <2>1, <1>1 DEF PurgerInv
<1>15. purger[u].pc \in {"subs", "select", "next"} => purger[u].kind # "unsubscribe"
  BY <1>1 DEF PurgerInv
<1>3. CASE BlockSubs(u)
  <2> DEFINE i == purger[u].issuer
             E == {[issuer |-> i, cids |-> catalog[i]]}
             t == [purger[u] EXCEPT !.pc = "next", !.entries = E]
  <2>1. i \in Issuer
    BY <1>1, <1>3 DEF BlockSubs, PurgerInv
  <2>2. E \in SUBSET CatalogEntry
    BY <1>2, <2>1 DEF CatalogEntry
  <2>3. purger' = [purger EXCEPT ![u] = t]
    BY <1>1, <1>3 DEF BlockSubs
  <2> HIDE DEF i, E
  <2>4. PurgerOK(t)
    BY <1>1, <1>3, <1>14, <1>15, <2>2 DEF BlockSubs, PurgerOK, PurgerState, PurgerPC
  <2> HIDE DEF t
  <2>5. PurgerInv'
    BY <1>1, <2>3, <2>4, OnePurger
  <2>6. UserTypeOK'
    BY <1>1, <1>3 DEF BlockSubs, UserTypeOK
  <2> QED
    BY <1>1, <1>3, <2>5, <2>6, SeedUnchanged, LoopUnchanged, PurgerFrame DEF BlockSubs
<1>4. CASE SelectBlocked(u)
  <2> DEFINE banned == {i \in Issuer : catalog[i] # {} /\ KeyBlocked(i)}
             E == {[issuer |-> i, cids |-> catalog[i]] : i \in banned}
             pc == IF banned = {} THEN "cids" ELSE "next"
             t == [purger[u] EXCEPT !.pc = pc, !.entries = E]
  <2>1. E \in SUBSET CatalogEntry
    BY <1>2 DEF CatalogEntry
  <2>2. pc \in {"cids", "next"}
    OBVIOUS
  <2>3. purger' = [purger EXCEPT ![u] = t]
    BY <1>1, <1>4 DEF SelectBlocked
  <2> HIDE DEF banned, E, pc
  <2>4. PurgerOK(t)
    <3>1. purger[u].kind # "unsubscribe"
      BY <1>4, <1>15 DEF SelectBlocked
    <3> QED
      BY <1>1, <1>14, <2>1, <2>2, <3>1 DEF PurgerOK, PurgerState, PurgerPC
  <2> HIDE DEF t
  <2>5. PurgerInv'
    BY <1>1, <2>3, <2>4, OnePurger
  <2> QED
    BY <1>1, <1>4, <2>5, UserUnchanged, SeedUnchanged, LoopUnchanged, PurgerFrame
       DEF SelectBlocked
<1>5. CASE PurgeCatalog(u)
  <2>1. PICK e \in purger[u].entries :
            /\ catalog' = [catalog EXCEPT ![e.issuer] = {}]
            /\ purger' = [purger EXCEPT ![u].pc = "index", ![u].issuer = e.issuer,
                                        ![u].cids = e.cids, ![u].entries = @ \ {e}]
    BY <1>5, Zenon DEF PurgeCatalog
  <2> DEFINE t == [purger[u] EXCEPT !.pc = "index", !.issuer = e.issuer, !.cids = e.cids,
                                    !.entries = @ \ {e}]
  <2>2. e.issuer \in Issuer /\ e.cids \in SUBSET Listed
    BY <1>1, <2>1 DEF PurgerState, CatalogEntry
  <2>3. PurgerOK(t)
    BY <1>1, <1>14, <2>2 DEF PurgerOK, PurgerState, PurgerPC
  <2>4. purger' = [purger EXCEPT ![u] = t]
    BY <1>1, <2>1
  <2> HIDE DEF t
  <2>5. PurgerInv'
    BY <1>1, <2>3, <2>4, OnePurger
  <2>6. catalog' \in [Issuer -> SUBSET Listed]
    BY <1>2, <2>1, <2>2
  <2>7. /\ UNCHANGED <<subs, joining, hearing, blocked, lists, quota, ops>>
        /\ UNCHANGED seedVars /\ UNCHANGED loopVars /\ UNCHANGED <<seeder, viewer>>
    BY <1>5, Zenon DEF PurgeCatalog
  <2>8. UserTypeOK'
    BY <1>1, <2>6, <2>7 DEF UserTypeOK
  <2> QED
    BY <1>1, <2>5, <2>7, <2>8, SeedUnchanged, LoopUnchanged, PurgerFrame
<1>6. CASE PurgeIndex(u)
  <2> DEFINE gone == Purged(index, pins, purger[u].issuer, KeepPinned(purger[u].kind))
             blocks == (UNION {BlockSet(p.manifest) : p \in gone}) \cup purger[u].cids
             pc == IF purger[u].kind = "unsubscribe" THEN "sweep" ELSE "remaining"
             t == [purger[u] EXCEPT !.sweep = blocks, !.cids = {}, !.pc = pc]
  <2>1. /\ index' = Remove(index, gone)
        /\ UNCHANGED userVars /\ UNCHANGED <<pins, store, provided, quotaBlocked, seedNow>>
        /\ UNCHANGED <<seeder, viewer>>
        /\ wake' \in {wake, TRUE}
        /\ \/ purger' = [purger EXCEPT ![u] = PurgerIdle]
           \/ purger' = [purger EXCEPT ![u] = t]
    BY <1>1, <1>6 DEF PurgeIndex
  <2>2. blocks \in SUBSET Cid
    <3>1. purger[u].cids \subseteq Cid
      BY <1>1 DEF PurgerState, Listed, Cid
    <3>2. \A p \in gone : BlockSet(p.manifest) \subseteq Cid
      BY <1>2, BlocksType DEF Purged, Publication, Listed
    <3> HIDE DEF gone
    <3>3. ASSUME NEW c \in blocks PROVE c \in Cid
      <4>1. c \in purger[u].cids \/ \E p \in gone : c \in BlockSet(p.manifest)
        OBVIOUS
      <4> QED
        BY <3>1, <3>2, <4>1
    <3> QED
      BY <3>3
  <2>3. pc \in {"sweep", "remaining"}
    OBVIOUS
  <2> HIDE DEF gone, blocks, pc
  <2>4. PurgerOK(t)
    BY <1>1, <1>14, <2>2, <2>3 DEF PurgerOK, PurgerState, PurgerPC
  <2>5. PurgerOK(PurgerIdle)
    BY PurgerIdleOK
  <2> HIDE DEF t
  <2>6. PurgerInv'
    BY <1>1, <2>1, <2>4, <2>5, OnePurger
  <2>7. SeedTypeOK'
    BY <1>1, <1>2, <2>1, RemoveType DEF SeedTypeOK
  <2>8. LoopTypeOK'
    BY <1>1, <2>1 DEF LoopTypeOK
  <2> QED
    BY <1>1, <2>1, <2>6, <2>7, <2>8, UserUnchanged, PurgerFrame
<1>7. CASE ReadRemaining(u)
  <2> DEFINE t == [purger[u] EXCEPT !.pc = "stop", !.keep = AllCids(index)]
  <2>1. PurgerOK(t)
    BY <1>1, <1>14, <1>2 DEF PurgerOK, PurgerState, PurgerPC
  <2>2. purger' = [purger EXCEPT ![u] = t]
    BY <1>1, <1>7 DEF ReadRemaining
  <2> HIDE DEF t
  <2>3. PurgerInv'
    BY <1>1, <2>1, <2>2, OnePurger
  <2> QED
    BY <1>1, <1>7, <2>3, UserUnchanged, SeedUnchanged, LoopUnchanged, PurgerFrame
       DEF ReadRemaining
<1>8. CASE StopProviding(u)
  <2> DEFINE t == [purger[u] EXCEPT !.pc = "sweep"]
  <2>1. PurgerOK(t)
    BY <1>1, <1>14 DEF PurgerOK, PurgerState, PurgerPC
  <2>2. purger' = [purger EXCEPT ![u] = t]
    BY <1>1, <1>8 DEF StopProviding, PurgerGoto
  <2> HIDE DEF t
  <2>3. PurgerInv'
    BY <1>1, <2>1, <2>2, OnePurger
  <2>4. SeedTypeOK'
    BY <1>1, <1>8 DEF StopProviding, SeedTypeOK
  <2> QED
    BY <1>1, <1>8, <2>3, <2>4, UserUnchanged, LoopUnchanged, PurgerFrame DEF StopProviding
<1>9. CASE PurgerSnapshot(u)
  <2> DEFINE t == [purger[u] EXCEPT !.pc = "delete", !.keep = AllCids(index)]
  <2>1. PurgerOK(t)
    BY <1>1, <1>14, <1>2 DEF PurgerOK, PurgerState, PurgerPC
  <2>2. purger' = [purger EXCEPT ![u] = t]
    BY <1>1, <1>9 DEF PurgerSnapshot
  <2> HIDE DEF t
  <2>3. PurgerInv'
    BY <1>1, <2>1, <2>2, OnePurger
  <2> QED
    BY <1>1, <1>9, <2>3, UserUnchanged, SeedUnchanged, LoopUnchanged, PurgerFrame
       DEF PurgerSnapshot
<1>10. CASE PurgerDelete(u)
  <2> DEFINE t == [purger[u] EXCEPT !.pc = "next", !.sweep = {}, !.keep = {}]
  <2>1. PurgerOK(PurgerIdle)
    BY PurgerIdleOK
  <2>2. ASSUME purger[u].kind # "unsubscribe" PROVE PurgerOK(t)
    BY <1>1, <1>14, <2>2 DEF PurgerOK, PurgerState, PurgerPC
  <2>3. /\ store' \subseteq store /\ UNCHANGED <<index, pins, provided>>
        /\ UNCHANGED userVars /\ UNCHANGED <<quotaBlocked, seedNow, seeder, viewer>>
        /\ wake' \in {wake, TRUE}
        /\ \/ purger' = [purger EXCEPT ![u] = PurgerIdle]
           \/ purger[u].kind # "unsubscribe" /\ purger' = [purger EXCEPT ![u] = t]
    BY <1>1, <1>10 DEF PurgerDelete
  <2> HIDE DEF t
  <2>4. PurgerInv'
    BY <1>1, <2>1, <2>2, <2>3, OnePurger
  <2>5. SeedTypeOK' /\ LoopTypeOK'
    BY <1>1, <2>3 DEF SeedTypeOK, LoopTypeOK
  <2> QED
    BY <1>1, <2>3, <2>4, <2>5, UserUnchanged, PurgerFrame
<1>11. CASE PurgedEntries(u)
  <2> DEFINE t == IF purger[u].kind = "block" THEN PurgerIdle
                  ELSE [PurgerIdle EXCEPT !.pc = "cids", !.kind = "denylist"]
  <2>1. PurgerOK(t)
    BY DEF PurgerOK, PurgerIdle, PurgerState, PurgerPC
  <2>2. purger' = [purger EXCEPT ![u] = t]
    BY <1>1, <1>11 DEF PurgedEntries
  <2> HIDE DEF t
  <2>3. PurgerInv'
    BY <1>1, <2>1, <2>2, OnePurger
  <2>4. LoopTypeOK'
    BY <1>1, <1>11 DEF PurgedEntries, LoopTypeOK
  <2> QED
    BY <1>1, <1>11, <2>3, <2>4, UserUnchanged, SeedUnchanged, PurgerFrame DEF PurgedEntries
<1>12. CASE PurgeCids(u)
  <2> DEFINE t == [purger[u] EXCEPT !.pc = "withdraw", !.sweep = store \cap BannedCids]
  <2>1. PurgerOK(t)
    BY <1>1, <1>14, <1>2 DEF PurgerOK, PurgerState, PurgerPC
  <2>2. purger' = [purger EXCEPT ![u] = t]
    BY <1>1, <1>12 DEF PurgeCids
  <2> HIDE DEF t
  <2>3. PurgerInv'
    BY <1>1, <2>1, <2>2, OnePurger
  <2>4. SeedTypeOK'
    BY <1>1, <1>12 DEF PurgeCids, SeedTypeOK
  <2> QED
    BY <1>1, <1>12, <2>3, <2>4, UserUnchanged, LoopUnchanged, PurgerFrame DEF PurgeCids
<1>13. CASE WithdrawCids(u)
  <2>1. PurgerOK(PurgerIdle)
    BY PurgerIdleOK
  <2>2. PurgerInv'
    BY <1>1, <1>13, <2>1, OnePurger DEF WithdrawCids
  <2>3. SeedTypeOK'
    BY <1>1, <1>13 DEF WithdrawCids, SeedTypeOK
  <2> QED
    BY <1>1, <1>13, <2>2, <2>3, UserUnchanged, LoopUnchanged, PurgerFrame DEF WithdrawCids
<1> QED
  BY <1>3, <1>4, <1>5, <1>6, <1>7, <1>8, <1>9, <1>10, <1>11, <1>12, <1>13 DEF PurgerStep

-----------------------------------------------------------------------------
(* The foreground tasks keep Inv *)

LEMMA ViewerFrame ==
    ASSUME Inv, UNCHANGED <<userVars, seeder, purger>>,
           SeedTypeOK', LoopTypeOK', ViewerInv'
    PROVE  Inv'
BY UserUnchanged DEF Inv, SeederInv, Attempting, Fetching, Resting, PurgerInv

\* What a foreground task may become.
ViewerOK(t) ==
    /\ t \in ViewerState
    /\ t.pc \notin {"idle", "sweep", "delete"} => t.cid \in Manifest /\ t.issuer \in Issuer
    /\ t.pc \in {"net", "landed"} => t.want \in Cid
    /\ t.kind = "ingest" => t.issuer = Self

LEMMA OneViewer ==
    ASSUME ViewerInv, NEW v \in Viewer, NEW t, ViewerOK(t), viewer' = [viewer EXCEPT ![v] = t]
    PROVE  ViewerInv'
BY DEF ViewerInv, ViewerOK

LEMMA ViewerIdleOK == ViewerOK(ViewerIdle)
BY DEF ViewerOK, ViewerIdle, ViewerState, ViewerPC

LEMMA BeginInv ==
    ASSUME Inv, NEW v \in Viewer, NEW i \in Issuer, NEW m \in Manifest,
           NEW kind \in {"hls", "stream", "watch", "ingest"}, Begin(v, kind, i, m),
           kind = "ingest" => i = Self
    PROVE  Inv'
<1> DEFINE t == [ViewerIdle EXCEPT !.pc = "fetch", !.kind = kind, !.issuer = i, !.cid = m]
<1>1. ViewerOK(t)
  BY DEF ViewerOK, ViewerIdle, ViewerState, ViewerPC
<1>2. viewer' = [viewer EXCEPT ![v] = t]
  BY Zenon DEF Begin, SetViewer
<1> HIDE DEF t
<1>3. ViewerInv'
  BY <1>1, <1>2, OneViewer DEF Inv
<1>4. UserTypeOK'
  <2>1. UNCHANGED <<subs, joining, hearing, blocked, lists, catalog, quota>> /\ Occurs(kind)
    BY Zenon DEF Begin
  <2> QED
    BY <2>1, QuotasAssumption DEF Occurs, Inv, UserTypeOK
<1>5. UNCHANGED seedVars /\ UNCHANGED loopVars /\ UNCHANGED <<seeder, purger>>
  BY Zenon DEF Begin
<1> QED
  BY <1>3, <1>4, <1>5, SeedUnchanged, LoopUnchanged
     DEF Inv, SeederInv, Attempting, Fetching, Resting, PurgerInv

LEMMA NextBlocksType ==
    ASSUME NEW v \in Viewer, viewer[v].cid \in Manifest
    PROVE  NextBlocks(v) \subseteq Cid
<1> DEFINE m == viewer[v].cid
<1>1. Segments[m] \in Seq(Segment)
  BY SegmentsAssumption
<1>2. \A k \in DOMAIN Segments[m] : Segments[m][k] \in Cid
  BY <1>1 DEF Cid
<1>3. m \in Cid
  BY DEF Cid
<1> HIDE DEF m
<1> QED
  BY <1>2, <1>3 DEF NextBlocks, m

LEMMA ViewerStepInv ==
    ASSUME Inv, NEW v \in Viewer, ViewerStep(v)
    PROVE  Inv'
<1>1. /\ SeedTypeOK /\ LoopTypeOK /\ ViewerInv
      /\ viewer \in [Viewer -> ViewerState]
      /\ ViewerOK(viewer[v])
  BY DEF Inv, ViewerInv, ViewerOK
<1>2. /\ index \subseteq Publication /\ IsFiniteSet(index) /\ store \subseteq Cid
      /\ AllCids(index) \in SUBSET Cid
  BY <1>1, AllCidsType DEF SeedTypeOK
<1>3. ASSUME NEW t, ViewerOK(t), viewer' = [viewer EXCEPT ![v] = t],
             UNCHANGED <<userVars, seeder, purger>>, SeedTypeOK', LoopTypeOK'
      PROVE  Inv'
  BY <1>1, <1>3, OneViewer, ViewerFrame
\* Another pc among those that fetch, or complete, in which nothing is asked for.
<1>4. ASSUME NEW pc \in {"fetch", "frozen", "complete", "claimed", "register"},
             viewer[v].pc \notin {"idle", "sweep", "delete"}
      PROVE  ViewerOK([viewer[v] EXCEPT !.pc = pc])
  BY <1>1, <1>4 DEF ViewerOK, ViewerState, ViewerPC
<1>5. CASE ViewRefused(v)
  <2>1. viewer[v].pc = "fetch" /\ UNCHANGED <<userVars, seeder, purger>>
    BY <1>5 DEF ViewRefused
  <2>2. SeedTypeOK' /\ LoopTypeOK'
    BY <1>1, <1>5, SeedUnchanged, LoopUnchanged DEF ViewRefused
  <2>3. \/ viewer' = [viewer EXCEPT ![v] = [viewer[v] EXCEPT !.pc = "frozen"]]
        \/ viewer' = [viewer EXCEPT ![v] = ViewerIdle]
    BY <1>1, <1>5 DEF ViewRefused, ViewerGoto, SetViewer
  <2>4. ViewerOK([viewer[v] EXCEPT !.pc = "frozen"])
    BY <1>4, <2>1
  <2> QED
    BY <1>3, <2>1, <2>2, <2>3, <2>4, ViewerIdleOK
<1>6. CASE ViewAsk(v)
  <2>1. PICK b \in NextBlocks(v) :
            viewer' = [viewer EXCEPT ![v].pc = IF b \in store THEN "landed" ELSE "net",
                                     ![v].want = b]
    BY <1>6, Zenon DEF ViewAsk
  <2>2. /\ viewer[v].pc = "fetch" /\ UNCHANGED <<userVars, seeder, purger>>
        /\ UNCHANGED seedVars /\ UNCHANGED loopVars
    BY <1>6, Zenon DEF ViewAsk
  <2>3. b \in Cid
    BY <1>1, <2>2, NextBlocksType DEF ViewerOK
  <2> DEFINE pc == IF b \in store THEN "landed" ELSE "net"
             t == [viewer[v] EXCEPT !.pc = pc, !.want = b]
  <2>4. viewer' = [viewer EXCEPT ![v] = t]
    BY <1>1, <2>1
  <2>5. pc \in {"landed", "net"}
    OBVIOUS
  <2> HIDE DEF pc
  <2>6. ViewerOK(t)
    BY <1>1, <2>2, <2>3, <2>5 DEF ViewerOK, ViewerState, ViewerPC
  <2> HIDE DEF t
  <2> QED
    BY <1>1, <1>3, <2>2, <2>4, <2>6, SeedUnchanged, LoopUnchanged
<1>7. CASE ViewDownload(v)
  <2> DEFINE t == [viewer[v] EXCEPT !.pc = "landed"]
  <2>1. viewer[v].pc = "net" /\ viewer' = [viewer EXCEPT ![v] = t]
    BY <1>1, <1>7 DEF ViewDownload, ViewerGoto
  <2>2. ViewerOK(t)
    BY <1>1, <2>1 DEF ViewerOK, ViewerState, ViewerPC
  <2> HIDE DEF t
  <2>3. SeedTypeOK'
    BY <1>1, <1>7 DEF ViewDownload, SeedTypeOK, ViewerOK
  <2> QED
    BY <1>1, <1>3, <1>7, <2>1, <2>2, <2>3, LoopUnchanged DEF ViewDownload
<1>8. CASE ViewJoin(v)
  <2> DEFINE got == viewer[v].got \cup {viewer[v].want}
             t == [viewer[v] EXCEPT !.pc = "fetch", !.got = got, !.want = NoCid]
  <2>1. viewer[v].pc = "landed" /\ viewer' = [viewer EXCEPT ![v] = t]
    BY <1>1, <1>8 DEF ViewJoin
  <2>2. got \in SUBSET Cid
    BY <1>1, <2>1 DEF ViewerOK, ViewerState
  <2> HIDE DEF got
  <2>3. ViewerOK(t)
    BY <1>1, <2>1, <2>2 DEF ViewerOK, ViewerState, ViewerPC
  <2> HIDE DEF t
  <2> QED
    BY <1>1, <1>3, <1>8, <2>1, <2>3, SeedUnchanged, LoopUnchanged DEF ViewJoin
<1>9. CASE ViewNotFound(v)
  <2> DEFINE t == [viewer[v] EXCEPT !.pc = "fetch", !.want = NoCid]
  <2>1. /\ viewer[v].pc = "net"
        /\ \/ viewer' = [viewer EXCEPT ![v] = t]
           \/ viewer' = [viewer EXCEPT ![v] = ViewerIdle]
    BY <1>1, <1>9 DEF ViewNotFound, SetViewer
  <2>2. ViewerOK(t)
    BY <1>1, <2>1 DEF ViewerOK, ViewerState, ViewerPC
  <2> HIDE DEF t
  <2> QED
    BY <1>1, <1>3, <1>9, <2>1, <2>2, ViewerIdleOK, SeedUnchanged, LoopUnchanged DEF ViewNotFound
<1>10. CASE IngestBlock(v)
  <2>1. PICK b \in NextBlocks(v) :
            /\ store' = store \cup {b}
            /\ provided' = provided \cup ({b} \cap Manifest)
            /\ viewer' = [viewer EXCEPT ![v].got = @ \cup {b}]
    BY <1>10, Zenon DEF IngestBlock
  <2>2. /\ viewer[v].pc = "fetch" /\ UNCHANGED <<userVars, index, pins, seeder, purger>>
        /\ UNCHANGED loopVars
    BY <1>10, Zenon DEF IngestBlock
  <2>3. b \in Cid
    BY <1>1, <2>2, NextBlocksType DEF ViewerOK
  <2> DEFINE got == viewer[v].got \cup {b}
             t == [viewer[v] EXCEPT !.got = got]
  <2>4. viewer' = [viewer EXCEPT ![v] = t]
    BY <1>1, <2>1
  <2>5. got \in SUBSET Cid
    BY <1>1, <2>3 DEF ViewerOK, ViewerState
  <2> HIDE DEF got
  <2>6. ViewerOK(t)
    BY <1>1, <2>2, <2>5 DEF ViewerOK, ViewerState, ViewerPC
  <2> HIDE DEF t
  <2>7. SeedTypeOK'
    BY <1>1, <2>1, <2>2, <2>3 DEF SeedTypeOK
  <2> QED
    BY <1>1, <1>3, <2>2, <2>4, <2>6, <2>7, LoopUnchanged
<1>11. CASE FinishCall(v)
  <2>1. viewer[v].pc = "fetch" /\ viewer' = [viewer EXCEPT ![v] = [viewer[v] EXCEPT !.pc = "register"]]
    BY <1>1, <1>11 DEF FinishCall, GotAll, ViewerGoto
  <2>2. ViewerOK([viewer[v] EXCEPT !.pc = "register"])
    BY <1>4, <2>1
  <2> QED
    BY <1>1, <1>3, <1>11, <2>1, <2>2, SeedUnchanged, LoopUnchanged DEF FinishCall
<1>12. CASE FinishStream(v)
  <2>1. viewer[v].pc = "fetch" /\ viewer' = [viewer EXCEPT ![v] = [viewer[v] EXCEPT !.pc = "complete"]]
    BY <1>1, <1>12 DEF FinishStream, GotAll, ViewerGoto
  <2>2. ViewerOK([viewer[v] EXCEPT !.pc = "complete"])
    BY <1>4, <2>1
  <2>3. LoopTypeOK'
    BY <1>1, <1>12 DEF FinishStream, LoopTypeOK
  <2> QED
    BY <1>1, <1>3, <1>12, <2>1, <2>2, <2>3, SeedUnchanged DEF FinishStream
<1>13. CASE FinishWatch(v)
  <2>1. /\ viewer[v].pc = "fetch"
        /\ \/ viewer' = [viewer EXCEPT ![v] = [viewer[v] EXCEPT !.pc = "claimed"]]
           \/ viewer' = [viewer EXCEPT ![v] = [viewer[v] EXCEPT !.pc = "complete"]]
    BY <1>1, <1>13 DEF FinishWatch, GotAll, ViewerGoto
  <2>2. /\ ViewerOK([viewer[v] EXCEPT !.pc = "claimed"])
        /\ ViewerOK([viewer[v] EXCEPT !.pc = "complete"])
    BY <1>4, <2>1
  <2>3. <<viewer[v].issuer, viewer[v].cid>> \in Issuer \X Manifest
    BY <1>1, <2>1 DEF ViewerOK
  <2>4. seedNow' \in Seq(Issuer \X Manifest)
    BY <1>1, <1>13, <2>3, QueueType DEF FinishWatch, LoopTypeOK
  <2>5. LoopTypeOK'
    BY <1>1, <1>13, <2>4 DEF FinishWatch, LoopTypeOK
  <2> QED
    BY <1>1, <1>3, <1>13, <2>1, <2>2, <2>5, SeedUnchanged DEF FinishWatch
<1>14. CASE RegisterDownload(v)
  <2> DEFINE m == viewer[v].cid
  <2>1. /\ m \in Manifest /\ viewer[v].issuer \in Issuer
        /\ viewer' = [viewer EXCEPT ![v] = ViewerIdle]
    BY <1>1, <1>14 DEF RegisterDownload, ViewerOK, SetViewer
  <2>2. BlockSet(m) \cap store \in SUBSET Cid
    BY <1>2
  <2>3. index' \subseteq Publication /\ IsFiniteSet(index')
    BY <1>2, <1>14, <2>1, <2>2, InsertType DEF RegisterDownload
  <2>4. SeedTypeOK'
    BY <1>1, <1>14, <2>3 DEF RegisterDownload, SeedTypeOK
  <2> QED
    BY <1>1, <1>3, <1>14, <2>1, <2>4, ViewerIdleOK, LoopUnchanged DEF RegisterDownload
<1>15. CASE RegisterOwn(v)
  <2> DEFINE m == viewer[v].cid
  <2>1. m \in Manifest /\ viewer' = [viewer EXCEPT ![v] = ViewerIdle]
    BY <1>1, <1>15 DEF RegisterOwn, ViewerOK, SetViewer
  <2>2. BlockSet(m) \in SUBSET Cid
    BY <2>1, BlocksType DEF Listed
  <2>3. index' \subseteq Publication /\ IsFiniteSet(index')
    BY <1>2, <1>15, <2>1, <2>2, InsertType, SelfAssumption DEF RegisterOwn
  <2>4. SeedTypeOK'
    BY <1>1, <1>15, <2>1, <2>3 DEF RegisterOwn, SeedTypeOK
  <2> QED
    BY <1>1, <1>3, <1>15, <2>1, <2>4, ViewerIdleOK, LoopUnchanged DEF RegisterOwn
<1>16. CASE ViewerSnapshot(v)
  <2> DEFINE t == [viewer[v] EXCEPT !.pc = "delete", !.keep = AllCids(index)]
  <2>1. viewer' = [viewer EXCEPT ![v] = t]
    BY <1>1, <1>16 DEF ViewerSnapshot
  <2>2. ViewerOK(t)
    BY <1>1, <1>2 DEF ViewerOK, ViewerState, ViewerPC
  <2> HIDE DEF t
  <2> QED
    BY <1>1, <1>3, <1>16, <2>1, <2>2, SeedUnchanged, LoopUnchanged DEF ViewerSnapshot
<1>17. CASE ViewerDelete(v)
  <2>1. SeedTypeOK'
    BY <1>1, <1>17 DEF ViewerDelete, SeedTypeOK
  <2> QED
    BY <1>1, <1>3, <1>17, <2>1, ViewerIdleOK, LoopUnchanged DEF ViewerDelete, SetViewer
<1> QED
  BY <1>5, <1>6, <1>7, <1>8, <1>9, <1>10, <1>11, <1>12, <1>13, <1>14, <1>15, <1>16, <1>17
     DEF ViewerStep

LEMMA ViewerChoiceInv ==
    ASSUME Inv, NEW v \in Viewer, ViewerChoice(v)
    PROVE  Inv'
<1>1. SeedTypeOK /\ LoopTypeOK /\ ViewerInv /\ viewer \in [Viewer -> ViewerState] /\ viewer[v] \in ViewerState
  BY DEF Inv, ViewerInv
<1>2. ASSUME NEW m \in Manifest, NEW i \in Issuer, NEW kind \in {"hls", "stream"},
             ViewSubscribed(v, kind, i, m)
      PROVE  Inv'
  BY <1>2, BeginInv DEF ViewSubscribed
<1>3. ASSUME NEW m \in Manifest, NEW i \in Issuer, WatchOther(v, i, m)
      PROVE  Inv'
  BY <1>3, BeginInv DEF WatchOther
<1>4. ASSUME NEW m \in Manifest, Ingest(v, m)
      PROVE  Inv'
  BY <1>4, BeginInv, SelfAssumption DEF Ingest
<1>5. CASE CloseSettled(v)
  <2>1. ViewerInv'
    BY <1>1, <1>5, ViewerIdleOK, OneViewer DEF CloseSettled, SetViewer
  <2> QED
    BY <1>1, <1>5, <2>1, SeedUnchanged, LoopUnchanged, ViewerFrame DEF CloseSettled
<1>6. CASE CloseWatched(v)
  <2> DEFINE t == [ViewerIdle EXCEPT !.pc = "sweep", !.kind = "watch", !.sweep = viewer[v].got]
  <2>1. ViewerOK(t)
    BY <1>1 DEF ViewerOK, ViewerIdle, ViewerState, ViewerPC
  <2>2. \/ viewer' = [viewer EXCEPT ![v] = t]
        \/ viewer' = [viewer EXCEPT ![v] = ViewerIdle]
    BY <1>6 DEF CloseWatched, SetViewer
  <2> HIDE DEF t
  <2>3. ViewerInv'
    BY <1>1, <2>1, <2>2, ViewerIdleOK, OneViewer
  <2>4. <<viewer[v].issuer, viewer[v].cid>> \in Issuer \X Manifest
    BY <1>1, <1>6 DEF CloseWatched, Open, ViewerInv
  <2>5. seedNow' \in Seq(Issuer \X Manifest)
    BY <1>1, <1>6, <2>4, QueueType DEF CloseWatched, LoopTypeOK
  <2>6. LoopTypeOK'
    BY <1>1, <1>6, <2>5 DEF CloseWatched, LoopTypeOK
  <2> QED
    BY <1>1, <1>6, <2>3, <2>6, SeedUnchanged, ViewerFrame DEF CloseWatched
<1> QED
  BY <1>2, <1>3, <1>4, <1>5, <1>6, Zenon DEF ViewerChoice

-----------------------------------------------------------------------------
(* The node keeps Inv *)

LEMMA RestartInv == Inv /\ Restart => Inv'
<1> SUFFICES ASSUME Inv, Restart PROVE Inv'
  OBVIOUS
<1>1. UserTypeOK'
  BY QuotasAssumption DEF Restart, Occurs, Inv, UserTypeOK
<1>2. SeedTypeOK'
  BY DEF Restart, Inv, SeedTypeOK
<1>3. LoopTypeOK'
  BY QueueType DEF Restart, LoopTypeOK
<1>4. SeederInv'
  BY DEF Restart, SeederInv, SeederIdle, SeederState, SeederPC, Attempting, Fetching, Resting
<1>5. ViewerInv'
  BY DEF Restart, ViewerInv, ViewerIdle, ViewerState, ViewerPC
<1>6. PurgerInv'
  BY DEF Restart, PurgerInv, PurgerIdle, PurgerState, PurgerPC
<1> QED
  BY <1>1, <1>2, <1>3, <1>4, <1>5, <1>6 DEF Inv

LEMMA ReprovideInv == Inv /\ Reprovide => Inv'
<1> SUFFICES ASSUME Inv, Reprovide PROVE Inv'
  OBVIOUS
<1>1. SeedTypeOK'
  BY DEF Reprovide, Inv, SeedTypeOK
<1> QED
  BY <1>1, UserUnchanged, LoopUnchanged, ShortStepInv DEF Reprovide, Inv

LEMMA StutterInv == Inv /\ UNCHANGED vars => Inv'
BY UserUnchanged, SeedUnchanged, LoopUnchanged, ShortStepInv DEF Inv, vars

\* Whatever the node, its user or its peers do next.
LEMMA NextInv == Inv /\ [Next]_vars => Inv'
<1> SUFFICES ASSUME Inv, Next PROVE Inv'
  BY StutterInv
<1>1. CASE TaskStep
  <2>1. CASE \E i \in Issuer : SubscribeRecord(i) \/ FeedStep(i)
    BY <2>1, UserStepInv
  <2> QED
    BY <1>1, <2>1, SeederStepInv, PurgerStepInv, ViewerStepInv DEF TaskStep
<1>2. CASE UserStep
  BY <1>2, UserStepInv, PurgerStartInv, Zenon DEF UserStep
<1>3. CASE \E v \in Viewer : ViewerChoice(v)
  BY <1>3, ViewerChoiceInv
<1>4. CASE Reprovide \/ Restart
  BY <1>4, ReprovideInv, RestartInv
<1> QED
  BY <1>1, <1>2, <1>3, <1>4 DEF Next

LEMMA InvHolds == Spec => []Inv
BY InitInv, NextInv, PTL DEF Spec

\* Every variable, and the local state of every task, has its type in every state of
\* every node: the tasks of p2p.rs and stream/mod.rs over the index of seeding.rs.
THEOREM TypeCorrect == Spec => []TypeOK
<1>1. Inv => TypeOK
  BY DEF Inv, SeederInv, ViewerInv, PurgerInv, TypeOK
<1> QED
  BY <1>1, InvHolds, PTL

-----------------------------------------------------------------------------
(* What becomes of the index *)

\* The ways in which entries come and go, at their five places in the code.  What is
\* inserted was begun for its issuer, or is own content.
Inserted ==
    \E i \in Issuer, m \in Manifest, blocks \in SUBSET Cid :
        /\ ~ContainsManifest(index, m) /\ index' = Insert(index, i, m, blocks)
        /\ Late(i) \/ i = Self

EvictedOne ==
    seeder.pc = "evict" /\ \E p \in EntriesOf(index, seeder.victim) : index' = Remove(index, {p})

PurgedSome ==
    \E u \in Purger :
        /\ purger[u].pc = "index"
        /\ index' = Remove(index, Purged(index, pins, purger[u].issuer, KeepPinned(purger[u].kind)))

LEMMA SeederLeavesIndex ==
    ASSUME SeederStep, ~Commit, ~Evict
    PROVE  UNCHANGED index
<1>1. StartPass \/ VisitIssuer \/ EndPass \/ SkipListed \/ TryListed \/ EndChannel =>
         UNCHANGED index
  BY Zenon DEF StartPass, VisitIssuer, EndPass, SkipListed, TryListed, EndChannel, seedVars
<1>2. EnterRoom \/ RoomFound \/ MeasureCandidates \/ NoCandidate \/ PickVictim =>
         UNCHANGED index
  BY Zenon DEF EnterRoom, RoomFound, MeasureCandidates, NoCandidate, PickVictim, Refuse, seedVars
<1>3. Snapshot \/ Delete \/ AskModeration \/ AskStore \/ Download \/ NotFound =>
         UNCHANGED index
  BY Zenon DEF Snapshot, Delete, AskModeration, AskStore, Download, NotFound, seedVars
<1>4. ReadBan \/ ReadIntent \/ EndListed \/ EndNamed \/ Tick \/ Wake \/ TakeNamed =>
         UNCHANGED index
  BY Zenon DEF ReadBan, ReadIntent, EndListed, EndNamed, Tick, Wake, TakeNamed, seedVars
<1> QED
  BY <1>1, <1>2, <1>3, <1>4 DEF SeederStep

LEMMA SeederIndex ==
    ASSUME Inv, SeederStep
    PROVE  UNCHANGED index \/ Inserted \/ EvictedOne
<1>1. CASE Commit
  <2>1. /\ seeder.cid \in Manifest /\ seeder.issuer \in Issuer /\ Fetched \in SUBSET Cid
    BY <1>1, AttemptType DEF Commit, Inv, SeederInv, Attempting
  <2>2. Late(seeder.issuer)
    BY <1>1, <2>1, NoneAssumption DEF Commit, Late, Cid
  <2> QED
    BY <1>1, <2>1, <2>2 DEF Commit, Inserted
<1>2. CASE Evict
  BY <1>2, Zenon DEF Evict, EvictedOne
<1> QED
  BY <1>1, <1>2, SeederLeavesIndex

LEMMA PurgerIndex ==
    ASSUME NEW u \in Purger, PurgerStep(u)
    PROVE  UNCHANGED index \/ PurgedSome
<1>1. CASE PurgeIndex(u)
  BY <1>1, Zenon DEF PurgeIndex, PurgedSome
<1>2. ASSUME ~PurgeIndex(u)
      PROVE  UNCHANGED index
  BY <1>2, Zenon DEF PurgerStep, BlockSubs, SelectBlocked, PurgeCatalog, ReadRemaining,
       StopProviding, PurgerSnapshot, PurgerDelete, PurgedEntries, PurgeCids, WithdrawCids, seedVars
<1> QED
  BY <1>1, <1>2

LEMMA ViewerIndex ==
    ASSUME Inv, NEW v \in Viewer, ViewerStep(v)
    PROVE  UNCHANGED index \/ Inserted
<1>1. /\ viewer[v].pc = "register" => viewer[v].cid \in Manifest /\ viewer[v].issuer \in Issuer
      /\ store \subseteq Cid
  BY DEF Inv, ViewerInv, SeedTypeOK
<1>2. CASE RegisterDownload(v)
  <2>1. Late(viewer[v].issuer)
    BY DEF Late
  <2> QED
    BY <1>1, <1>2, <2>1 DEF RegisterDownload, Inserted
<1>3. CASE RegisterOwn(v)
  <2>1. viewer[v].cid \in Manifest /\ BlockSet(viewer[v].cid) \in SUBSET Cid
    BY <1>1, <1>3, BlocksType DEF RegisterOwn, Listed
  <2> QED
    BY <1>3, <2>1, SelfAssumption DEF RegisterOwn, Inserted
<1>4. ASSUME ~RegisterDownload(v), ~RegisterOwn(v)
      PROVE  UNCHANGED index
  BY <1>4, Zenon DEF ViewerStep, ViewRefused, ViewAsk, ViewDownload, ViewJoin, ViewNotFound,
       IngestBlock, FinishCall, FinishStream, FinishWatch, ViewerSnapshot, ViewerDelete, seedVars
<1> QED
  BY <1>2, <1>3, <1>4

LEMMA IndexStep ==
    ASSUME Inv, [Next]_vars
    PROVE  UNCHANGED index \/ Inserted \/ EvictedOne \/ PurgedSome
<1>1. CASE TaskStep
  <2>1. CASE \E i \in Issuer : SubscribeRecord(i) \/ FeedStep(i)
    BY <2>1, Zenon DEF SubscribeRecord, FeedStep, FeedApplied, FeedDropped, seedVars
  <2> QED
    BY <1>1, <2>1, SeederIndex, PurgerIndex, ViewerIndex DEF TaskStep
<1>2. CASE UserStep
  BY <1>2, Zenon DEF UserStep, SubscribeCheck, Unblock, FeedChecked, SetQuota, Pin, Unpin, LiftList,
       Unsubscribe, BlockChannel, ApplyList, seedVars
<1>3. CASE \E v \in Viewer : ViewerChoice(v)
  BY <1>3, Zenon DEF ViewerChoice, ViewSubscribed, WatchOther, Ingest, Begin, CloseSettled,
       CloseWatched, seedVars
<1>4. CASE Reprovide \/ Restart
  BY <1>4, Zenon DEF Reprovide, Restart
<1>5. CASE UNCHANGED vars
  BY <1>5 DEF vars, seedVars
<1> QED
  BY <1>1, <1>2, <1>3, <1>4, <1>5 DEF Next

\* No manifest is indexed twice, however seed_publication, fetch_hls and ingest_file
\* race: each looks for it under the lock it inserts under.
THEOREM NeverIndexedTwice == Spec => []IndexedOnce
<1>1. Init => IndexedOnce
  BY DEF Init, IndexedOnce
<1>2. ASSUME Inv, IndexedOnce, [Next]_vars
      PROVE  IndexedOnce'
  <2>1. index \subseteq Publication /\ IsFiniteSet(index)
    BY <1>2 DEF Inv, SeedTypeOK
  <2>2. CASE UNCHANGED index
    BY <1>2, <2>2 DEF IndexedOnce
  <2>3. CASE Inserted
    <3>1. PICK i \in Issuer, m \in Manifest, blocks \in SUBSET Cid :
              ~ContainsManifest(index, m) /\ index' = Insert(index, i, m, blocks)
      BY <2>3 DEF Inserted
    <3> QED
      BY <1>2, <3>1 DEF IndexedOnce, Insert, ContainsManifest
  <2>4. ASSUME NEW gone, index' = Remove(index, gone)
        PROVE  IndexedOnce'
    BY <1>2, <2>1, <2>4, RemoveType DEF IndexedOnce
  <2> QED
    BY <1>2, <2>2, <2>3, <2>4, IndexStep DEF EvictedOne, PurgedSome
<1> QED
  BY <1>1, <1>2, InvHolds, PTL DEF Spec

\* A pin is overridden by moderation alone, or by an eviction that was decided before
\* it (purge_issuer, eviction_order and evict_publication).
THEOREM PinsAreKept == Spec => PinnedStays
<1> DEFINE Overridden(p) ==
               \/ \E u \in Purger : /\ purger[u].pc = "index" /\ purger[u].issuer = p.issuer
                                    /\ purger[u].kind \in {"block", "denylist"}
               \/ seeder.pc = "evict" /\ seeder.victim = p.manifest
           Stays == \A p \in index : p.manifest \in pins /\ IndexLoses(p) => Overridden(p)
<1>1. ASSUME Inv, [Next]_vars
      PROVE  Stays
  <2> SUFFICES ASSUME NEW p \in index, p.manifest \in pins, IndexLoses(p)
               PROVE  Overridden(p)
    OBVIOUS
  <2>1. index \subseteq Publication /\ IsFiniteSet(index)
    BY <1>1 DEF Inv, SeedTypeOK
  <2>2. ASSUME NEW gone, index' = Remove(index, gone)
        PROVE  p \in gone
    BY <2>1, <2>2, RemoveType DEF IndexLoses
  <2>3. p \notin index'
    BY DEF IndexLoses
  <2>4. CASE UNCHANGED index
    BY <2>3, <2>4
  <2>5. CASE Inserted
    BY <2>3, <2>5 DEF Inserted, Insert
  <2>6. CASE EvictedOne
    <3>1. PICK q \in EntriesOf(index, seeder.victim) : index' = Remove(index, {q})
      BY <2>6 DEF EvictedOne
    <3>2. p = q
      BY <2>2, <3>1
    <3> QED
      BY <2>6, <3>2 DEF EvictedOne, EntriesOf
  <2>7. CASE PurgedSome
    <3>1. PICK u \in Purger :
              /\ purger[u].pc = "index"
              /\ index' = Remove(index,
                              Purged(index, pins, purger[u].issuer, KeepPinned(purger[u].kind)))
      BY <2>7, Zenon DEF PurgedSome
    <3>2. p \in Purged(index, pins, purger[u].issuer, KeepPinned(purger[u].kind))
      BY <2>2, <3>1
    <3>3. p.issuer = purger[u].issuer /\ purger[u].kind # "unsubscribe"
      BY <3>2 DEF Purged, KeepPinned
    <3>4. purger[u].kind \in {"block", "denylist"}
      BY <1>1, <3>1, <3>3 DEF Inv, PurgerInv, PurgerState
    <3> QED
      BY <3>1, <3>3, <3>4
  <2> QED
    BY <1>1, <2>4, <2>5, <2>6, <2>7, IndexStep
<1>2. Inv /\ [Next]_vars => [Stays]_vars
  BY <1>1
<1> QED
  BY <1>2, InvHolds, PTL DEF Spec, PinnedStays

-----------------------------------------------------------------------------
(* What is purged stays out *)

\* Between two attempts the loop has no candidate.
AtRest == Resting => seeder.cid = NoCid /\ ~seeder.watched

SeederLate(i) ==
    /\ seeder.issuer = i
    /\ IF seeder.watched THEN seeder.pc = "insert" ELSE seeder.cid # NoCid \/ seeder.cids # {}

\* The step leaves the loop with the candidate it had, and puts a watched one through
\* to its commit only if its issuer is not blocked.
SameTarget ==
    /\ seeder'.issuer = seeder.issuer /\ seeder'.cid = seeder.cid
    /\ seeder'.watched = seeder.watched
    /\ seeder'.cids \subseteq seeder.cids
    /\ seeder'.pc = "insert" => ~seeder.watched \/ ~KeyBlocked(seeder.issuer)
    /\ Resting' => Resting

LEMMA GotoTarget ==
    ASSUME seeder \in SeederState, NEW pc \in SeederPC, Goto(pc)
    PROVE  /\ seeder'.pc = pc /\ seeder'.issuer = seeder.issuer /\ seeder'.cid = seeder.cid
           /\ seeder'.watched = seeder.watched /\ seeder'.cids = seeder.cids
           /\ seeder'.tail = seeder.tail
BY DEF SeederState, Goto

LEMMA SweepTarget ==
    ASSUME seeder \in SeederState, NEW cids, NEW tail, SweepThen(cids, tail)
    PROVE  /\ seeder'.pc = "sweep" /\ seeder'.issuer = seeder.issuer /\ seeder'.cid = seeder.cid
           /\ seeder'.watched = seeder.watched /\ seeder'.cids = seeder.cids
           /\ seeder'.tail = tail
BY DEF SeederState, SweepThen

LEMMA AbandonTarget ==
    ASSUME seeder \in SeederState, Abandon
    PROVE  SameTarget
<1>1. CASE Goto("end")
  BY <1>1, GotoTarget DEF SeederPC, SameTarget, Resting
<1>2. CASE SweepThen(Fetched, "end")
  BY <1>2, SweepTarget DEF SameTarget, Resting
<1> QED
  BY <1>1, <1>2 DEF Abandon

LEMMA ReceiveTarget ==
    ASSUME seeder \in SeederState, Receive
    PROVE  SameTarget
<1> DEFINE pc == IF seeder.cid \in Bare THEN "end"
                 ELSE IF seeder.done + 1 = Len(Blocks(seeder.cid)) THEN "ban" ELSE "room"
           next == seeder.done + 1
<1>1. seeder' = [seeder EXCEPT !.done = next, !.pc = pc]
  BY DEF Receive
<1>2. pc \in {"end", "ban", "room"}
  OBVIOUS
<1> HIDE DEF pc, next
<1> QED
  BY <1>1, <1>2 DEF SeederState, SameTarget, Resting

LEMMA WithinAttempt ==
    ASSUME seeder \in SeederState,
           \/ StartPass \/ EnterRoom \/ RoomFound \/ MeasureCandidates \/ NoCandidate
           \/ PickVictim \/ Evict \/ Snapshot \/ AskModeration \/ AskStore \/ Download
           \/ NotFound \/ ReadBan \/ ReadIntent \/ Commit \/ Tick \/ Wake \/ SkipListed
    PROVE  SameTarget
<1>1. CASE StartPass \/ SkipListed
  <2>1. CASE StartPass
    BY <2>1 DEF StartPass, SeederState, SameTarget, Resting
  <2>2. CASE SkipListed
    BY <2>2 DEF SkipListed, SeederState, SameTarget, Resting
  <2> QED
    BY <1>1, <2>1, <2>2
<1>2. CASE EnterRoom
  BY <1>2 DEF EnterRoom, SeederState, SameTarget, Resting
<1>3. CASE RoomFound
  BY <1>3, GotoTarget DEF RoomFound, SeederPC, SameTarget, Resting
<1>4. CASE MeasureCandidates
  <2> DEFINE M == {p.manifest : p \in Evictable(index, pins)}
  <2>1. seeder' = [seeder EXCEPT !.pc = "victim", !.measured = M]
    BY <1>4 DEF MeasureCandidates
  <2> HIDE DEF M
  <2> QED
    BY <2>1 DEF SeederState, SameTarget, Resting
<1>5. CASE NoCandidate
  BY <1>5, AbandonTarget, Zenon DEF NoCandidate, Refuse
<1>6. CASE PickVictim
  <2>1. PICK p \in index :
            \/ seeder' = [seeder EXCEPT !.pc = "evict", !.victim = p.manifest, !.measured = {}]
            \/ Refuse
    BY <1>6, Zenon DEF PickVictim
  <2>2. CASE seeder' = [seeder EXCEPT !.pc = "evict", !.victim = p.manifest, !.measured = {}]
    BY <2>2 DEF SeederState, SameTarget, Resting
  <2>3. CASE Refuse
    BY <2>3, AbandonTarget, Zenon DEF Refuse
  <2> QED
    BY <2>1, <2>2, <2>3
<1>7. CASE Evict
  <2>1. CASE Goto("loop")
    BY <2>1, GotoTarget DEF SeederPC, SameTarget, Resting
  <2>2. ASSUME NEW cids, SweepThen(cids, "loop")
        PROVE  SameTarget
    BY <2>2, SweepTarget DEF SameTarget, Resting
  <2> QED
    BY <1>7, <2>1, <2>2, Zenon DEF Evict
<1>8. CASE Snapshot
  BY <1>8 DEF Snapshot, SeederState, SameTarget, Resting
<1>9. CASE AskModeration \/ NotFound
  BY <1>9, AbandonTarget, Zenon DEF AskModeration, NotFound
<1>10. CASE AskStore
  <2>1. CASE Goto("net")
    BY <2>1, GotoTarget DEF SeederPC, SameTarget, Resting
  <2> QED
    BY <1>10, <2>1, ReceiveTarget, Zenon DEF AskStore
<1>11. CASE Download
  BY <1>11, ReceiveTarget, Zenon DEF Download
<1>12. CASE ReadBan
  <2> DEFINE barred == seeder.issuer \in BannedKeys
  <2>1. seeder' = [seeder EXCEPT !.pc = "intent", !.barred = barred]
    BY <1>12 DEF ReadBan
  <2> HIDE DEF barred
  <2> QED
    BY <2>1 DEF SeederState, SameTarget, Resting
<1>13. CASE ReadIntent
  <2>1. CASE WantedByIntent /\ Goto("insert")
    BY <2>1, GotoTarget DEF SeederPC, SameTarget, Resting, WantedByIntent
  <2>2. CASE SweepThen(Fetched, "end")
    BY <2>2, SweepTarget DEF SameTarget, Resting
  <2> QED
    BY <1>13, <2>1, <2>2, Zenon DEF ReadIntent
<1>14. CASE Commit
  BY <1>14, GotoTarget DEF Commit, SeederPC, SameTarget, Resting
<1>15. CASE Tick \/ Wake
  <2>1. seeder.pc = "wait" /\ Goto("start")
    BY <1>15, Zenon DEF Tick, Wake
  <2> QED
    BY <2>1, GotoTarget DEF SeederPC, SameTarget, Resting
<1> QED
  BY <1>1, <1>2, <1>3, <1>4, <1>5, <1>6, <1>7, <1>8, <1>9, <1>10, <1>11, <1>12, <1>13, <1>14,
     <1>15

\* What the loop begins is listed by a feed, or was named and its issuer is not barred.
LEMMA SeederBegins ==
    ASSUME Inv, AtRest, SeederStep
    PROVE  /\ AtRest'
           /\ SeederBegun' \subseteq SeederBegun \cup Promise!Fed \cup {e \in Named : e[1] \notin Barred}
           /\ SeederNamed' \subseteq SeederNamed \cup Range(seedNow)
<1> DEFINE Allowable == SeederBegun \cup Promise!Fed \cup {e \in Named : e[1] \notin Barred}
           Goal == AtRest' /\ SeederBegun' \subseteq Allowable
                           /\ SeederNamed' \subseteq SeederNamed \cup Range(seedNow)
<1>1. /\ seeder \in SeederState
      /\ seeder'.pc = "insert" => seeder'.cid \in Manifest /\ seeder'.issuer \in Issuer
  <2>1. Inv'
    BY SeederStepInv
  <2> QED
    BY <2>1 DEF Inv, SeederInv, Attempting
<1>2. ASSUME SameTarget
      PROVE  Goal
  <2>1. AtRest'
    BY <1>2 DEF SameTarget, AtRest
  <2>2. SeederNamed' = SeederNamed
    BY <1>2 DEF SameTarget, SeederNamed
  <2>3. CASE seeder.watched
    <3>1. CASE seeder'.pc = "insert"
      <4>1. SeederBegun' = {<<seeder.issuer, seeder.cid>>}
        BY <1>2, <2>3, <3>1 DEF SameTarget, SeederBegun
      <4>2. <<seeder.issuer, seeder.cid>> \in Named /\ seeder.issuer \notin Barred
        BY <1>1, <1>2, <2>3, <3>1 DEF SameTarget, Named, SeederNamed, Barred
      <4> QED
        BY <2>1, <2>2, <4>1, <4>2
    <3>2. CASE seeder'.pc # "insert"
      BY <1>2, <2>1, <2>2, <2>3, <3>2 DEF SameTarget, SeederBegun
    <3> QED
      BY <3>1, <3>2
  <2>4. CASE ~seeder.watched
    BY <1>2, <2>1, <2>2, <2>4 DEF SameTarget, SeederBegun
  <2> QED
    BY <2>3, <2>4
\* The loop has nothing left under way.
<1>3. ASSUME seeder'.cid = NoCid, seeder'.cids = {}, ~seeder'.watched
      PROVE  Goal
  BY <1>3 DEF AtRest, SeederBegun, SeederNamed
<1>4. CASE \/ StartPass \/ EnterRoom \/ RoomFound \/ MeasureCandidates \/ NoCandidate
           \/ PickVictim \/ Evict \/ Snapshot \/ AskModeration \/ AskStore \/ Download
           \/ NotFound \/ ReadBan \/ ReadIntent \/ Commit \/ Tick \/ Wake \/ SkipListed
  BY <1>1, <1>2, <1>4, WithinAttempt
<1>5. CASE VisitIssuer
  <2>1. PICK j \in seeder.issuers :
            seeder' = [seeder EXCEPT !.pc = "channel", !.issuer = j, !.cids = catalog[j],
                                     !.issuers = @ \ {j}]
    BY <1>5, Zenon DEF VisitIssuer
  <2>2. /\ seeder'.pc = "channel" /\ seeder'.issuer = j /\ seeder'.cids = catalog[j]
        /\ seeder'.cid = seeder.cid /\ seeder'.watched = seeder.watched
    BY <1>1, <2>1 DEF SeederState
  <2>3. seeder.cid = NoCid /\ ~seeder.watched
    BY <1>5 DEF VisitIssuer, AtRest, Resting
  <2>4. j \in Issuer /\ catalog[j] \subseteq Listed
    BY <1>1, <2>1 DEF SeederState, Inv, UserTypeOK
  <2>5. {j} \X catalog[j] \subseteq Promise!Fed
    BY <2>4 DEF Promise!Fed
  <2>6. SeederBegun' = {j} \X catalog[j] /\ SeederNamed' = {} /\ AtRest'
    BY <2>2, <2>3 DEF SeederBegun, SeederNamed, AtRest
  <2> QED
    BY <2>5, <2>6
<1>6. CASE EndPass \/ EndNamed
  <2>1. seeder'.cid = NoCid /\ seeder'.cids = {} /\ ~seeder'.watched
    <3>1. CASE EndPass
      BY <3>1 DEF EndPass, SeederIdle
    <3>2. CASE EndNamed
      BY <3>2 DEF EndNamed, SeederIdle
    <3> QED
      BY <1>6, <3>1, <3>2
  <2> QED
    BY <1>3, <2>1
<1>7. CASE TryListed
  <2>1. PICK c \in seeder.cids : \E r \in Repl[c] :
            seeder' = [seeder EXCEPT !.pc = "room", !.cid = c, !.cids = @ \ {c},
                                     !.cand = Measured(c, r)]
    BY <1>7, Zenon DEF TryListed
  <2>2. PICK r \in Repl[c] :
            seeder' = [seeder EXCEPT !.pc = "room", !.cid = c, !.cids = @ \ {c},
                                     !.cand = Measured(c, r)]
    BY <2>1, Zenon
  <2>3. /\ seeder'.pc = "room" /\ seeder'.issuer = seeder.issuer /\ seeder'.cid = c
        /\ seeder'.watched = seeder.watched /\ seeder'.cids \subseteq seeder.cids
    BY <1>1, <2>2 DEF SeederState
  <2>4. ~seeder.watched
    BY <1>7 DEF TryListed, AtRest, Resting
  <2> QED
    BY <2>1, <2>3, <2>4 DEF AtRest, Resting, SeederBegun, SeederNamed
<1>8. CASE EndChannel
  <2>1. /\ seeder.pc = "channel" /\ seeder.cids = {}
        /\ seeder'.cid = seeder.cid /\ seeder'.cids = seeder.cids
        /\ seeder'.watched = seeder.watched
    BY <1>1, <1>8 DEF EndChannel, SeederState
  <2> QED
    BY <1>3, <2>1 DEF AtRest, Resting
<1>9. CASE Delete
  <2>1. /\ seeder.pc = "delete" /\ seeder'.pc = seeder.tail /\ seeder'.tail = "wait"
        /\ seeder'.issuer = seeder.issuer /\ seeder'.cid = seeder.cid
        /\ seeder'.watched = seeder.watched /\ seeder'.cids = seeder.cids
    BY <1>1, <1>9 DEF Delete, SeederState
  <2>2. seeder.tail \in {"loop", "end", "start"}
    BY <1>1, <2>1 DEF Inv, SeederInv, SeederState
  <2>3. SameTarget
    BY <2>1, <2>2 DEF SameTarget, Resting
  <2> QED
    BY <1>2, <2>3
<1>10. CASE EndListed
  <2>1. seeder' = [SeederIdle EXCEPT !.pc = "channel", !.issuer = seeder.issuer,
                                     !.issuers = seeder.issuers, !.cids = seeder.cids]
    BY <1>10 DEF EndListed
  <2>2. /\ seeder'.cid = NoCid /\ seeder'.cids = seeder.cids /\ ~seeder'.watched
        /\ seeder'.issuer = seeder.issuer /\ ~seeder.watched
    BY <1>10, <2>1 DEF EndListed, SeederIdle
  <2> QED
    BY <2>2 DEF AtRest, SeederBegun, SeederNamed
<1>11. CASE TakeNamed
  <2>1. /\ seeder'.watched /\ seeder'.pc = "room"
        /\ <<seeder'.issuer, seeder'.cid>> = <<Head(seedNow)[1], Head(seedNow)[2]>>
    BY <1>11 DEF TakeNamed, SeederIdle
  <2>2. seedNow \in Seq(Issuer \X Manifest) /\ seedNow # <<>>
    BY <1>11, Zenon DEF TakeNamed, Inv, LoopTypeOK
  <2>3. Head(seedNow) = seedNow[1] /\ 1 \in DOMAIN seedNow /\ seedNow[1] \in Issuer \X Manifest
    BY <2>2
  <2>4. <<Head(seedNow)[1], Head(seedNow)[2]>> \in Range(seedNow)
    BY <2>3 DEF Range
  <2> QED
    BY <2>1, <2>4 DEF AtRest, Resting, SeederBegun, SeederNamed
<1> QED
  BY <1>4, <1>5, <1>6, <1>7, <1>8, <1>9, <1>10, <1>11, Zenon DEF SeederStep

LEMMA BegunIsLate ==
    ASSUME NEW i, NEW c, <<i, c>> \in SeederBegun
    PROVE  SeederLate(i)
<1>1. CASE seeder.watched
  BY <1>1 DEF SeederLate, SeederBegun
<1>2. CASE ~seeder.watched
  BY <1>2 DEF SeederLate, SeederBegun
<1> QED
  BY <1>1, <1>2

\* No step of the loop begins anything for a blocked issuer that the catalog has lost.
LEMMA SeederNotLate ==
    ASSUME Inv, AtRest, SeederStep,
           NEW i \in Issuer, KeyBlocked(i), catalog[i] = {}, ~SeederLate(i)
    PROVE  ~SeederLate(i)'
<1>1. ASSUME NEW c, <<i, c>> \in SeederBegun'
      PROVE  FALSE
  <2>1. <<i, c>> \notin Promise!Fed
    BY DEF Promise!Fed
  <2>2. i \in Barred
    BY DEF Barred
  <2> QED
    BY <1>1, <2>1, <2>2, SeederBegins, BegunIsLate
<1> SUFFICES ASSUME SeederLate(i)'
             PROVE  FALSE
  OBVIOUS
<1>2. CASE seeder'.watched
  <2>1. <<i, seeder'.cid>> \in SeederBegun'
    BY <1>2 DEF SeederLate, SeederBegun
  <2> QED
    BY <1>1, <2>1
<1>3. CASE ~seeder'.watched
  <2>1. SeederBegun' = {i} \X (seeder'.cids \cup ({seeder'.cid} \ {NoCid}))
    BY <1>3 DEF SeederLate, SeederBegun
  <2>2. PICK c : c \in seeder'.cids \cup ({seeder'.cid} \ {NoCid})
    BY <1>3 DEF SeederLate
  <2> QED
    BY <1>1, <2>1, <2>2
<1> QED
  BY <1>2, <1>3

\* The loop moves by its own steps and by restarts.
LEMMA OthersLeaveSeeder ==
    ASSUME [Next]_vars, ~SeederStep, ~Restart
    PROVE  UNCHANGED seeder
<1>1. CASE UNCHANGED vars
  BY <1>1, Zenon DEF vars, taskVars
<1>2. CASE \E u \in Purger : PurgerStep(u)
  BY <1>2, Zenon DEF PurgerStep, BlockSubs, SelectBlocked, PurgeCatalog, PurgeIndex,
     ReadRemaining, StopProviding, PurgerSnapshot, PurgerDelete, PurgedEntries, PurgeCids,
     WithdrawCids
<1>3. CASE \E v \in Viewer : ViewerStep(v)
  BY <1>3, Zenon DEF ViewerStep, ViewRefused, ViewAsk, ViewDownload, ViewJoin, ViewNotFound,
     IngestBlock, FinishCall, FinishStream, FinishWatch, RegisterDownload, RegisterOwn,
     ViewerSnapshot, ViewerDelete
<1>4. CASE (\E i \in Issuer : SubscribeRecord(i) \/ FeedStep(i)) \/ Reprovide
  BY <1>4, Zenon DEF SubscribeRecord, FeedStep, FeedApplied, FeedDropped, Reprovide, taskVars
<1>5. CASE UserStep
  BY <1>5, Zenon DEF UserStep, SubscribeCheck, Unblock, FeedChecked, SetQuota, Pin, Unpin,
     LiftList, Unsubscribe, BlockChannel, ApplyList, taskVars
<1>6. CASE \E v \in Viewer : ViewerChoice(v)
  BY <1>6, Zenon DEF ViewerChoice, ViewSubscribed, WatchOther, Ingest, Begin, CloseSettled,
     CloseWatched
<1> QED
  BY <1>1, <1>2, <1>3, <1>4, <1>5, <1>6, Zenon DEF Next, TaskStep

LEMMA AtRestHolds == Spec => []AtRest
<1>1. Init => AtRest
  BY DEF Init, AtRest, SeederIdle
<1>2. ASSUME Inv, AtRest, [Next]_vars
      PROVE  AtRest'
  <2>1. CASE SeederStep
    BY <1>2, <2>1, SeederBegins
  <2>2. CASE Restart
    BY <2>2 DEF Restart, AtRest, SeederIdle
  <2>3. ASSUME ~SeederStep, ~Restart
        PROVE  UNCHANGED seeder
    BY <1>2, <2>3, OthersLeaveSeeder
  <2>4. CASE UNCHANGED seeder
    BY <1>2, <2>4 DEF AtRest, Resting
  <2> QED
    BY <2>1, <2>2, <2>3, <2>4
<1> QED
  BY <1>1, <1>2, InvHolds, PTL DEF Spec

Pending(i) == \E h \in hearing : h[1] = i

\* What the catalog says of an issuer changes by a feed that is pending, or is forgotten.
LEMMA CatalogStep ==
    ASSUME Inv, [Next]_vars, NEW i \in Issuer, catalog[i] = {}, ~Pending(i)
    PROVE  catalog'[i] = {}
<1>1. catalog \in [Issuer -> SUBSET Listed]
  BY DEF Inv, UserTypeOK
<1>2. CASE UNCHANGED catalog
  BY <1>2
<1>3. ASSUME NEW u \in Purger, PurgeCatalog(u)
      PROVE  catalog'[i] = {}
  BY <1>1, <1>3 DEF PurgeCatalog
<1>4. ASSUME NEW j \in Issuer, FeedStep(j)
      PROVE  catalog'[i] = {}
  <2>1. PICK f \in Feeds[j] : FeedApplied(j, f) \/ FeedDropped(j, f)
    BY <1>4 DEF FeedStep
  <2>2. CASE FeedApplied(j, f)
    <3>1. <<j, f>> \in hearing /\ catalog' = [catalog EXCEPT ![j] = f]
      BY <2>2, Zenon DEF FeedApplied
    <3>2. i # j
      BY <3>1 DEF Pending
    <3> QED
      BY <1>1, <3>1, <3>2
  <2>3. CASE FeedDropped(j, f)
    BY <1>2, <2>3, Zenon DEF FeedDropped
  <2> QED
    BY <2>1, <2>2, <2>3
<1>5. CASE Restart
  BY <1>5 DEF Restart
<1>6. CASE TaskStep
  <2>1. CASE SeederStep
    BY <2>1, <1>2, Zenon DEF SeederStep, StartPass, VisitIssuer, EndPass, SkipListed, TryListed,
       EndChannel, EnterRoom, RoomFound, MeasureCandidates, NoCandidate, PickVictim, Refuse,
       Evict, Snapshot, Delete, AskModeration, AskStore, Download, NotFound, ReadBan,
       ReadIntent, Commit, EndListed, EndNamed, Tick, Wake, TakeNamed, userVars
  <2>2. ASSUME NEW u \in Purger, PurgerStep(u)
        PROVE  catalog'[i] = {}
    BY <2>2, <1>2, <1>3, Zenon DEF PurgerStep, BlockSubs, SelectBlocked, PurgeIndex,
       ReadRemaining, StopProviding, PurgerSnapshot, PurgerDelete, PurgedEntries, PurgeCids,
       WithdrawCids, userVars
  <2>3. ASSUME NEW v \in Viewer, ViewerStep(v)
        PROVE  catalog'[i] = {}
    BY <2>3, <1>2, Zenon DEF ViewerStep, ViewRefused, ViewAsk, ViewDownload, ViewJoin,
       ViewNotFound, IngestBlock, FinishCall, FinishStream, FinishWatch, RegisterDownload,
       RegisterOwn, ViewerSnapshot, ViewerDelete, userVars
  <2>4. CASE \E j \in Issuer : SubscribeRecord(j) \/ FeedStep(j)
    BY <2>4, <1>2, <1>4, Zenon DEF SubscribeRecord
  <2> QED
    BY <1>6, <2>1, <2>2, <2>3, <2>4 DEF TaskStep
<1>7. CASE UserStep
  BY <1>7, <1>2, Zenon DEF UserStep, SubscribeCheck, Unblock, FeedChecked, SetQuota, Pin, Unpin,
     LiftList, Unsubscribe, BlockChannel, ApplyList
<1>8. CASE \E v \in Viewer : ViewerChoice(v)
  BY <1>8, <1>2, Zenon DEF ViewerChoice, ViewSubscribed, WatchOther, Ingest, Begin,
     CloseSettled, CloseWatched, userVars
<1>9. CASE Reprovide \/ UNCHANGED vars
  BY <1>9, <1>2, Zenon DEF Reprovide, vars, userVars
<1> QED
  BY <1>5, <1>6, <1>7, <1>8, <1>9 DEF Next

\* A feed is pending once the bans were asked, of an issuer that they let in.
LEMMA PendingStep ==
    ASSUME [Next]_vars, NEW i \in Issuer, KeyBlocked(i), ~Pending(i)
    PROVE  ~Pending(i)'
<1>1. ASSUME hearing' \subseteq hearing
      PROVE  ~Pending(i)'
  BY <1>1 DEF Pending
<1>2. CASE UNCHANGED hearing
  BY <1>1, <1>2
<1>3. ASSUME NEW j \in Issuer, NEW f \in Feeds[j], FeedChecked(j, f)
      PROVE  ~Pending(i)'
  <2>1. ~KeyBlocked(j) /\ hearing' = hearing \cup {<<j, f>>}
    BY <1>3, Zenon DEF FeedChecked
  <2>2. i # j
    BY <2>1
  <2> QED
    BY <2>1, <2>2 DEF Pending
<1>4. CASE \E j \in Issuer : SubscribeRecord(j) \/ FeedStep(j)
  <2>1. hearing' \subseteq hearing
    BY <1>4 DEF SubscribeRecord, FeedStep, FeedApplied, FeedDropped
  <2> QED
    BY <1>1, <2>1
<1>5. CASE Restart
  BY <1>1, <1>5 DEF Restart
<1>6. CASE SeederStep
  BY <1>2, <1>6, Zenon DEF SeederStep, StartPass, VisitIssuer, EndPass, SkipListed, TryListed,
     EndChannel, EnterRoom, RoomFound, MeasureCandidates, NoCandidate, PickVictim, Refuse,
     Evict, Snapshot, Delete, AskModeration, AskStore, Download, NotFound, ReadBan,
     ReadIntent, Commit, EndListed, EndNamed, Tick, Wake, TakeNamed, userVars
<1>7. CASE \E u \in Purger : PurgerStep(u)
  BY <1>2, <1>7, Zenon DEF PurgerStep, BlockSubs, SelectBlocked, PurgeCatalog, PurgeIndex,
     ReadRemaining, StopProviding, PurgerSnapshot, PurgerDelete, PurgedEntries, PurgeCids,
     WithdrawCids, userVars
<1>8. CASE \E v \in Viewer : ViewerStep(v)
  BY <1>2, <1>8, Zenon DEF ViewerStep, ViewRefused, ViewAsk, ViewDownload, ViewJoin,
     ViewNotFound, IngestBlock, FinishCall, FinishStream, FinishWatch, RegisterDownload,
     RegisterOwn, ViewerSnapshot, ViewerDelete, userVars
<1>9. CASE UserStep
  BY <1>2, <1>3, <1>9, Zenon DEF UserStep, SubscribeCheck, Unblock, SetQuota, Pin, Unpin,
     LiftList, Unsubscribe, BlockChannel, ApplyList
<1>10. CASE \E v \in Viewer : ViewerChoice(v)
  BY <1>2, <1>10, Zenon DEF ViewerChoice, ViewSubscribed, WatchOther, Ingest, Begin,
     CloseSettled, CloseWatched, userVars
<1>11. CASE Reprovide \/ UNCHANGED vars
  BY <1>2, <1>11, Zenon DEF Reprovide, vars, userVars
<1> QED
  BY <1>4, <1>5, <1>6, <1>7, <1>8, <1>9, <1>10, <1>11, Zenon DEF Next, TaskStep

\* The foreground tasks move by their own steps and by restarts.
LEMMA OthersLeaveViewers ==
    ASSUME [Next]_vars, ~Restart, \A v \in Viewer : ~ViewerStep(v) /\ ~ViewerChoice(v)
    PROVE  UNCHANGED viewer
<1>1. CASE SeederStep
  BY <1>1, Zenon DEF SeederStep, StartPass, VisitIssuer, EndPass, SkipListed, TryListed,
     EndChannel, EnterRoom, RoomFound, MeasureCandidates, NoCandidate, PickVictim, Refuse,
     Evict, Snapshot, Delete, AskModeration, AskStore, Download, NotFound, ReadBan,
     ReadIntent, Commit, EndListed, EndNamed, Tick, Wake, TakeNamed
<1>2. CASE \E u \in Purger : PurgerStep(u)
  BY <1>2, Zenon DEF PurgerStep, BlockSubs, SelectBlocked, PurgeCatalog, PurgeIndex,
     ReadRemaining, StopProviding, PurgerSnapshot, PurgerDelete, PurgedEntries, PurgeCids,
     WithdrawCids
<1>3. CASE (\E j \in Issuer : SubscribeRecord(j) \/ FeedStep(j)) \/ Reprovide \/ UNCHANGED vars
  BY <1>3, Zenon DEF SubscribeRecord, FeedStep, FeedApplied, FeedDropped, Reprovide, vars, taskVars
<1>4. CASE UserStep
  BY <1>4, Zenon DEF UserStep, SubscribeCheck, Unblock, FeedChecked, SetQuota, Pin, Unpin,
     LiftList, Unsubscribe, BlockChannel, ApplyList, taskVars
<1> QED
  BY <1>1, <1>2, <1>3, <1>4, Zenon DEF Next, TaskStep

Beginning(kind, i, m) ==
    [ViewerIdle EXCEPT !.pc = "fetch", !.kind = kind, !.issuer = i, !.cid = m]
Sweeping(cids) == [ViewerIdle EXCEPT !.pc = "sweep", !.kind = "watch", !.sweep = cids]

\* A task ends, goes on as what it is, turns to its cleanup, or begins with what a feed
\* lists or this node owns.
Moves(v, t) ==
    \/ t = ViewerIdle
    \/ /\ viewer[v].pc # "idle"
       /\ t.kind = viewer[v].kind /\ t.issuer = viewer[v].issuer /\ t.cid = viewer[v].cid
    \/ /\ viewer[v].pc # "idle" /\ viewer[v].kind = "watch" /\ t = Sweeping(viewer[v].got)
    \/ \E kind \in Allowed, i \in Issuer, m \in Manifest :
          /\ viewer[v].pc = "idle" /\ t = Beginning(kind, i, m)
          /\ IF kind = "ingest" THEN i = Self /\ m \in Own ELSE m \in catalog[i]

LEMMA MoveOf ==
    ASSUME Inv, NEW v \in Viewer, ViewerStep(v) \/ ViewerChoice(v)
    PROVE  /\ Moves(v, viewer'[v])
           /\ \A w \in Viewer \ {v} : viewer'[w] = viewer[w]
<1> DEFINE Others == \A w \in Viewer \ {v} : viewer'[w] = viewer[w]
<1>1. viewer \in [Viewer -> ViewerState] /\ viewer[v] \in ViewerState
  BY DEF Inv, ViewerInv
<1>2. ASSUME NEW t, viewer' = [viewer EXCEPT ![v] = t]
      PROVE  viewer'[v] = t /\ Others
  BY <1>1, <1>2
<1>3. ASSUME viewer' = [viewer EXCEPT ![v] = ViewerIdle]
      PROVE  Moves(v, viewer'[v]) /\ Others
  BY <1>2, <1>3 DEF Moves
<1>4. ASSUME NEW pc, ViewerGoto(v, pc), viewer[v].pc # "idle"
      PROVE  Moves(v, viewer'[v]) /\ Others
  BY <1>1, <1>4 DEF ViewerGoto, ViewerState, Moves
<1>5. CASE ViewRefused(v) \/ ViewNotFound(v)
  <2>1. /\ viewer[v].pc # "idle"
        /\ \/ ViewerGoto(v, "frozen") \/ viewer' = [viewer EXCEPT ![v] = ViewerIdle]
           \/ viewer' = [viewer EXCEPT ![v].pc = "fetch", ![v].want = NoCid]
    BY <1>5 DEF ViewRefused, ViewNotFound, SetViewer
  <2>2. CASE viewer' = [viewer EXCEPT ![v].pc = "fetch", ![v].want = NoCid]
    BY <1>1, <2>1, <2>2 DEF ViewerState, Moves
  <2> QED
    BY <1>3, <1>4, <2>1, <2>2
<1>6. CASE ViewAsk(v)
  <2>1. viewer[v].pc = "fetch"
    BY <1>6 DEF ViewAsk
  <2>2. PICK b \in NextBlocks(v) \ BannedCids :
            viewer' = [viewer EXCEPT ![v].pc = IF b \in store THEN "landed" ELSE "net",
                                     ![v].want = b]
    BY <1>6, Zenon DEF ViewAsk
  <2> QED
    BY <1>1, <2>1, <2>2 DEF ViewerState, Moves
<1>7. CASE ViewDownload(v) \/ FinishCall(v) \/ FinishStream(v) \/ FinishWatch(v)
  <2>1. viewer[v].pc # "idle" /\ \E pc \in ViewerPC : ViewerGoto(v, pc)
    BY <1>7 DEF ViewDownload, FinishCall, FinishStream, FinishWatch, GotAll, ViewerPC
  <2> QED
    BY <1>4, <2>1
<1>8. CASE ViewJoin(v) \/ IngestBlock(v) \/ ViewerSnapshot(v)
  <2>1. CASE ViewJoin(v)
    BY <1>1, <2>1 DEF ViewJoin, ViewerState, Moves
  <2>2. CASE IngestBlock(v)
    <3>1. viewer[v].pc = "fetch" /\ \E b : viewer' = [viewer EXCEPT ![v].got = @ \cup {b}]
      BY <2>2, Zenon DEF IngestBlock
    <3> QED
      BY <1>1, <3>1 DEF ViewerState, Moves
  <2>3. CASE ViewerSnapshot(v)
    <3> DEFINE keep == AllCids(index)
    <3>1. viewer[v].pc = "sweep" /\ viewer' = [viewer EXCEPT ![v].pc = "delete", ![v].keep = keep]
      BY <2>3 DEF ViewerSnapshot
    <3> HIDE DEF keep
    <3> QED
      BY <1>1, <3>1 DEF ViewerState, Moves
  <2> QED
    BY <1>8, <2>1, <2>2, <2>3
<1>9. CASE RegisterDownload(v) \/ RegisterOwn(v) \/ ViewerDelete(v) \/ CloseSettled(v)
  BY <1>3, <1>9, Zenon DEF RegisterDownload, RegisterOwn, ViewerDelete, CloseSettled, SetViewer
<1>10. CASE CloseWatched(v)
  <2>1. /\ viewer[v].pc # "idle" /\ viewer[v].kind = "watch"
        /\ \/ viewer' = [viewer EXCEPT ![v] = ViewerIdle]
           \/ viewer' = [viewer EXCEPT ![v] = Sweeping(viewer[v].got)]
    BY <1>10 DEF CloseWatched, Open, SetViewer, Sweeping
  <2>2. CASE viewer' = [viewer EXCEPT ![v] = Sweeping(viewer[v].got)]
    BY <1>2, <2>1, <2>2 DEF Moves
  <2> QED
    BY <1>3, <2>1, <2>2
<1>11. ASSUME NEW kind, NEW i \in Issuer, NEW m \in Manifest, Begin(v, kind, i, m),
              IF kind = "ingest" THEN i = Self /\ m \in Own ELSE m \in catalog[i]
       PROVE  Moves(v, viewer'[v]) /\ Others
  <2>1. kind \in Allowed /\ viewer[v].pc = "idle" /\ viewer' = [viewer EXCEPT ![v] = Beginning(kind, i, m)]
    BY <1>11, Zenon DEF Begin, Occurs, SetViewer, Beginning
  <2> QED
    BY <1>2, <1>11, <2>1 DEF Moves
<1>12. CASE \E m \in Manifest :
               \/ \E j \in Issuer, kind \in {"hls", "stream"} : ViewSubscribed(v, kind, j, m)
               \/ \E j \in Issuer : WatchOther(v, j, m)
               \/ Ingest(v, m)
  <2>1. ASSUME NEW m \in Manifest, NEW j \in Issuer, NEW kind \in {"hls", "stream"},
               ViewSubscribed(v, kind, j, m)
        PROVE  Moves(v, viewer'[v]) /\ Others
    BY <1>11, <2>1 DEF ViewSubscribed
  <2>2. ASSUME NEW m \in Manifest, NEW j \in Issuer, WatchOther(v, j, m)
        PROVE  Moves(v, viewer'[v]) /\ Others
    BY <1>11, <2>2 DEF WatchOther
  <2>3. ASSUME NEW m \in Manifest, Ingest(v, m)
        PROVE  Moves(v, viewer'[v]) /\ Others
    BY <1>11, <2>3, SelfAssumption DEF Ingest
  <2> QED
    BY <1>12, <2>1, <2>2, <2>3, Zenon
<1> QED
  BY <1>5, <1>6, <1>7, <1>8, <1>9, <1>10, <1>12, Zenon DEF ViewerStep, ViewerChoice

LEMMA ViewersStep ==
    ASSUME Inv, [Next]_vars, NEW i \in Issuer, NEW w \in Viewer, viewer'[w].issuer = i
    PROVE  viewer[w].issuer = i \/ i = Self \/ catalog[i] # {}
<1>1. CASE UNCHANGED viewer
  BY <1>1
<1>2. CASE Restart
  BY <1>2, NoneAssumption DEF Restart, ViewerIdle
<1>3. ASSUME NEW v \in Viewer, ViewerStep(v) \/ ViewerChoice(v)
      PROVE  viewer[w].issuer = i \/ i = Self \/ catalog[i] # {}
  <2>1. Moves(v, viewer'[v]) /\ \A o \in Viewer \ {v} : viewer'[o] = viewer[o]
    BY <1>3, MoveOf
  <2>2. CASE viewer'[w].issuer = NoIssuer
    BY <2>2, NoneAssumption
  <2>3. CASE w = v /\ viewer'[w].issuer # NoIssuer
    <3>1. CASE viewer'[v].issuer = viewer[v].issuer
      BY <2>3, <3>1
    <3>2. ASSUME NEW kind \in Allowed, NEW j \in Issuer, NEW m \in Manifest,
                 viewer'[v] = Beginning(kind, j, m),
                 IF kind = "ingest" THEN j = Self /\ m \in Own ELSE m \in catalog[j]
          PROVE  i = Self \/ catalog[i] # {}
      BY <2>3, <3>2 DEF Beginning, ViewerIdle
    <3>3. ViewerIdle.issuer = NoIssuer /\ Sweeping(viewer[v].got).issuer = NoIssuer
      BY DEF Sweeping, ViewerIdle
    <3>4. viewer'[v] # ViewerIdle /\ viewer'[v] # Sweeping(viewer[v].got)
      BY <2>3, <3>3
    <3> QED
      BY <2>1, <3>1, <3>2, <3>4 DEF Moves
  <2> QED
    BY <2>1, <2>2, <2>3
<1> QED
  BY <1>1, <1>2, <1>3, OthersLeaveViewers

\* Once everything that was begun for a blocked or banned issuer is through, a feed that
\* passed the check before the ban included, and its purge came after it, nothing of it
\* is listed or retained again while it stays so (the checks of handle_feed_message,
\* fetch_feed_inner and seed_still_wanted, and the feeds that every fetch starts from).
THEOREM PurgedIsOut == Spec => PurgedStaysOut
<1> DEFINE Out == \A i \in Issuer \ {Self} : Shut(i) => Shut(i)' \/ ~KeyBlocked(i)'
<1>1. ASSUME Inv, AtRest, [Next]_vars
      PROVE  Out
  <2> SUFFICES ASSUME NEW i \in Issuer, i # Self, Shut(i), KeyBlocked(i)'
               PROVE  Shut(i)'
    OBVIOUS
  <2>1. /\ KeyBlocked(i) /\ ~Pending(i) /\ ~SeederLate(i) /\ catalog[i] = {}
        /\ \A v \in Viewer : viewer[v].issuer # i
        /\ \A p \in index : p.issuer # i
    BY Zenon DEF Shut, Late, SeederLate, Pending
  <2>2. catalog'[i] = {} /\ ~Pending(i)'
    BY <1>1, <2>1, CatalogStep, PendingStep
  <2>3. \A v \in Viewer : viewer'[v].issuer # i
    BY <1>1, <2>1, ViewersStep
  <2>4. ~SeederLate(i)'
    <3>1. CASE SeederStep
      BY <1>1, <2>1, <3>1, SeederNotLate
    <3>2. CASE Restart
      BY <3>2 DEF Restart, SeederLate, SeederIdle
    <3>3. CASE UNCHANGED seeder
      BY <2>1, <3>3 DEF SeederLate
    <3> QED
      BY <1>1, <3>1, <3>2, <3>3, OthersLeaveSeeder
  <2>5. ~Late(i)'
    BY <2>2, <2>3, <2>4, Zenon DEF Late, SeederLate, Pending
  <2>6. \A p \in index' : p.issuer # i
    <3>1. index \subseteq Publication /\ IsFiniteSet(index)
      BY <1>1 DEF Inv, SeedTypeOK
    <3>2. CASE UNCHANGED index
      BY <2>1, <3>2
    <3>3. CASE Inserted
      <4>1. PICK j \in Issuer, m \in Manifest, blocks \in SUBSET Cid :
                /\ index' = Insert(index, j, m, blocks)
                /\ Late(j) \/ j = Self
        BY <3>3 DEF Inserted
      <4>2. j # i
        BY <4>1 DEF Shut
      <4> QED
        BY <2>1, <4>1, <4>2 DEF Insert
    <3>4. ASSUME NEW gone, index' = Remove(index, gone)
          PROVE  \A p \in index' : p.issuer # i
      BY <2>1, <3>1, <3>4, RemoveType
    <3> QED
      BY <1>1, <3>2, <3>3, <3>4, IndexStep DEF EvictedOne, PurgedSome
  <2> QED
    BY <2>2, <2>5, <2>6 DEF Shut
<1>2. Inv /\ AtRest /\ [Next]_vars => [Out]_vars
  BY <1>1
<1> QED
  BY <1>2, InvHolds, AtRestHolds, PTL DEF Spec, PurgedStaysOut

-----------------------------------------------------------------------------
(* Custody *)

\* Each part of what is promised rests on few variables.
LEMMA CustodyParts ==
    /\ UNCHANGED <<blocked, lists>> => Barred' = Barred
    /\ UNCHANGED seeder => SeederNamed' = SeederNamed /\ SeederBegun' = SeederBegun /\ Victim' = Victim
    /\ UNCHANGED viewer => ViewerNamed' = ViewerNamed /\ ViewerBegun' = ViewerBegun
    /\ UNCHANGED <<seeder, viewer, seedNow>> => Named' = Named
    /\ UNCHANGED <<seeder, viewer>> => Begun' = Begun
    /\ UNCHANGED purger => Purging' = Purging
    /\ UNCHANGED index => KeptIn(index)' = KeptIn(index)
    /\ UNCHANGED hearing => Heard' = Heard
<1>1. UNCHANGED <<blocked, lists>> => Barred' = Barred
  BY DEF Barred, KeyBlocked, BannedKeys
<1>2. UNCHANGED seeder => SeederNamed' = SeederNamed /\ SeederBegun' = SeederBegun /\ Victim' = Victim
  BY DEF SeederNamed, SeederBegun, Victim
<1>3. UNCHANGED viewer => ViewerNamed' = ViewerNamed /\ ViewerBegun' = ViewerBegun
  BY DEF ViewerNamed, ViewerBegun
<1>4. UNCHANGED purger => Purging' = Purging
  BY DEF Purging, PurgesFor
<1> QED
  BY <1>1, <1>2, <1>3, <1>4 DEF Named, Begun, KeptIn, Heard

LEMMA PromiseSteps ==
    /\ Promise!Judge \/ Promise!Consider \/ Promise!Drop \/ Promise!Restart => Promise!Next
    /\ \A i \in Issuer : Promise!Hear(i) \/ Promise!Offer(i) \/ Promise!Withdraw(i) => Promise!Next
    /\ \A i \in Issuer, m \in Listed : Promise!Take(i, m) => Promise!Next
    /\ \A m \in Listed : Promise!Pin(m) => Promise!Next
BY Zenon DEF Promise!Next

\* The steps that change nothing but bans, purges and what the promise leaves out.
LEMMA OnlyJudged ==
    ASSUME UNCHANGED <<catalog, hearing, pins, index, seedNow, seeder, viewer>>,
           Purging' \subseteq Purging \cup Barred'
    PROVE  Promise!Judge
<1>1. Barred' \subseteq Issuer
  BY DEF Barred
<1> QED
  BY <1>1, CustodyParts DEF Promise!Judge

LEMMA NothingJudged ==
    ASSUME UNCHANGED <<catalog, hearing, pins, index, seedNow, seeder, viewer, purger>>
    PROVE  Promise!Judge
<1>1. Purging' = Purging
  BY CustodyParts
<1> QED
  BY <1>1, OnlyJudged

LEMMA KeptOfInsert ==
    ASSUME NEW idx, NEW i, NEW m, NEW blocks
    PROVE  KeptIn(Insert(idx, i, m, blocks)) = KeptIn(idx) \cup {<<i, m>>}
<1> DEFINE new == [issuer |-> i, manifest |-> m, counted |-> blocks, order |-> Cardinality(idx)]
<1>1. Insert(idx, i, m, blocks) = idx \cup {new}
  BY DEF Insert
<1>2. <<new.issuer, new.manifest>> = <<i, m>>
  OBVIOUS
<1> HIDE DEF new
<1>3. {<<p.issuer, p.manifest>> : p \in idx \cup {new}} =
         {<<p.issuer, p.manifest>> : p \in idx} \cup {<<new.issuer, new.manifest>>}
  BY Zenon
<1> QED
  BY <1>1, <1>2, <1>3, Zenon DEF KeptIn

LEMMA KeptOfRemove ==
    ASSUME NEW idx, idx \subseteq Publication, IsFiniteSet(idx), NEW gone
    PROVE  /\ KeptIn(Remove(idx, gone)) \subseteq KeptIn(idx)
           /\ \A e \in KeptIn(idx) \ KeptIn(Remove(idx, gone)) :
                 \E p \in gone : e = <<p.issuer, p.manifest>>
<1>1. \A q \in Remove(idx, gone) : \E p \in idx : q.manifest = p.manifest /\ q.issuer = p.issuer
  BY RemoveType
<1>2. \A p \in idx \ gone :
          \E q \in Remove(idx, gone) : q.manifest = p.manifest /\ q.issuer = p.issuer
  BY RemoveType
<1> QED
  BY <1>1, <1>2 DEF KeptIn

-----------------------------------------------------------------------------
(* The seed loop keeps the promise *)

LEMMA SeederLeaves ==
    ASSUME SeederStep
    PROVE  /\ UNCHANGED <<userVars, pins, viewer, purger>>
           /\ UNCHANGED seedNow \/ (seedNow # <<>> /\ seedNow' = Tail(seedNow))
<1>1. StartPass \/ VisitIssuer \/ EndPass \/ SkipListed \/ TryListed \/ EndChannel =>
          UNCHANGED <<userVars, pins, viewer, purger, seedNow>>
  BY Zenon DEF StartPass, VisitIssuer, EndPass, SkipListed, TryListed, EndChannel, seedVars, loopVars
<1>2. EnterRoom \/ RoomFound \/ MeasureCandidates \/ NoCandidate \/ PickVictim \/ Evict =>
          UNCHANGED <<userVars, pins, viewer, purger, seedNow>>
  BY Zenon DEF EnterRoom, RoomFound, MeasureCandidates, NoCandidate, PickVictim, Evict, Refuse,
     seedVars, loopVars
<1>3. Snapshot \/ Delete \/ AskModeration \/ AskStore \/ Download \/ NotFound =>
          UNCHANGED <<userVars, pins, viewer, purger, seedNow>>
  BY Zenon DEF Snapshot, Delete, AskModeration, AskStore, Download, NotFound, seedVars, loopVars
<1>4. ReadBan \/ ReadIntent \/ Commit \/ EndListed \/ EndNamed \/ Tick \/ Wake =>
          UNCHANGED <<userVars, pins, viewer, purger, seedNow>>
  BY Zenon DEF ReadBan, ReadIntent, Commit, EndListed, EndNamed, Tick, Wake, seedVars, loopVars
<1>5. TakeNamed =>
          /\ UNCHANGED <<userVars, pins, viewer, purger>>
          /\ seedNow # <<>> /\ seedNow' = Tail(seedNow)
  BY Zenon DEF TakeNamed, seedVars
<1> QED
  BY <1>1, <1>2, <1>3, <1>4, <1>5, Zenon DEF SeederStep

LEMMA TailRange ==
    ASSUME NEW S, NEW q \in Seq(S), q # <<>>
    PROVE  Range(Tail(q)) \subseteq Range(q)
<1>1. \A k \in DOMAIN Tail(q) : k + 1 \in DOMAIN q /\ Tail(q)[k] = q[k + 1]
  OBVIOUS
<1> QED
  BY <1>1 DEF Range

LEMMA AppendRange ==
    ASSUME NEW S, NEW q \in Seq(S), NEW e
    PROVE  Range(Append(q, e)) = Range(q) \cup {e}
<1> DEFINE n == Len(q)
<1>1. /\ DOMAIN q = 1 .. n /\ DOMAIN Append(q, e) = 1 .. (n + 1) /\ n \in Nat
      /\ \A k \in 1 .. n : Append(q, e)[k] = q[k]
      /\ Append(q, e)[n + 1] = e
  OBVIOUS
<1> HIDE DEF n
<1>2. 1 .. (n + 1) = 1 .. n \cup {n + 1}
  BY <1>1
<1> QED
  BY <1>1, <1>2, Zenon DEF Range

\* A victim is no pin when it is chosen.
LEMMA VictimStep ==
    ASSUME Inv, SeederStep, seeder'.pc = "evict"
    PROVE  seeder'.victim \in Listed \ pins
<1>1. seeder \in SeederState /\ index \subseteq Publication
  BY DEF Inv, SeederInv, SeedTypeOK
<1>2. ASSUME NEW pc \in SeederPC \ {"evict"}, Goto(pc)
      PROVE  FALSE
  BY <1>1, <1>2, GotoTarget
<1>3. ~Abandon
  <2>1. CASE Goto("end")
    BY <1>2, <2>1 DEF SeederPC
  <2>2. CASE SweepThen(Fetched, "end")
    BY <1>1, <2>2, SweepTarget
  <2> QED
    BY <2>1, <2>2 DEF Abandon
<1>4. ~Receive
  <2> DEFINE pc == IF seeder.cid \in Bare THEN "end"
                   ELSE IF seeder.done + 1 = Len(Blocks(seeder.cid)) THEN "ban" ELSE "room"
             next == seeder.done + 1
  <2>1. ASSUME Receive PROVE seeder' = [seeder EXCEPT !.done = next, !.pc = pc]
    BY <2>1 DEF Receive
  <2>2. pc # "evict"
    OBVIOUS
  <2> HIDE DEF pc, next
  <2> QED
    BY <1>1, <2>1, <2>2 DEF SeederState
<1>5. CASE PickVictim
  <2>1. PICK repl \in Measurements, p \in index :
            /\ FirstEvicted(p, index, pins, repl, seeder.subs)
            /\ \/ seeder' = [seeder EXCEPT !.pc = "evict", !.victim = p.manifest, !.measured = {}]
               \/ Refuse
    BY <1>5, Zenon DEF PickVictim
  <2>2. seeder' = [seeder EXCEPT !.pc = "evict", !.victim = p.manifest, !.measured = {}]
    BY <1>3, <2>1 DEF Refuse
  <2>3. p.manifest \notin pins /\ p.manifest \in Manifest
    BY <1>1, <2>1 DEF FirstEvicted, Evictable, Publication
  <2> QED
    BY <1>1, <2>2, <2>3 DEF SeederState, Listed
<1>6. ~(StartPass \/ VisitIssuer \/ EndPass \/ SkipListed \/ TryListed \/ EndChannel)
  <2>1. ~StartPass /\ ~SkipListed /\ ~EndChannel
    BY <1>1 DEF StartPass, SkipListed, EndChannel, SeederState
  <2>2. ~VisitIssuer
    BY <1>1 DEF VisitIssuer, SeederState
  <2>3. ~EndPass
    BY DEF EndPass, SeederIdle
  <2>4. ~TryListed
    BY <1>1 DEF TryListed, SeederState
  <2> QED
    BY <2>1, <2>2, <2>3, <2>4
<1>7. ~(EnterRoom \/ RoomFound \/ MeasureCandidates \/ NoCandidate \/ Evict)
  <2>1. ~EnterRoom
    BY <1>1 DEF EnterRoom, SeederState
  <2>2. ~RoomFound /\ ~NoCandidate
    BY <1>2, <1>3, Zenon DEF RoomFound, NoCandidate, Refuse, SeederPC
  <2>3. ~MeasureCandidates
    <3> DEFINE M == {p.manifest : p \in Evictable(index, pins)}
    <3>1. ASSUME MeasureCandidates PROVE seeder' = [seeder EXCEPT !.pc = "victim", !.measured = M]
      BY <3>1 DEF MeasureCandidates
    <3> HIDE DEF M
    <3> QED
      BY <1>1, <3>1 DEF SeederState
  <2>4. ASSUME NEW cids, SweepThen(cids, "loop")
        PROVE  FALSE
    BY <1>1, <2>4, SweepTarget
  <2>5. ~Evict
    BY <1>2, <2>4, Zenon DEF Evict, SeederPC
  <2> QED
    BY <2>1, <2>2, <2>3, <2>5
<1>8. ~(Snapshot \/ Delete \/ AskModeration \/ AskStore \/ Download \/ NotFound)
  <2>1. ~Snapshot
    BY <1>1 DEF Snapshot, SeederState
  <2>2. ~Delete
    BY <1>1 DEF Delete, SeederState
  <2>3. ~AskModeration /\ ~NotFound /\ ~Download
    BY <1>3, <1>4, Zenon DEF AskModeration, NotFound, Download
  <2>4. ~AskStore
    BY <1>2, <1>4, Zenon DEF AskStore, SeederPC
  <2> QED
    BY <2>1, <2>2, <2>3, <2>4
<1>9. ~(ReadBan \/ ReadIntent \/ Commit \/ EndListed \/ EndNamed \/ Tick \/ Wake \/ TakeNamed)
  <2>1. ~ReadBan
    BY <1>1 DEF ReadBan, SeederState
  <2>2. ASSUME NEW cids, SweepThen(cids, "end")
        PROVE  FALSE
    BY <1>1, <2>2, SweepTarget
  <2>3. ~ReadIntent
    BY <1>2, <2>2, Zenon DEF ReadIntent, SeederPC
  <2>4. ~Commit /\ ~Tick /\ ~Wake
    BY <1>2, Zenon DEF Commit, Tick, Wake, SeederPC
  <2>5. ~EndListed /\ ~EndNamed
    BY DEF EndListed, EndNamed, SeederIdle
  <2>6. ~TakeNamed
    BY DEF TakeNamed, SeederIdle
  <2> QED
    BY <2>1, <2>3, <2>4, <2>5, <2>6
<1> QED
  BY <1>5, <1>6, <1>7, <1>8, <1>9, Zenon DEF SeederStep

LEMMA QueueRange ==
    ASSUME Inv, SeederStep
    PROVE  Range(seedNow') \subseteq Range(seedNow)
<1>1. seedNow \in Seq(Issuer \X Manifest)
  BY DEF Inv, LoopTypeOK
<1> QED
  BY <1>1, SeederLeaves, TailRange

\* A step of the loop that leaves the index alone.
LEMMA SeederConsiders ==
    ASSUME Inv, AtRest, SeederStep, UNCHANGED index
    PROVE  Promise!Consider
<1>1. UNCHANGED <<catalog, hearing, blocked, lists, pins, viewer, purger>>
  BY SeederLeaves DEF userVars
<1>2. /\ Heard' = Heard /\ Barred' = Barred /\ Purging' = Purging /\ KeptIn(index)' = KeptIn(index)
      /\ ViewerNamed' = ViewerNamed /\ ViewerBegun' = ViewerBegun
  BY <1>1, CustodyParts
<1>3. Named' \subseteq Named
  BY <1>2, SeederBegins, QueueRange DEF Named
<1>4. Begun' \subseteq Begun \cup Promise!Ground
  BY <1>2, SeederBegins DEF Begun, Promise!Ground
<1>5. Victim' \subseteq Listed \ pins
  BY VictimStep DEF Victim
<1> QED
  BY <1>1, <1>2, <1>3, <1>4, <1>5 DEF Promise!Consider

LEMMA CommitTakes ==
    ASSUME Inv, Commit, ~ContainsManifest(index, seeder.cid)
    PROVE  Promise!Take(seeder.issuer, seeder.cid) /\ seeder.issuer \in Issuer /\ seeder.cid \in Listed
<1>1. /\ seeder.pc = "insert" /\ seeder \in SeederState
      /\ seeder.cid \in Manifest /\ seeder.issuer \in Issuer
  BY DEF Commit, Inv, SeederInv, Attempting
<1>2. /\ seeder'.pc = "end" /\ seeder'.issuer = seeder.issuer /\ seeder'.cid = seeder.cid
      /\ seeder'.watched = seeder.watched /\ seeder'.cids = seeder.cids
  BY <1>1, GotoTarget DEF Commit, SeederPC
<1>3. UNCHANGED <<catalog, hearing, blocked, lists, pins, viewer, purger, seedNow>>
  BY DEF Commit, userVars, loopVars
<1>4. /\ Heard' = Heard /\ Barred' = Barred /\ Purging' = Purging
      /\ ViewerNamed' = ViewerNamed /\ ViewerBegun' = ViewerBegun
  BY <1>3, CustodyParts
<1>5. SeederNamed' = SeederNamed /\ Victim' = Victim
  BY <1>1, <1>2 DEF SeederNamed, Victim
<1>6. SeederBegun' \subseteq SeederBegun
  BY <1>2 DEF SeederBegun
<1>7. <<seeder.issuer, seeder.cid>> \in SeederBegun
  BY <1>1, NoneAssumption DEF SeederBegun, Cid
<1>8. index' = Insert(index, seeder.issuer, seeder.cid, Fetched)
  BY DEF Commit
<1>9. KeptIn(index)' = KeptIn(index) \cup {<<seeder.issuer, seeder.cid>>}
  BY <1>8, KeptOfInsert
<1>10. \A j \in Issuer : <<j, seeder.cid>> \notin KeptIn(index)
  BY DEF KeptIn, ContainsManifest
<1> QED
  BY <1>1, <1>3, <1>4, <1>5, <1>6, <1>7, <1>9, <1>10
     DEF Promise!Take, Promise!Forget, Named, Begun, Listed

LEMMA EvictDrops ==
    ASSUME Inv, Evict, ~UNCHANGED index
    PROVE  Promise!Drop
<1>1. seeder \in SeederState /\ index \subseteq Publication /\ IsFiniteSet(index)
  BY DEF Inv, SeederInv, SeedTypeOK
<1>2. PICK p \in EntriesOf(index, seeder.victim) :
          index' = Remove(index, {p}) /\ SweepThen(BlockSet(p.manifest), "loop")
  BY Zenon DEF Evict
<1>3. /\ seeder.pc = "evict"
      /\ UNCHANGED <<catalog, hearing, blocked, lists, pins, viewer, purger, seedNow>>
  BY DEF Evict, userVars, loopVars
<1>4. /\ seeder'.pc = "sweep" /\ seeder'.issuer = seeder.issuer /\ seeder'.cid = seeder.cid
      /\ seeder'.watched = seeder.watched /\ seeder'.cids = seeder.cids
  BY <1>1, <1>2, SweepTarget
<1>5. /\ Heard' = Heard /\ Barred' = Barred /\ Purging' = Purging
      /\ ViewerNamed' = ViewerNamed /\ ViewerBegun' = ViewerBegun
  BY <1>3, CustodyParts
<1>6. SeederNamed' = SeederNamed /\ SeederBegun' = SeederBegun /\ Victim' = {} /\ Victim = {seeder.victim}
  BY <1>3, <1>4 DEF SeederNamed, SeederBegun, Victim
<1>7. /\ KeptIn(index)' \subseteq KeptIn(index)
      /\ \A e \in KeptIn(index) \ KeptIn(index)' : e = <<p.issuer, p.manifest>>
  BY <1>1, <1>2, KeptOfRemove
<1>8. p.manifest = seeder.victim
  BY DEF EntriesOf
<1> QED
  BY <1>3, <1>5, <1>6, <1>7, <1>8 DEF Promise!Drop, Named, Begun

LEMMA SeederKeepsPromise ==
    ASSUME Inv, AtRest, SeederStep
    PROVE  Promise!Next
<1>1. CASE UNCHANGED index
  BY <1>1, SeederConsiders, PromiseSteps
<1>2. CASE Commit /\ ~UNCHANGED index
  <2>1. ~ContainsManifest(index, seeder.cid)
    BY <1>2, Zenon DEF Commit
  <2> QED
    BY <1>2, <2>1, CommitTakes, PromiseSteps
<1>3. CASE Evict /\ ~UNCHANGED index
  BY <1>3, EvictDrops, PromiseSteps
<1> QED
  BY <1>1, <1>2, <1>3, SeederLeavesIndex

-----------------------------------------------------------------------------
(* The foreground tasks keep the promise *)

LEMMA ViewerLeaves ==
    ASSUME NEW v \in Viewer, ViewerStep(v) \/ ViewerChoice(v)
    PROVE  /\ UNCHANGED <<catalog, hearing, blocked, lists, seeder, purger>>
           /\ ~RegisterDownload(v) /\ ~RegisterOwn(v) => UNCHANGED index
           /\ ~RegisterOwn(v) => UNCHANGED pins
<1>1. ViewRefused(v) \/ ViewAsk(v) \/ ViewDownload(v) \/ ViewJoin(v) \/ ViewNotFound(v)
        \/ IngestBlock(v) =>
          UNCHANGED <<catalog, hearing, blocked, lists, seeder, purger, index, pins>>
  BY Zenon DEF ViewRefused, ViewAsk, ViewDownload, ViewJoin, ViewNotFound, IngestBlock,
     userVars, seedVars
<1>2. FinishCall(v) \/ FinishStream(v) \/ FinishWatch(v) \/ ViewerSnapshot(v) \/ ViewerDelete(v)
        \/ CloseSettled(v) \/ CloseWatched(v) =>
          UNCHANGED <<catalog, hearing, blocked, lists, seeder, purger, index, pins>>
  BY Zenon DEF FinishCall, FinishStream, FinishWatch, ViewerSnapshot, ViewerDelete, CloseSettled,
     CloseWatched, userVars, seedVars
<1>3. /\ RegisterDownload(v) => UNCHANGED <<catalog, hearing, blocked, lists, seeder, purger, pins>>
      /\ RegisterOwn(v) => UNCHANGED <<catalog, hearing, blocked, lists, seeder, purger>>
  BY Zenon DEF RegisterDownload, RegisterOwn, userVars
<1>4. ASSUME NEW kind, NEW i, NEW m, Begin(v, kind, i, m)
      PROVE  UNCHANGED <<catalog, hearing, blocked, lists, seeder, purger, index, pins>>
  BY <1>4, Zenon DEF Begin, seedVars
<1>5. CASE \E m \in Manifest :
               \/ \E i \in Issuer, kind \in {"hls", "stream"} : ViewSubscribed(v, kind, i, m)
               \/ \E i \in Issuer : WatchOther(v, i, m)
               \/ Ingest(v, m)
  BY <1>4, <1>5, Zenon DEF ViewSubscribed, WatchOther, Ingest
<1> QED
  BY <1>1, <1>2, <1>3, <1>5, Zenon DEF ViewerStep, ViewerChoice

\* What a task begins is listed by a feed, or is own content.
LEMMA ViewerBegins ==
    ASSUME Inv, NEW v \in Viewer, ViewerStep(v) \/ ViewerChoice(v)
    PROVE  /\ ViewerNamed' \cap (Issuer \X Manifest) \subseteq ViewerNamed \cup Promise!Fed
           /\ ViewerBegun' \subseteq ViewerBegun \cup Promise!Fed \cup ({Self} \X Own)
<1> DEFINE named(w) == <<viewer'[w].issuer, viewer'[w].cid>>
           Begins(w) ==
               /\ viewer'[w].kind = "watch" =>
                      named(w) \in ViewerNamed \cup Promise!Fed \/ viewer'[w].issuer = NoIssuer
               /\ viewer'[w].kind \in {"hls", "ingest"} =>
                      named(w) \in ViewerBegun \cup Promise!Fed \cup ({Self} \X Own)
<1>1. Moves(v, viewer'[v]) /\ \A w \in Viewer \ {v} : viewer'[w] = viewer[w]
  BY MoveOf
<1>2. ASSUME NEW w \in Viewer, viewer'[w].kind = viewer[w].kind,
             viewer'[w].issuer = viewer[w].issuer, viewer'[w].cid = viewer[w].cid
      PROVE  Begins(w)
  BY <1>2 DEF ViewerNamed, ViewerBegun
<1>3. ASSUME viewer'[v] = ViewerIdle PROVE Begins(v)
  BY <1>3 DEF ViewerIdle
<1>4. ASSUME viewer'[v] = Sweeping(viewer[v].got) PROVE Begins(v)
  BY <1>4 DEF Sweeping, ViewerIdle
<1>5. ASSUME NEW kind \in Allowed, NEW i \in Issuer, NEW m \in Manifest,
             viewer'[v] = Beginning(kind, i, m),
             IF kind = "ingest" THEN i = Self /\ m \in Own ELSE m \in catalog[i]
      PROVE  Begins(v)
  <2>1. viewer'[v].kind = kind /\ named(v) = <<i, m>>
    BY <1>5 DEF Beginning, ViewerIdle
  <2>2. CASE kind = "ingest"
    BY <1>5, <2>1, <2>2
  <2>3. CASE kind # "ingest"
    BY <1>5, <2>1, <2>3 DEF Promise!Fed, Listed
  <2> QED
    BY <2>2, <2>3
<1>6. Begins(v)
  BY <1>1, <1>2, <1>3, <1>4, <1>5 DEF Moves
<1>7. \A w \in Viewer : Begins(w)
  BY <1>1, <1>2, <1>6
<1> QED
  BY <1>7, NoneAssumption DEF ViewerNamed, ViewerBegun

\* Only a watched session makes a request, and for what it watches.
LEMMA ViewerAsks ==
    ASSUME Inv, NEW v \in Viewer, ViewerStep(v) \/ ViewerChoice(v)
    PROVE  Range(seedNow') \subseteq Range(seedNow) \cup ViewerNamed
<1>1. seedNow \in Seq(Issuer \X Manifest)
  BY DEF Inv, LoopTypeOK
<1>2. ASSUME viewer[v].kind = "watch",
             seedNow' = Append(seedNow, <<viewer[v].issuer, viewer[v].cid>>)
      PROVE  Range(seedNow') \subseteq Range(seedNow) \cup ViewerNamed
  BY <1>1, <1>2, AppendRange DEF ViewerNamed
<1>3. CASE FinishWatch(v) \/ CloseWatched(v)
  BY <1>2, <1>3, Zenon DEF FinishWatch, CloseWatched
<1>4. ASSUME NEW kind, NEW i, NEW m, Begin(v, kind, i, m)
      PROVE  UNCHANGED seedNow
  BY <1>4, Zenon DEF Begin, loopVars
<1>5. CASE \E m \in Manifest :
               \/ \E i \in Issuer, kind \in {"hls", "stream"} : ViewSubscribed(v, kind, i, m)
               \/ \E i \in Issuer : WatchOther(v, i, m)
               \/ Ingest(v, m)
  BY <1>4, <1>5, Zenon DEF ViewSubscribed, WatchOther, Ingest
<1>6. CASE \/ ViewRefused(v) \/ ViewAsk(v) \/ ViewDownload(v) \/ ViewJoin(v) \/ ViewNotFound(v)
           \/ IngestBlock(v) \/ FinishCall(v) \/ FinishStream(v)
           \/ RegisterDownload(v) \/ RegisterOwn(v) \/ ViewerSnapshot(v) \/ ViewerDelete(v)
           \/ CloseSettled(v)
  BY <1>6, Zenon DEF ViewRefused, ViewAsk, ViewDownload, ViewJoin, ViewNotFound, IngestBlock,
     FinishCall, FinishStream, RegisterDownload, RegisterOwn, ViewerSnapshot, ViewerDelete,
     CloseSettled, loopVars
<1> QED
  BY <1>3, <1>5, <1>6, Zenon DEF ViewerStep, ViewerChoice

LEMMA ViewerConsiders ==
    ASSUME Inv, NEW v \in Viewer, ViewerStep(v) \/ ViewerChoice(v), UNCHANGED <<index, pins>>
    PROVE  Promise!Consider
<1>1. UNCHANGED <<catalog, hearing, blocked, lists, seeder, purger>>
  BY ViewerLeaves
<1>2. /\ Heard' = Heard /\ Barred' = Barred /\ Purging' = Purging /\ KeptIn(index)' = KeptIn(index)
      /\ SeederNamed' = SeederNamed /\ SeederBegun' = SeederBegun /\ Victim' = Victim
  BY <1>1, CustodyParts
<1>3. Named' \subseteq Named \cup Promise!Fed
  BY <1>2, ViewerBegins, ViewerAsks DEF Named
<1>4. Begun' \subseteq Begun \cup Promise!Ground
  BY <1>2, ViewerBegins DEF Begun, Promise!Ground
<1> QED
  BY <1>1, <1>2, <1>3, <1>4 DEF Promise!Consider

\* The end of a task that indexes what it has fetched.
LEMMA RegisterForgets ==
    ASSUME Inv, NEW v \in Viewer, SetViewer(v, ViewerIdle), UNCHANGED <<seeder, seedNow>>
    PROVE  Promise!Forget
<1>1. viewer \in [Viewer -> ViewerState]
  BY DEF Inv, ViewerInv
<1>2. \A w \in Viewer : viewer'[w] = viewer[w] \/ viewer'[w].kind = "none"
  BY <1>1 DEF SetViewer, ViewerIdle
<1>3. ViewerNamed' \subseteq ViewerNamed /\ ViewerBegun' \subseteq ViewerBegun
  BY <1>2 DEF ViewerNamed, ViewerBegun
<1>4. SeederNamed' = SeederNamed /\ SeederBegun' = SeederBegun
  BY CustodyParts
<1> QED
  BY <1>3, <1>4 DEF Promise!Forget, Named, Begun

LEMMA RegisterTakes ==
    ASSUME Inv, NEW v \in Viewer, RegisterDownload(v) \/ RegisterOwn(v),
           ~ContainsManifest(index, viewer[v].cid)
    PROVE  /\ Promise!Take(viewer[v].issuer, viewer[v].cid)
           /\ viewer[v].issuer \in Issuer /\ viewer[v].cid \in Listed
<1> DEFINE i == viewer[v].issuer
           m == viewer[v].cid
<1>1. /\ viewer[v].pc = "register" /\ viewer[v].kind \in {"hls", "ingest"}
      /\ SetViewer(v, ViewerIdle) /\ UNCHANGED <<catalog, hearing, blocked, lists, seeder, purger, seedNow>>
  BY Zenon DEF RegisterDownload, RegisterOwn, userVars, loopVars
<1>2. i \in Issuer /\ m \in Listed /\ (viewer[v].kind = "ingest" => i = Self)
  BY <1>1 DEF Inv, ViewerInv, Listed
<1>3. <<i, m>> \in Begun
  BY <1>1 DEF Begun, ViewerBegun
<1>4. Promise!Forget
  BY <1>1, RegisterForgets
<1>5. Heard' = Heard /\ Barred' = Barred /\ Purging' = Purging /\ Victim' = Victim
  BY <1>1, CustodyParts
<1>6. \A j \in Issuer : <<j, m>> \notin KeptIn(index)
  BY DEF KeptIn, ContainsManifest
<1>7. \E blocks : index' = Insert(index, i, m, blocks)
  BY <1>2, Zenon DEF RegisterDownload, RegisterOwn
<1>8. KeptIn(index)' = KeptIn(index) \cup {<<i, m>>}
  BY <1>7, KeptOfInsert
<1>9. pins' \in {pins, pins \cup (IF i = Self THEN {m} ELSE {})}
  <2>1. CASE RegisterDownload(v)
    BY <2>1 DEF RegisterDownload
  <2>2. CASE RegisterOwn(v)
    BY <1>2, <2>2 DEF RegisterOwn
  <2> QED
    BY <2>1, <2>2
<1> QED
  BY <1>1, <1>2, <1>3, <1>4, <1>5, <1>6, <1>8, <1>9 DEF Promise!Take

LEMMA ViewerKeepsPromise ==
    ASSUME Inv, NEW v \in Viewer, ViewerStep(v) \/ ViewerChoice(v)
    PROVE  Promise!Next
<1>1. CASE UNCHANGED <<index, pins>>
  BY <1>1, ViewerConsiders, PromiseSteps
<1>2. CASE (RegisterDownload(v) \/ RegisterOwn(v)) /\ ~ContainsManifest(index, viewer[v].cid)
  BY <1>2, RegisterTakes, PromiseSteps
<1>3. CASE RegisterOwn(v) /\ ContainsManifest(index, viewer[v].cid)
  <2>1. /\ viewer[v].pc = "register" /\ index' = index /\ pins' = pins \cup {viewer[v].cid}
        /\ SetViewer(v, ViewerIdle) /\ UNCHANGED <<catalog, hearing, blocked, lists, seeder, purger, seedNow>>
    BY <1>3, Zenon DEF RegisterOwn, userVars, loopVars
  <2>2. viewer[v].cid \in Listed
    BY <2>1 DEF Inv, ViewerInv, Listed
  <2>3. Promise!Forget
    BY <2>1, RegisterForgets
  <2>4. Heard' = Heard /\ Barred' = Barred /\ Purging' = Purging /\ Victim' = Victim /\ KeptIn(index)' = KeptIn(index)
    BY <2>1, CustodyParts
  <2>5. Promise!Pin(viewer[v].cid)
    BY <2>1, <2>3, <2>4 DEF Promise!Pin
  <2> QED
    BY <2>2, <2>5, PromiseSteps
<1>4. CASE RegisterDownload(v) /\ ContainsManifest(index, viewer[v].cid)
  BY <1>1, <1>4, Zenon DEF RegisterDownload
<1>5. CASE ~RegisterDownload(v) /\ ~RegisterOwn(v)
  BY <1>1, <1>5, ViewerLeaves
<1> QED
  BY <1>2, <1>3, <1>4, <1>5

-----------------------------------------------------------------------------
(* The purges keep the promise *)

\* One task turns to other issuers, those of B.
LEMMA OnePurges ==
    ASSUME NEW u \in Purger, NEW B, \A w \in Purger \ {u} : purger'[w] = purger[w],
           \A i \in Issuer : PurgesFor(purger'[u], i) => PurgesFor(purger[u], i) \/ i \in B
    PROVE  Purging' \subseteq Purging \cup B
BY DEF Purging

\* It is through with its issuers, or goes on.
LEMMA PurgeEnds ==
    ASSUME NEW t, t.kind \notin {"block", "denylist"} \/ (t.issuer = NoIssuer /\ t.entries = {})
    PROVE  \A i \in Issuer : ~PurgesFor(t, i)
BY NoneAssumption DEF PurgesFor

LEMMA PurgeGoesOn ==
    ASSUME NEW s, NEW t, t.kind = s.kind, t.issuer = s.issuer, t.entries = s.entries
    PROVE  \A i \in Issuer : PurgesFor(t, i) <=> PurgesFor(s, i)
BY DEF PurgesFor

\* The steps of a purge that leave the catalog and the index alone.
LEMMA PurgerPurges ==
    ASSUME Inv, NEW u \in Purger, PurgerStep(u), ~PurgeCatalog(u), ~PurgeIndex(u)
    PROVE  Purging' \subseteq Purging \cup Barred
<1> DEFINE On == \A i \in Issuer : PurgesFor(purger'[u], i) => PurgesFor(purger[u], i) \/ i \in Barred
           Others == \A w \in Purger \ {u} : purger'[w] = purger[w]
<1> SUFFICES On /\ Others
  BY OnePurges
<1>1. purger \in [Purger -> PurgerState] /\ purger[u] \in PurgerState
  BY DEF Inv, PurgerInv
<1>2. ASSUME NEW t, purger' = [purger EXCEPT ![u] = t]
      PROVE  purger'[u] = t /\ Others
  BY <1>1, <1>2
<1>3. ASSUME purger' = [purger EXCEPT ![u] = PurgerIdle]
      PROVE  On /\ Others
  BY <1>2, <1>3, PurgeEnds DEF PurgerIdle
<1>4. ASSUME Others, purger'[u].kind = purger[u].kind, purger'[u].issuer = purger[u].issuer,
             purger'[u].entries = purger[u].entries
      PROVE  On /\ Others
  BY <1>4, PurgeGoesOn
<1>5. CASE BlockSubs(u)
  <2> DEFINE e == [issuer |-> purger[u].issuer, cids |-> catalog[purger[u].issuer]]
  <2>1. purger' = [purger EXCEPT ![u].pc = "next", ![u].entries = {e}]
    BY <1>5 DEF BlockSubs
  <2>2. e.issuer = purger[u].issuer
    OBVIOUS
  <2> HIDE DEF e
  <2>3. /\ purger'[u].kind = purger[u].kind /\ purger'[u].issuer = purger[u].issuer
        /\ purger'[u].entries = {e} /\ Others
    BY <1>1, <2>1 DEF PurgerState
  <2> QED
    BY <2>2, <2>3 DEF PurgesFor
<1>6. CASE SelectBlocked(u)
  <2> DEFINE pc == IF {i \in Issuer : catalog[i] # {} /\ KeyBlocked(i)} = {} THEN "cids" ELSE "next"
             E == {[issuer |-> i, cids |-> catalog[i]] :
                       i \in {i \in Issuer : catalog[i] # {} /\ KeyBlocked(i)}}
  <2>1. purger' = [purger EXCEPT ![u].pc = pc, ![u].entries = E]
    BY <1>6 DEF SelectBlocked
  <2>2. \A e \in E : e.issuer \in Barred
    BY DEF Barred
  <2> HIDE DEF pc, E
  <2>3. /\ purger'[u].kind = purger[u].kind /\ purger'[u].issuer = purger[u].issuer
        /\ purger'[u].entries = E /\ Others
    BY <1>1, <2>1 DEF PurgerState
  <2> QED
    BY <2>2, <2>3 DEF PurgesFor
<1>7. CASE ReadRemaining(u) \/ StopProviding(u) \/ PurgerSnapshot(u) \/ PurgeCids(u)
  <2>1. CASE ReadRemaining(u)
    <3>1. purger' = [purger EXCEPT ![u].pc = "stop", ![u].keep = AllCids(index)]
      BY <2>1 DEF ReadRemaining
    <3> QED
      BY <1>1, <1>4, <3>1 DEF PurgerState
  <2>3. CASE StopProviding(u)
    BY <1>1, <1>4, <2>3 DEF StopProviding, PurgerGoto, PurgerState
  <2>4. CASE PurgerSnapshot(u)
    <3>1. purger' = [purger EXCEPT ![u].pc = "delete", ![u].keep = AllCids(index)]
      BY <2>4 DEF PurgerSnapshot
    <3> QED
      BY <1>1, <1>4, <3>1 DEF PurgerState
  <2>5. CASE PurgeCids(u)
    <3>1. purger' = [purger EXCEPT ![u].pc = "withdraw", ![u].sweep = store \cap BannedCids]
      BY <2>5 DEF PurgeCids
    <3> QED
      BY <1>1, <1>4, <3>1 DEF PurgerState
  <2> QED
    BY <1>7, <2>1, <2>3, <2>4, <2>5
<1>8. CASE PurgerDelete(u)
  <2>1. \/ purger' = [purger EXCEPT ![u] = PurgerIdle]
        \/ purger' = [purger EXCEPT ![u].pc = "next", ![u].sweep = {}, ![u].keep = {}]
    BY <1>8 DEF PurgerDelete
  <2>2. CASE purger' = [purger EXCEPT ![u].pc = "next", ![u].sweep = {}, ![u].keep = {}]
    BY <1>1, <1>4, <2>2 DEF PurgerState
  <2> QED
    BY <1>3, <2>1, <2>2
<1>9. CASE PurgedEntries(u)
  <2> DEFINE t == [PurgerIdle EXCEPT !.pc = "cids", !.kind = "denylist"]
  <2>1. purger' = [purger EXCEPT ![u] = PurgerIdle] \/ purger' = [purger EXCEPT ![u] = t]
    BY <1>9 DEF PurgedEntries
  <2>2. t.issuer = NoIssuer /\ t.entries = {}
    BY DEF PurgerIdle
  <2> HIDE DEF t
  <2>3. CASE purger' = [purger EXCEPT ![u] = t]
    BY <1>2, <2>2, <2>3, PurgeEnds
  <2> QED
    BY <1>3, <2>1, <2>3
<1>10. CASE WithdrawCids(u)
  BY <1>3, <1>10 DEF WithdrawCids
<1> QED
  BY <1>5, <1>6, <1>7, <1>8, <1>9, <1>10, Zenon DEF PurgerStep

LEMMA PurgeCatalogWithdraws ==
    ASSUME Inv, NEW u \in Purger, PurgeCatalog(u)
    PROVE  \E i \in Issuer : Promise!Withdraw(i)
<1>1. purger \in [Purger -> PurgerState] /\ purger[u] \in PurgerState
  BY DEF Inv, PurgerInv
<1>2. PICK e \in purger[u].entries :
          /\ catalog' = [catalog EXCEPT ![e.issuer] = {}]
          /\ purger' = [purger EXCEPT ![u].pc = "index", ![u].issuer = e.issuer,
                                      ![u].cids = e.cids, ![u].entries = @ \ {e}]
  BY Zenon DEF PurgeCatalog
<1>3. purger[u].pc = "next" /\ UNCHANGED <<hearing, blocked, lists, pins, index, seedNow, seeder, viewer>>
  BY Zenon DEF PurgeCatalog, seedVars, loopVars
<1>4. e.issuer \in Issuer
  BY <1>1 DEF PurgerState, CatalogEntry
<1>5. purger[u].kind \in {"block", "denylist"}
  BY <1>1, <1>3 DEF Inv, PurgerInv, PurgerState
<1>6. e.issuer \in Purging
  BY <1>4, <1>5 DEF Purging, PurgesFor
<1>7. /\ purger'[u].kind = purger[u].kind /\ purger'[u].issuer = e.issuer
      /\ purger'[u].entries \subseteq purger[u].entries
      /\ \A w \in Purger \ {u} : purger'[w] = purger[w]
  BY <1>1, <1>2 DEF PurgerState
<1>8. \A i \in Issuer : PurgesFor(purger'[u], i) => PurgesFor(purger[u], i)
  BY <1>5, <1>7 DEF PurgesFor
<1>9. Purging' \subseteq Purging
  BY <1>7, <1>8, OnePurges
<1>10. /\ Heard' = Heard /\ Barred' = Barred /\ Named' = Named /\ Begun' = Begun /\ Victim' = Victim
       /\ KeptIn(index)' = KeptIn(index)
  BY <1>3, CustodyParts
<1>11. Promise!Withdraw(e.issuer)
  BY <1>2, <1>3, <1>6, <1>9, <1>10 DEF Promise!Withdraw
<1> QED
  BY <1>4, <1>11

LEMMA PurgeIndexDrops ==
    ASSUME Inv, NEW u \in Purger, PurgeIndex(u)
    PROVE  Promise!Drop
<1> DEFINE gone == Purged(index, pins, purger[u].issuer, KeepPinned(purger[u].kind))
           blocks == (UNION {BlockSet(p.manifest) : p \in gone}) \cup purger[u].cids
           pc == IF purger[u].kind = "unsubscribe" THEN "sweep" ELSE "remaining"
<1>1. /\ purger \in [Purger -> PurgerState] /\ purger[u] \in PurgerState
      /\ index \subseteq Publication /\ IsFiniteSet(index)
  BY DEF Inv, PurgerInv, SeedTypeOK
<1>2. /\ purger[u].pc = "index" /\ index' = Remove(index, gone)
      /\ UNCHANGED <<catalog, hearing, blocked, lists, pins, seedNow, seeder, viewer>>
      /\ \/ purger[u].kind = "unsubscribe" /\ purger' = [purger EXCEPT ![u] = PurgerIdle]
         \/ purger' = [purger EXCEPT ![u].sweep = blocks, ![u].cids = {}, ![u].pc = pc]
  BY Zenon DEF PurgeIndex, userVars
<1>3. \A p \in gone : p.issuer = purger[u].issuer /\ p.issuer \in Issuer
  BY <1>1 DEF Purged, Publication
<1>4. \A p \in gone : purger[u].kind = "unsubscribe" => p.manifest \notin pins
  BY DEF Purged, KeepPinned
<1> HIDE DEF gone, blocks, pc
<1>5. /\ \A w \in Purger \ {u} : purger'[w] = purger[w]
      /\ \A i \in Issuer : PurgesFor(purger'[u], i) <=> PurgesFor(purger[u], i)
  <2>1. CASE purger[u].kind = "unsubscribe" /\ purger' = [purger EXCEPT ![u] = PurgerIdle]
    <3>1. purger'[u].kind = "none" /\ \A w \in Purger \ {u} : purger'[w] = purger[w]
      BY <1>1, <2>1 DEF PurgerIdle
    <3> QED
      BY <2>1, <3>1 DEF PurgesFor
  <2>2. CASE purger' = [purger EXCEPT ![u].sweep = blocks, ![u].cids = {}, ![u].pc = pc]
    <3>1. /\ purger'[u].kind = purger[u].kind /\ purger'[u].issuer = purger[u].issuer
          /\ purger'[u].entries = purger[u].entries
          /\ \A w \in Purger \ {u} : purger'[w] = purger[w]
      BY <1>1, <2>2 DEF PurgerState
    <3> QED
      BY <3>1, PurgeGoesOn
  <2> QED
    BY <1>2, <2>1, <2>2
<1>6. Purging' = Purging
  BY <1>5 DEF Purging
<1>7. purger[u].kind \in {"unsubscribe", "block", "denylist"}
  BY <1>1, <1>2 DEF Inv, PurgerInv, PurgerState
<1>8. \A p \in gone : p.manifest \notin pins \/ p.issuer \in Purging
  BY <1>3, <1>4, <1>7 DEF Purging, PurgesFor
<1>9. /\ KeptIn(index)' \subseteq KeptIn(index)
      /\ \A e \in KeptIn(index) \ KeptIn(index)' : \E p \in gone : e = <<p.issuer, p.manifest>>
  BY <1>1, <1>2, KeptOfRemove
<1>10. Heard' = Heard /\ Barred' = Barred /\ Named' = Named /\ Begun' = Begun /\ Victim' = Victim
  BY <1>2, CustodyParts
<1> QED
  BY <1>2, <1>6, <1>8, <1>9, <1>10 DEF Promise!Drop

LEMMA PurgerKeepsPromise ==
    ASSUME Inv, NEW u \in Purger, PurgerStep(u)
    PROVE  Promise!Next
<1>1. CASE PurgeCatalog(u)
  BY <1>1, PurgeCatalogWithdraws, PromiseSteps
<1>2. CASE PurgeIndex(u)
  BY <1>2, PurgeIndexDrops, PromiseSteps
<1>3. CASE ~PurgeCatalog(u) /\ ~PurgeIndex(u)
  <2>1. UNCHANGED <<catalog, hearing, blocked, lists, pins, index, seedNow, seeder, viewer>>
    BY <1>3, Zenon DEF PurgerStep, BlockSubs, SelectBlocked, ReadRemaining, StopProviding,
       PurgerSnapshot, PurgerDelete, PurgedEntries, PurgeCids, WithdrawCids, userVars, seedVars,
       loopVars
  <2>2. Barred' = Barred
    BY <2>1, CustodyParts
  <2>3. Purging' \subseteq Purging \cup Barred'
    BY <1>3, <2>2, PurgerPurges
  <2> QED
    BY <2>1, <2>3, OnlyJudged, PromiseSteps
<1> QED
  BY <1>1, <1>2, <1>3

-----------------------------------------------------------------------------
(* So do the operations of the user, and the node with them *)

LEMMA UserKeepsPromise ==
    ASSUME Inv, UserStep
    PROVE  Promise!Next
<1>1. ASSUME NEW i \in Issuer, NEW f \in Feeds[i], FeedChecked(i, f)
      PROVE  Promise!Hear(i)
  <2>1. /\ ~KeyBlocked(i) /\ hearing' = hearing \cup {<<i, f>>}
        /\ UNCHANGED <<catalog, blocked, lists, pins, index, seedNow, seeder, viewer, purger>>
    BY <1>1, Zenon DEF FeedChecked, seedVars, loopVars, taskVars
  <2>2. Heard' = Heard \cup {i}
    <3> DEFINE h == <<i, f>>
    <3>1. h[1] = i /\ hearing' = hearing \cup {h}
      BY <2>1
    <3> HIDE DEF h
    <3> QED
      BY <3>1, Zenon DEF Heard
  <2>3. i \notin Barred
    BY <2>1 DEF Barred
  <2>4. /\ Barred' = Barred /\ Named' = Named /\ Begun' = Begun /\ Victim' = Victim
        /\ Purging' = Purging /\ KeptIn(index)' = KeptIn(index)
    BY <2>1, CustodyParts
  <2> QED
    BY <2>1, <2>2, <2>3, <2>4 DEF Promise!Hear
<1>2. ASSUME NEW m \in Manifest, Pin(m) \/ Unpin(m)
      PROVE  Promise!Pin(m) /\ m \in Listed
  <2>1. /\ pins' \in {pins \cup {m}, pins \ {m}}
        /\ UNCHANGED <<catalog, hearing, blocked, lists, index, seedNow, seeder, viewer, purger>>
    BY <1>2 DEF Pin, Unpin, loopVars, taskVars
  <2>2. /\ Heard' = Heard /\ Barred' = Barred /\ Named' = Named /\ Begun' = Begun /\ Victim' = Victim
        /\ Purging' = Purging /\ KeptIn(index)' = KeptIn(index)
    BY <2>1, CustodyParts
  <2> QED
    BY <2>1, <2>2 DEF Promise!Pin, Promise!Forget, Listed
<1>3. ASSUME NEW i \in Issuer, SubscribeCheck(i) \/ Unblock(i)
      PROVE  Promise!Judge
  BY <1>3, NothingJudged, Zenon DEF SubscribeCheck, Unblock, seedVars, loopVars, taskVars
<1>4. ASSUME \/ \E q \in Quotas : SetQuota(q)
             \/ \E l \in Lists : LiftList(l)
      PROVE  Promise!Judge
  BY <1>4, NothingJudged, Zenon DEF SetQuota, LiftList, seedVars, loopVars, taskVars
<1>5. ASSUME NEW u \in Purger, NEW i \in Issuer, Unsubscribe(u, i) \/ BlockChannel(u, i)
      PROVE  Promise!Judge
  <2> DEFINE t == [PurgerIdle EXCEPT !.pc = "index", !.kind = "unsubscribe", !.issuer = i]
             s == [PurgerIdle EXCEPT !.pc = "subs", !.kind = "block", !.issuer = i]
  <2>1. purger \in [Purger -> PurgerState]
    BY DEF Inv, PurgerInv
  <2>2. UNCHANGED <<catalog, hearing, pins, index, seedNow, seeder, viewer>>
    BY <1>5, Zenon DEF Unsubscribe, BlockChannel, seedVars, loopVars
  <2>3. \/ purger' = [purger EXCEPT ![u] = t]
        \/ purger' = [purger EXCEPT ![u] = s] /\ blocked' = blocked \cup {i}
    BY <1>5, Zenon DEF Unsubscribe, BlockChannel
  <2>4. t.kind = "unsubscribe" /\ s.issuer = i /\ s.entries = {}
    BY DEF PurgerIdle
  <2> HIDE DEF t, s
  <2>5. CASE purger' = [purger EXCEPT ![u] = t]
    <3>1. purger'[u] = t /\ \A w \in Purger \ {u} : purger'[w] = purger[w]
      BY <2>1, <2>5
    <3>2. \A j \in Issuer : ~PurgesFor(t, j)
      BY <2>4, PurgeEnds
    <3>3. Purging' \subseteq Purging \cup Barred'
      BY <3>1, <3>2, OnePurges
    <3> QED
      BY <2>2, <3>3, OnlyJudged
  <2>6. CASE purger' = [purger EXCEPT ![u] = s] /\ blocked' = blocked \cup {i}
    <3>1. purger'[u] = s /\ \A w \in Purger \ {u} : purger'[w] = purger[w]
      BY <2>1, <2>6
    <3>2. i \in Barred'
      BY <2>6 DEF Barred, KeyBlocked
    <3>3. \A j \in Issuer : PurgesFor(s, j) => j \in Barred'
      BY <2>4, <3>2 DEF PurgesFor
    <3>4. Purging' \subseteq Purging \cup Barred'
      BY <3>1, <3>3, OnePurges
    <3> QED
      BY <2>2, <3>4, OnlyJudged
  <2> QED
    BY <2>3, <2>5, <2>6
<1>6. ASSUME NEW u \in Purger, NEW l \in Lists, ApplyList(u, l)
      PROVE  Promise!Judge
  <2> DEFINE t == [PurgerIdle EXCEPT !.pc = "select", !.kind = "denylist"]
  <2>1. purger \in [Purger -> PurgerState]
    BY DEF Inv, PurgerInv
  <2>2. /\ UNCHANGED <<catalog, hearing, pins, index, seedNow, seeder, viewer>>
        /\ purger' = [purger EXCEPT ![u] = t]
    BY <1>6, Zenon DEF ApplyList, seedVars, loopVars
  <2>3. t.issuer = NoIssuer /\ t.entries = {}
    BY DEF PurgerIdle
  <2> HIDE DEF t
  <2>4. purger'[u] = t /\ \A w \in Purger \ {u} : purger'[w] = purger[w]
    BY <2>1, <2>2
  <2>5. Purging' \subseteq Purging \cup Barred'
    BY <2>3, <2>4, PurgeEnds, OnePurges
  <2> QED
    BY <2>2, <2>5, OnlyJudged
<1>7. ASSUME NEW i \in Issuer, SubscribeCheck(i) \/ Unblock(i) \/ \E f \in Feeds[i] : FeedChecked(i, f)
      PROVE  Promise!Next
  BY <1>1, <1>3, <1>7, PromiseSteps, Zenon
<1>8. ASSUME NEW m \in Manifest, Pin(m) \/ Unpin(m)
      PROVE  Promise!Next
  BY <1>2, <1>8, PromiseSteps
<1>9. ASSUME NEW u \in Purger,
             \/ \E i \in Issuer : Unsubscribe(u, i) \/ BlockChannel(u, i)
             \/ \E l \in Lists : ApplyList(u, l)
      PROVE  Promise!Next
  BY <1>5, <1>6, <1>9, PromiseSteps
<1> QED
  BY <1>4, <1>7, <1>8, <1>9, PromiseSteps, Zenon DEF UserStep

\* A feed that was let in comes to the catalog, or does not.
LEMMA FeedOffers ==
    ASSUME Inv, NEW i \in Issuer, FeedStep(i)
    PROVE  Promise!Offer(i)
<1>1. PICK f \in Feeds[i] : FeedApplied(i, f) \/ FeedDropped(i, f)
  BY DEF FeedStep
<1>2. /\ <<i, f>> \in hearing /\ hearing' = hearing \ {<<i, f>>}
      /\ catalog' = [catalog EXCEPT ![i] = f] \/ UNCHANGED catalog
      /\ UNCHANGED <<blocked, lists, pins, index, seedNow, seeder, viewer, purger>>
  BY <1>1, Zenon DEF FeedApplied, FeedDropped, seedVars, loopVars, taskVars
<1>3. catalog' = [catalog EXCEPT ![i] = catalog'[i]]
  BY <1>2 DEF Inv, UserTypeOK
<1>4. i \in Heard
  BY <1>2 DEF Heard
<1>5. Heard' \in {Heard, Heard \ {i}}
  <2>1. \A h \in hearing : h = <<i, f>> \/ h \in hearing'
    BY <1>2
  <2>2. Heard' \subseteq Heard /\ Heard \ {i} \subseteq Heard'
    BY <1>2, <2>1 DEF Heard
  <2> QED
    BY <1>4, <2>2
<1>6. /\ Barred' = Barred /\ Named' = Named /\ Begun' = Begun /\ Victim' = Victim
      /\ Purging' = Purging /\ KeptIn(index)' = KeptIn(index)
  BY <1>2, CustodyParts
<1> QED
  BY <1>2, <1>3, <1>4, <1>5, <1>6 DEF Promise!Offer

\* Tasks that have nothing to do.
LEMMA InitCustody == Init => Promise!Init
<1> SUFFICES ASSUME Init
             PROVE  Promise!Init
  OBVIOUS
<1>1. Heard = {} /\ Barred = {} /\ KeptIn(index) = {}
  BY DEF Init, Heard, Barred, KeyBlocked, BannedKeys, KeptIn
<1>2. SeederNamed = {} /\ SeederBegun = {} /\ Victim = {}
  BY DEF Init, SeederIdle, SeederNamed, SeederBegun, Victim
<1>3. ViewerNamed = {} /\ ViewerBegun = {}
  BY DEF Init, ViewerIdle, ViewerNamed, ViewerBegun
<1>4. Purging = {}
  BY DEF Init, PurgerIdle, Purging, PurgesFor
<1>5. Range(seedNow) = {}
  BY DEF Init, Range
<1> QED
  BY <1>1, <1>2, <1>3, <1>4, <1>5 DEF Init, Promise!Init, Named, Begun

LEMMA RestartKeepsPromise ==
    ASSUME Restart
    PROVE  Promise!Restart
<1>1. Heard' = {} /\ Barred' = Barred /\ KeptIn(index)' = KeptIn(index)
  BY CustodyParts DEF Restart, Heard
<1>2. SeederNamed' = {} /\ SeederBegun' = {} /\ Victim' = {}
  BY DEF Restart, SeederIdle, SeederNamed, SeederBegun, Victim
<1>3. ViewerNamed' = {} /\ ViewerBegun' = {}
  BY DEF Restart, ViewerIdle, ViewerNamed, ViewerBegun
<1>4. Purging' = {}
  BY DEF Restart, PurgerIdle, Purging, PurgesFor
<1>5. Range(seedNow') = {}
  BY DEF Restart, Range
<1> QED
  BY <1>1, <1>2, <1>3, <1>4, <1>5 DEF Restart, Promise!Restart, Named, Begun

LEMMA CustodyStep ==
    ASSUME Inv, AtRest, [Next]_vars
    PROVE  [Promise!Next]_(Promise!vars)
<1>1. CASE TaskStep
  <2>1. CASE \E i \in Issuer : SubscribeRecord(i)
    BY <2>1, NothingJudged, PromiseSteps, Zenon DEF SubscribeRecord, seedVars, loopVars, taskVars
  <2>2. CASE \E i \in Issuer : FeedStep(i)
    BY <2>2, FeedOffers, PromiseSteps
  <2> QED
    BY <1>1, <2>1, <2>2, SeederKeepsPromise, PurgerKeepsPromise, ViewerKeepsPromise, Zenon DEF TaskStep
<1>2. CASE UserStep
  BY <1>2, UserKeepsPromise
<1>3. CASE \E v \in Viewer : ViewerChoice(v)
  BY <1>3, ViewerKeepsPromise
<1>4. CASE Reprovide \/ UNCHANGED vars
  BY <1>4, NothingJudged, PromiseSteps, Zenon
     DEF Reprovide, vars, userVars, seedVars, loopVars, taskVars
<1>5. CASE Restart
  BY <1>5, RestartKeepsPromise, PromiseSteps
<1> QED
  BY <1>1, <1>2, <1>3, <1>4, <1>5, Zenon DEF Next

\* The node implements Custody: whatever its tasks, its user and its peers do, and in
\* whatever order, it takes and drops publications only on the grounds stated there
\* (seed_pass, seed_still_wanted, fetch_hls, eviction_order, purge_issuer).
THEOREM NodeKeepsPromise == Spec => ImplementsCustody
<1>1. Inv /\ AtRest /\ [Next]_vars => [Promise!Next]_(Promise!vars)
  BY CustodyStep
<1> QED
  BY <1>1, InitCustody, InvHolds, AtRestHolds, PTL DEF Spec, ImplementsCustody, Promise!Spec
=============================================================================
