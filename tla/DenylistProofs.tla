---------------------------- MODULE DenylistProofs ----------------------------
(***************************************************************************)
(* Theorems about Denylist, for every set of editors, of storers and of    *)
(* tasks, and every bound.                                                 *)
(***************************************************************************)
EXTENDS Denylist, TLAPS

-----------------------------------------------------------------------------
(* What the invariants need of one worker *)

\* The list in hand is one; the editor is there wherever a step uses it; only an
\* unfollowing lifts a list, and never that of the project.
WorkerInv(w) ==
    /\ w.pc \in {"register", "trust", "retrust", "ask", "check", "apply", "cache", "purge",
                 "uncache", "lift"} => w.editor \in Editor
    /\ w.pc \in {"check", "apply", "cache"} => w.list > 0
    /\ w.kind = "list" => w.list > 0
    /\ w.pc \in {"uncache", "lift"} => w.kind = "unfollow"
    /\ w.kind = "unfollow" => w.editor \notin Project

\* A worker that will write the list it applied to the cache.
WillCache(w) ==
    \/ w.pc = "cache"
    \/ w.kind = "list" /\ w.newer /\ w.pc \in {"register", "trust", "retrust", "purge"}

\* What is in force of the project is in the cache, or on its way there, or given up.
Cached ==
    \A e \in Project :
        inForce[e] > 0 =>
            \/ cache[e] > 0 \/ e \in uncached
            \/ \E t \in Worker : task[t].editor = e /\ WillCache(task[t])

Inv ==
    /\ TypeOK
    /\ Project \subseteq editors
    /\ \A t \in Worker : WorkerInv(task[t])
    /\ Cached

USE DEF Lists, Seq

-----------------------------------------------------------------------------
(* Shapes of a step of a worker *)

LEMMA IdleType == Idle \in TaskState /\ WorkerInv(Idle) /\ ~ WillCache(Idle)
  BY EditorAssumption, BoundAssumption DEF Call, Idle, TaskState, WorkerInv, WillCache

\* A worker that has finished is as good as idle.
LEMMA FinishType ==
  ASSUME Inv, NEW t \in Worker, Finish(t)
  PROVE  /\ task' \in [Worker -> TaskState]
         /\ \A u \in Worker : WorkerInv(task'[u])
         /\ \A u \in Worker : u # t => task'[u] = task[u]
         /\ ~ WillCache(task'[t])
<1>1. task \in [Worker -> TaskState] /\ \A u \in Worker : WorkerInv(task[u])
  BY DEF Inv, TypeOK
<1>2. task[t].todo \in SUBSET Editor
  BY <1>1 DEF TaskState
<1> DEFINE w == [Idle EXCEPT !.pc = IF t = Loop THEN "next" ELSE "idle",
                             !.todo = task[t].todo]
<1>3. w \in TaskState /\ WorkerInv(w) /\ ~ WillCache(w)
  BY <1>2, IdleType DEF Call, Idle, TaskState, WorkerInv, WillCache
<1>4. task' = [task EXCEPT ![t] = w]
  BY DEF Finish
<1> HIDE DEF w
<1> QED
  BY <1>1, <1>3, <1>4

\* A step that puts w in the place of the state of t keeps the types of all workers.
LEMMA MoveType ==
  ASSUME Inv, NEW t \in Worker, NEW w \in TaskState, WorkerInv(w),
         task' = [task EXCEPT ![t] = w]
  PROVE  /\ task' \in [Worker -> TaskState]
         /\ \A u \in Worker : WorkerInv(task'[u])
         /\ task'[t] = w
         /\ \A u \in Worker : u # t => task'[u] = task[u]
  BY DEF Inv, TypeOK

\* Cached survives a step of t that leaves what is in force and cached of the project
\* alone, if t keeps what it was to cache, or it is known that it gave up.
LEMMA CachedKept ==
  ASSUME Inv, NEW t \in Worker,
         \A u \in Worker : u # t => task'[u] = task[u],
         \A e \in Project : inForce'[e] > 0 => inForce[e] > 0,
         \A e \in Project : cache[e] > 0 => cache'[e] > 0,
         uncached \subseteq uncached',
         WillCache(task[t]) => \/ task[t].editor \in uncached'
                               \/ WillCache(task'[t]) /\ task'[t].editor = task[t].editor
  PROVE  Cached'
<1> SUFFICES ASSUME NEW e \in Project, inForce'[e] > 0, ~ (cache'[e] > 0), e \notin uncached'
             PROVE  \E u \in Worker : task'[u].editor = e /\ WillCache(task'[u])
  BY DEF Cached, WillCache
<1>1. PICK u \in Worker : task[u].editor = e /\ WillCache(task[u])
  BY DEF Inv, Cached
<1> QED
  BY <1>1

-----------------------------------------------------------------------------
(* The inductive invariant *)

LEMMA InitInv == Init => Inv
<1> SUFFICES ASSUME Init PROVE Inv
  OBVIOUS
<1>1. TypeOK
  BY IdleType, EditorAssumption, StorerAssumption, FoundAssumption, BoundAssumption
     DEF Init, TypeOK, NoLists, KeeperIdle, KeeperState
<1>2. \A t \in Worker : WorkerInv(task[t])
  BY IdleType DEF Init
<1>3. Cached
  BY EditorAssumption DEF Init, Cached, NoLists
<1> QED
  BY <1>1, <1>2, <1>3 DEF Inv, Init

\* Calls of the node's users: Node::subscribe_denylist, subscribe_denylist_issuer,
\* unsubscribe_denylist_issuer and fetch_denylist.
LEMMA OperateInv ==
  ASSUME Inv, NEW t \in Task, Operate(t)
  PROVE  Inv'
<1>1. PICK e \in Editor : \/ \E n \in Seq : SubscribeList(t, e, n)
                         \/ Follow(t, e) \/ Unfollow(t, e) \/ Fetch(t, e)
  BY DEF Operate
<1>2. t \in Worker /\ task[t] \in TaskState /\ task[t].pc = "idle" /\ ~ WillCache(task[t])
  BY <1>1 DEF Inv, TypeOK, Worker, SubscribeList, Follow, Unfollow, Fetch, Begin, WillCache
<1>3. ops' \in 0 .. MaxOps
  <2>1. ops < MaxOps /\ ops' = ops + 1
    BY <1>1, Zenon DEF SubscribeList, Follow, Unfollow, Fetch, Occurs
  <2> QED
    BY <2>1, BoundAssumption DEF Inv, TypeOK
<1>4. CASE \E n \in Seq : SubscribeList(t, e, n)
  <2>1. PICK n \in Seq : SubscribeList(t, e, n)
    BY <1>4
  <2> DEFINE w == [Call("register", "list", e) EXCEPT !.list = n, !.newer = Newer(e, n)]
  <2>2. n \in 0 .. MaxSeq /\ n > 0 /\ Newer(e, n) \in BOOLEAN
    BY BoundAssumption DEF Newer
  <2>3. w \in TaskState /\ WorkerInv(w)
    BY <2>2 DEF Call, Idle, TaskState, WorkerInv
  <2>4. task' = [task EXCEPT ![t] = w]
    BY <2>1 DEF SubscribeList
  <2>5. w.editor = e /\ (Newer(e, n) => WillCache(w))
    BY DEF Call, Idle, WillCache
  <2> HIDE DEF w
  <2>6. /\ task' \in [Worker -> TaskState] /\ \A u \in Worker : WorkerInv(task'[u])
        /\ task'[t] = w /\ \A u \in Worker : u # t => task'[u] = task[u]
    BY <1>2, <2>3, <2>4, MoveType
  <2>7. TypeOK'
    BY <1>3, <2>1, <2>2, <2>6 DEF Inv, TypeOK, SubscribeList
  <2>8. CASE Newer(e, n)
    <3>1. Cached'
      <4> SUFFICES ASSUME NEW d \in Project, inForce'[d] > 0, ~ (cache'[d] > 0), d \notin uncached'
                   PROVE  \E u \in Worker : task'[u].editor = d /\ WillCache(task'[u])
        BY DEF Cached, WillCache
      <4>1. CASE d = e
        BY <1>2, <2>5, <2>6, <2>8, <4>1
      <4>2. CASE d # e
        <5>1. inForce[d] > 0 /\ ~ (cache[d] > 0) /\ d \notin uncached
          BY <2>1, <4>2, EditorAssumption DEF SubscribeList, Inv, TypeOK
        <5>2. PICK u \in Worker : task[u].editor = d /\ WillCache(task[u])
          BY <5>1 DEF Inv, Cached
        <5> QED
          BY <1>2, <2>6, <5>2
      <4> QED
        BY <4>1, <4>2
    <3> QED
      BY <2>1, <2>6, <2>7, <3>1 DEF Inv, SubscribeList
  <2>9. CASE ~ Newer(e, n)
    <3>1. inForce' = inForce /\ cache' = cache /\ uncached' = uncached
      BY <2>1, <2>9 DEF SubscribeList, Inv, TypeOK
    <3>2. Cached'
      BY <1>2, <2>6, <3>1, CachedKept
    <3> QED
      BY <2>1, <2>6, <2>7, <3>2 DEF Inv, SubscribeList
  <2> QED
    BY <2>8, <2>9
<1>5. ASSUME NEW k \in {"follow", "unfollow", "fetch"}, NEW pc \in {"trust", "ask"},
             Begin(t, k, e, pc), k = "unfollow" => e \notin Project,
             editors' \subseteq Editor, Project \subseteq editors',
             UNCHANGED <<inForce, cache, trusted, record, keeper, uncached>>
      PROVE  Inv'
  <2> DEFINE w == Call(pc, k, e)
  <2>1. w \in TaskState /\ WorkerInv(w)
    BY <1>5, BoundAssumption DEF Call, TaskState, WorkerInv
  <2>2. task' = [task EXCEPT ![t] = w]
    BY <1>5 DEF Begin
  <2> HIDE DEF w
  <2>3. /\ task' \in [Worker -> TaskState] /\ \A u \in Worker : WorkerInv(task'[u])
        /\ \A u \in Worker : u # t => task'[u] = task[u]
    BY <1>2, <2>1, <2>2, MoveType
  <2>4. Cached'
    BY <1>2, <1>5, <2>3, CachedKept
  <2> QED
    BY <1>3, <1>5, <2>3, <2>4 DEF Inv, TypeOK
<1>6. CASE Follow(t, e)
  BY <1>5, <1>6 DEF Follow, Inv, TypeOK
<1>7. CASE Unfollow(t, e)
  BY <1>5, <1>7 DEF Unfollow, Inv, TypeOK
<1>8. CASE Fetch(t, e)
  BY <1>5, <1>8 DEF Fetch, Inv, TypeOK
<1> QED
  BY <1>1, <1>4, <1>6, <1>7, <1>8

\* A worker that only moves on: it changes nothing but its own state, and the trusted
\* keys at most.
LEMMA MoveInv ==
  ASSUME Inv, NEW t \in Worker, NEW w \in TaskState, WorkerInv(w),
         task' = [task EXCEPT ![t] = w], WillCache(task[t]) => WillCache(w),
         w.editor = task[t].editor \/ ~ WillCache(task[t]), trusted' \subseteq Editor,
         UNCHANGED <<editors, inForce, cache, record, keeper, uncached, ops>>
  PROVE  Inv'
<1>1. /\ task' \in [Worker -> TaskState] /\ \A u \in Worker : WorkerInv(task'[u])
      /\ task'[t] = w /\ \A u \in Worker : u # t => task'[u] = task[u]
  BY MoveType
<1>2. Cached'
  BY <1>1, CachedKept
<1> QED
  BY <1>1, <1>2 DEF Inv, TypeOK

\* The steps of a worker, between two locks or awaits.
LEMMA StepInv ==
  ASSUME Inv, NEW t \in Worker, Step(t)
  PROVE  Inv'
<1> DEFINE e == task[t].editor
<1>1. task[t] \in TaskState /\ WorkerInv(task[t])
  BY DEF Inv, TypeOK
<1>2. /\ editors \subseteq Editor /\ trusted \subseteq Editor
      /\ inForce \in Lists /\ cache \in Lists
  BY DEF Inv, TypeOK
<1>3. ASSUME Finish(t), ~ WillCache(task[t]), inForce' \in Lists, cache' \in Lists,
             \A d \in Project : inForce'[d] > 0 => inForce[d] > 0,
             \A d \in Project : cache[d] > 0 => cache'[d] > 0,
             UNCHANGED <<editors, trusted, record, keeper, uncached, ops>>
      PROVE  Inv'
  <2>1. /\ task' \in [Worker -> TaskState] /\ \A u \in Worker : WorkerInv(task'[u])
        /\ \A u \in Worker : u # t => task'[u] = task[u]
    BY <1>3, FinishType
  <2>2. Cached'
    BY <1>3, <2>1, CachedKept
  <2> QED
    BY <1>3, <2>1, <2>2 DEF Inv, TypeOK
<1>4. CASE Register(t)
  <2> DEFINE w == [task[t] EXCEPT !.pc = "trust"]
  <2>1. /\ w \in TaskState /\ WorkerInv(w) /\ w.editor = e
        /\ WillCache(task[t]) => WillCache(w)
    BY <1>1, <1>4 DEF Register, TaskState, WorkerInv, WillCache
  <2>2. task' = [task EXCEPT ![t] = w]
    BY <1>4 DEF Register, Goto
  <2> HIDE DEF w
  <2>3. /\ task' \in [Worker -> TaskState] /\ \A u \in Worker : WorkerInv(task'[u])
        /\ task'[t] = w /\ \A u \in Worker : u # t => task'[u] = task[u]
    BY <2>1, <2>2, MoveType
  <2>4. Cached'
    BY <1>4, <2>1, <2>3, CachedKept DEF Register
  <2>5. e \in Editor
    BY <1>1, <1>4 DEF Register, WorkerInv
  <2> QED
    BY <1>4, <2>3, <2>4, <2>5 DEF Register, Inv, TypeOK
<1>5. CASE ReadEditors(t)
  <2> DEFINE w == [task[t] EXCEPT !.pc = "retrust", !.keys = editors]
  <2>1. /\ w \in TaskState /\ WorkerInv(w) /\ w.editor = e
        /\ WillCache(task[t]) => WillCache(w)
    BY <1>1, <1>2, <1>5 DEF ReadEditors, TaskState, WorkerInv, WillCache
  <2>2. task' = [task EXCEPT ![t] = w]
    BY <1>5 DEF ReadEditors
  <2> HIDE DEF w
  <2> QED
    BY <1>2, <1>5, <2>1, <2>2, MoveInv DEF ReadEditors
<1>6. CASE Retrust(t)
  <2> DEFINE next == CASE task[t].kind = "list" -> "purge"
                       [] task[t].kind = "unfollow" -> "uncache"
                       [] OTHER -> "ask"
             w == [task[t] EXCEPT !.keys = {}, !.pc = next]
  <2>1. /\ next \in {"purge", "uncache", "ask"}
        /\ next = "uncache" => task[t].kind = "unfollow"
        /\ task[t].kind = "list" => next = "purge"
    OBVIOUS
  <2>2. task' = [task EXCEPT ![t] = w]
    BY <1>6 DEF Retrust
  <2> HIDE DEF next
  <2>3. /\ w \in TaskState /\ WorkerInv(w) /\ w.editor = e
        /\ WillCache(task[t]) => WillCache(w)
    BY <1>1, <1>6, <2>1 DEF Retrust, TaskState, WorkerInv, WillCache
  <2>4. trusted' \subseteq Editor
    BY <1>1, <1>6 DEF Retrust, TaskState
  <2> HIDE DEF w
  <2> QED
    BY <1>6, <2>2, <2>3, <2>4, MoveInv DEF Retrust
<1>7. CASE Uncache(t)
  <2> DEFINE w == [task[t] EXCEPT !.pc = "lift"]
  <2>1. w \in TaskState /\ WorkerInv(w) /\ ~ WillCache(task[t])
    BY <1>1, <1>7 DEF Uncache, TaskState, WorkerInv, WillCache
  <2>2. task' = [task EXCEPT ![t] = w]
    BY <1>7 DEF Uncache, Goto
  <2> HIDE DEF w
  <2>3. /\ task' \in [Worker -> TaskState] /\ \A u \in Worker : WorkerInv(task'[u])
        /\ \A u \in Worker : u # t => task'[u] = task[u]
    BY <2>1, <2>2, MoveType
  <2>4. cache' \in Lists /\ \A d \in Project : cache'[d] = cache[d]
    BY <1>1, <1>2, <1>7, EditorAssumption, BoundAssumption DEF Uncache, WorkerInv
  <2>5. Cached'
    BY <1>7, <2>1, <2>3, <2>4, CachedKept DEF Uncache
  <2> QED
    BY <1>7, <2>3, <2>4, <2>5 DEF Uncache, Inv, TypeOK
<1>8. CASE Lift(t)
  <2>1. inForce' \in Lists /\ \A d \in Project : inForce'[d] = inForce[d]
    BY <1>1, <1>2, <1>8, EditorAssumption, BoundAssumption DEF Lift, WorkerInv
  <2>2. ~ WillCache(task[t])
    BY <1>8 DEF Lift, WillCache
  <2> QED
    BY <1>2, <1>3, <1>8, <2>1, <2>2 DEF Lift
<1>9. CASE \E answers \in SUBSET Storer : Answer(t, answers)
  <2>1. PICK n \in 0 .. MaxSeq :
           IF n = 0 THEN Finish(t)
                    ELSE task' = [task EXCEPT ![t].pc = "check", ![t].list = n]
    BY <1>9 DEF Answer
  <2>2. /\ task[t].pc = "ask" /\ ~ WillCache(task[t])
        /\ UNCHANGED <<editors, inForce, cache, trusted, record, keeper, uncached, ops>>
    BY <1>9 DEF Answer, WillCache
  <2>3. CASE n = 0
    BY <1>2, <1>3, <2>1, <2>2, <2>3
  <2>4. CASE n # 0
    <3> DEFINE w == [task[t] EXCEPT !.pc = "check", !.list = n]
    <3>1. w \in TaskState /\ WorkerInv(w)
      <4>1. n \in 0 .. MaxSeq /\ n > 0
        BY <2>1, <2>4, BoundAssumption
      <4> QED
        BY <1>1, <2>2, <4>1 DEF TaskState, WorkerInv
    <3>2. task' = [task EXCEPT ![t] = w]
      BY <2>1, <2>4
    <3> HIDE DEF w
    <3> QED
      BY <1>2, <2>2, <3>1, <3>2, MoveInv
  <2> QED
    BY <2>3, <2>4
<1>10. CASE Check(t)
  <2>1. ~ WillCache(task[t])
    BY <1>10 DEF Check, WillCache
  <2>2. CASE e \in editors
    <3> DEFINE w == [task[t] EXCEPT !.pc = "apply"]
    <3>1. w \in TaskState /\ WorkerInv(w)
      BY <1>1, <1>10 DEF Check, TaskState, WorkerInv
    <3>2. task' = [task EXCEPT ![t] = w]
      BY <1>10, <2>2 DEF Check, Goto
    <3> HIDE DEF w
    <3> QED
      BY <1>2, <1>10, <2>1, <3>1, <3>2, MoveInv DEF Check
  <2>3. CASE e \notin editors
    BY <1>2, <1>3, <1>10, <2>1, <2>3 DEF Check
  <2> QED
    BY <2>2, <2>3
<1>11. CASE Apply(t)
  <2>1. ~ WillCache(task[t]) /\ e \in Editor /\ task[t].list \in 0 .. MaxSeq
    BY <1>1, <1>11 DEF Apply, WillCache, WorkerInv, TaskState
  <2>2. CASE Newer(e, task[t].list)
    <3> DEFINE w == [task[t] EXCEPT !.pc = "cache", !.newer = TRUE]
    <3>1. w \in TaskState /\ WorkerInv(w) /\ WillCache(w) /\ w.editor = e
      BY <1>1, <1>11 DEF Apply, TaskState, WorkerInv, WillCache
    <3>2. task' = [task EXCEPT ![t] = w]
      BY <1>11, <2>2 DEF Apply
    <3>3. inForce' = [inForce EXCEPT ![e] = task[t].list]
      BY <1>11, <2>2 DEF Apply
    <3> HIDE DEF w
    <3>4. /\ task' \in [Worker -> TaskState] /\ \A u \in Worker : WorkerInv(task'[u])
          /\ task'[t] = w /\ \A u \in Worker : u # t => task'[u] = task[u]
      BY <3>1, <3>2, MoveType
    <3>5. Cached'
      <4> SUFFICES ASSUME NEW d \in Project, inForce'[d] > 0, ~ (cache'[d] > 0), d \notin uncached'
                   PROVE  \E u \in Worker : task'[u].editor = d /\ WillCache(task'[u])
        BY DEF Cached, WillCache
      <4>1. CASE d = e
        BY <3>1, <3>4, <4>1
      <4>2. CASE d # e
        <5>1. inForce[d] > 0 /\ ~ (cache[d] > 0) /\ d \notin uncached
          BY <1>2, <1>11, <3>3, <4>2, EditorAssumption DEF Apply
        <5>2. PICK u \in Worker : task[u].editor = d /\ WillCache(task[u])
          BY <5>1 DEF Inv, Cached
        <5> QED
          BY <2>1, <3>4, <5>2
      <4> QED
        BY <4>1, <4>2
    <3> QED
      BY <1>11, <2>1, <3>3, <3>4, <3>5 DEF Apply, Inv, TypeOK
  <2>3. CASE ~ Newer(e, task[t].list)
    BY <1>2, <1>3, <1>11, <2>1, <2>3 DEF Apply
  <2> QED
    BY <2>2, <2>3
<1>12. CASE Cache(t)
  <2>1. e \in Editor /\ task[t].list \in 0 .. MaxSeq /\ task[t].list > 0
    BY <1>1, <1>12 DEF Cache, WorkerInv, TaskState
  <2>2. cache' = [cache EXCEPT ![e] = task[t].list]
    BY <1>12 DEF Cache
  <2>3. /\ task' \in [Worker -> TaskState] /\ \A u \in Worker : WorkerInv(task'[u])
        /\ \A u \in Worker : u # t => task'[u] = task[u]
    <3>1. CASE task[t].kind = "list"
      BY <1>12, <3>1, FinishType DEF Cache
    <3>2. CASE task[t].kind # "list"
      <4> DEFINE w == [task[t] EXCEPT !.pc = "purge"]
      <4>1. w \in TaskState /\ WorkerInv(w)
        BY <1>1, <1>12 DEF Cache, TaskState, WorkerInv
      <4>2. task' = [task EXCEPT ![t] = w]
        BY <1>12, <3>2 DEF Cache, Goto
      <4> HIDE DEF w
      <4> QED
        BY <4>1, <4>2, MoveType
    <3> QED
      BY <3>1, <3>2
  <2>4. Cached'
    <3> SUFFICES ASSUME NEW d \in Project, inForce'[d] > 0, ~ (cache'[d] > 0), d \notin uncached'
                 PROVE  \E u \in Worker : task'[u].editor = d /\ WillCache(task'[u])
      BY DEF Cached, WillCache
    <3>1. d # e /\ inForce[d] > 0 /\ ~ (cache[d] > 0) /\ d \notin uncached
      BY <1>2, <1>12, <2>1, <2>2, EditorAssumption DEF Cache
    <3>2. PICK u \in Worker : task[u].editor = d /\ WillCache(task[u])
      BY <3>1 DEF Inv, Cached
    <3> QED
      BY <2>3, <3>1, <3>2
  <2> QED
    BY <1>12, <2>1, <2>2, <2>3, <2>4 DEF Cache, Inv, TypeOK
<1>13. CASE PurgeContent(t)
  <2>1. CASE task[t].kind = "list" /\ task[t].newer
    <3> DEFINE w == [task[t] EXCEPT !.pc = "cache"]
    <3>1. w \in TaskState /\ WorkerInv(w) /\ WillCache(w) /\ w.editor = e
      BY <1>1, <1>13, <2>1 DEF PurgeContent, TaskState, WorkerInv, WillCache
    <3>2. task' = [task EXCEPT ![t] = w]
      BY <1>13, <2>1 DEF PurgeContent, Goto
    <3> HIDE DEF w
    <3> QED
      BY <1>2, <1>13, <3>1, <3>2, MoveInv DEF PurgeContent
  <2>2. CASE ~ (task[t].kind = "list" /\ task[t].newer)
    <3>1. ~ WillCache(task[t])
      BY <1>13, <2>2 DEF PurgeContent, WillCache
    <3> QED
      BY <1>2, <1>3, <1>13, <2>2, <3>1 DEF PurgeContent
  <2> QED
    BY <2>1, <2>2
<1>14. CASE CacheFails(t)
  <2>1. e \in Editor /\ uncached' = uncached \cup {e} /\ uncached \subseteq Editor
    BY <1>1, <1>14 DEF CacheFails, WorkerInv, Inv, TypeOK
  <2>2. ops' \in 0 .. MaxOps
    <3>1. ops < MaxOps /\ ops' = ops + 1
      BY <1>14, Zenon DEF CacheFails, Occurs
    <3> QED
      BY <3>1, BoundAssumption DEF Inv, TypeOK
  <2>3. /\ task' \in [Worker -> TaskState] /\ \A u \in Worker : WorkerInv(task'[u])
        /\ \A u \in Worker : u # t => task'[u] = task[u]
    <3>1. CASE task[t].kind = "list"
      BY <1>14, <3>1, FinishType DEF CacheFails
    <3>2. CASE task[t].kind # "list"
      <4> DEFINE w == [task[t] EXCEPT !.pc = "purge"]
      <4>1. w \in TaskState /\ WorkerInv(w)
        BY <1>1, <1>14 DEF CacheFails, TaskState, WorkerInv
      <4>2. task' = [task EXCEPT ![t] = w]
        BY <1>14, <3>2 DEF CacheFails, Goto
      <4> HIDE DEF w
      <4> QED
        BY <4>1, <4>2, MoveType
    <3> QED
      BY <3>1, <3>2
  <2>4. Cached'
    BY <1>14, <2>1, <2>3, CachedKept DEF CacheFails
  <2> QED
    BY <1>14, <2>1, <2>2, <2>3, <2>4 DEF CacheFails, Inv, TypeOK
<1>15. CASE PurgeFails(t)
  <2>1. /\ uncached \subseteq uncached' /\ uncached' \subseteq Editor
        /\ WillCache(task[t]) => e \in uncached'
    BY <1>1, <1>15 DEF PurgeFails, WillCache, WorkerInv, Inv, TypeOK
  <2>2. ops' \in 0 .. MaxOps
    <3>1. ops < MaxOps /\ ops' = ops + 1
      BY <1>15, Zenon DEF PurgeFails, Occurs
    <3> QED
      BY <3>1, BoundAssumption DEF Inv, TypeOK
  <2>3. /\ task' \in [Worker -> TaskState] /\ \A u \in Worker : WorkerInv(task'[u])
        /\ \A u \in Worker : u # t => task'[u] = task[u]
    BY <1>15, FinishType DEF PurgeFails
  <2>4. Cached'
    BY <1>15, <2>1, <2>3, CachedKept DEF PurgeFails
  <2> QED
    BY <1>15, <2>1, <2>2, <2>3, <2>4 DEF PurgeFails, Inv, TypeOK
<1> QED
  BY <1>4, <1>5, <1>6, <1>7, <1>8, <1>9, <1>10, <1>11, <1>12, <1>13, <1>14, <1>15 DEF Step

\* The rest: passes of the follow loop, records, republication and restarts.
LEMMA OtherInv ==
  ASSUME Inv, FollowPass \/ FollowNext \/ Network \/ Republish \/ Restart
  PROVE  Inv'
<1>1. Loop \in Worker /\ task[Loop] \in TaskState /\ WorkerInv(task[Loop])
  BY DEF Inv, TypeOK, Worker
<1>2. /\ editors \subseteq Editor /\ trusted \subseteq Editor
      /\ inForce \in Lists /\ cache \in Lists
  BY DEF Inv, TypeOK
<1>3. CASE FollowPass
  <2> DEFINE w == [Idle EXCEPT !.pc = "next", !.todo = editors]
  <2>1. w \in TaskState /\ WorkerInv(w) /\ ~ WillCache(task[Loop])
    BY <1>2, <1>3, IdleType DEF FollowPass, Call, Idle, TaskState, WorkerInv, WillCache
  <2>2. task' = [task EXCEPT ![Loop] = w]
    BY <1>3 DEF FollowPass
  <2> HIDE DEF w
  <2> QED
    BY <1>1, <1>2, <1>3, <2>1, <2>2, MoveInv DEF FollowPass
<1>4. CASE FollowNext
  <2>1. /\ task[Loop].pc = "next" /\ ~ WillCache(task[Loop])
        /\ UNCHANGED <<editors, inForce, cache, trusted, record, keeper, uncached, ops>>
    BY <1>4 DEF FollowNext, WillCache
  <2>2. ASSUME NEW e \in task[Loop].todo,
               task' = [task EXCEPT ![Loop].pc = "ask", ![Loop].kind = "fetch",
                                    ![Loop].editor = e, ![Loop].todo = @ \ {e}]
        PROVE  Inv'
    <3> DEFINE w == [task[Loop] EXCEPT !.pc = "ask", !.kind = "fetch", !.editor = e,
                                       !.todo = task[Loop].todo \ {e}]
    <3>1. e \in Editor
      BY <1>1 DEF TaskState
    <3>2. w \in TaskState /\ WorkerInv(w)
      BY <1>1, <3>1 DEF TaskState, WorkerInv
    <3>3. task' = [task EXCEPT ![Loop] = w]
      BY <2>2
    <3> HIDE DEF w
    <3> QED
      BY <1>1, <1>2, <2>1, <3>2, <3>3, MoveInv
  <2>3. ASSUME Goto(Loop, "idle")
        PROVE  Inv'
    <3> DEFINE w == [task[Loop] EXCEPT !.pc = "idle"]
    <3>1. w \in TaskState /\ WorkerInv(w)
      BY <1>1 DEF TaskState, WorkerInv
    <3>2. task' = [task EXCEPT ![Loop] = w]
      BY <2>3 DEF Goto
    <3> HIDE DEF w
    <3> QED
      BY <1>1, <1>2, <2>1, <3>1, <3>2, MoveInv
  <2> QED
    BY <1>4, <2>2, <2>3 DEF FollowNext
<1>5. CASE Network
  <2>1. PICK s \in Storer, e \in Editor : Expire(s, e) \/ \E n \in Seq : Put(s, e, n)
    BY <1>5 DEF Network
  <2>2. ops < MaxOps /\ ops' = ops + 1
    BY <2>1, Zenon DEF Expire, Put, Occurs
  <2>3. ops' \in 0 .. MaxOps
    BY <2>2, BoundAssumption DEF Inv, TypeOK
  <2>4. record' \in [Storer -> Lists]
    <3>1. PICK n \in 0 .. MaxSeq : record' = [record EXCEPT ![s][e] = n]
      BY <2>1, BoundAssumption DEF Expire, Put
    <3>2. record \in [Storer -> Lists] /\ [record[s] EXCEPT ![e] = n] \in Lists
      BY DEF Inv, TypeOK
    <3>3. record' = [record EXCEPT ![s] = [record[s] EXCEPT ![e] = n]]
      BY <3>1
    <3> QED
      BY <3>2, <3>3
  <2>5. UNCHANGED <<editors, inForce, cache, trusted, task, keeper, uncached>>
    BY <2>1 DEF Expire, Put
  <2> QED
    BY <2>3, <2>4, <2>5 DEF Inv, TypeOK, Cached
<1>6. CASE Republish
  <2>1. UNCHANGED <<editors, inForce, cache, trusted, task, uncached>>
    BY <1>6 DEF Republish, RepublishRead, RepublishLoad, RepublishSend
  <2>2. TypeOK'
    <3>1. CASE RepublishRead
      <4>1. ops < MaxOps /\ ops' = ops + 1
        BY <3>1, Zenon DEF RepublishRead, Occurs
      <4>2. ops' \in 0 .. MaxOps
        BY <4>1, BoundAssumption DEF Inv, TypeOK
      <4>3. keeper' \in KeeperState
        BY <3>1 DEF RepublishRead, KeeperState, Inv, TypeOK
      <4> QED
        BY <2>1, <3>1, <4>2, <4>3 DEF RepublishRead, Inv, TypeOK
    <3>2. CASE RepublishLoad
      BY <2>1, <3>2, BoundAssumption DEF RepublishLoad, KeeperState, Inv, TypeOK
    <3>3. ASSUME NEW S \in SUBSET Storer, RepublishSend(S)
          PROVE  TypeOK'
      <4>1. ops' = ops
        BY <3>3 DEF RepublishSend
      <4>2. CASE keeper' = KeeperIdle /\ record' = record
        BY <2>1, <4>1, <4>2, BoundAssumption DEF KeeperIdle, KeeperState, Inv, TypeOK
      <4>3. ASSUME NEW e \in Editor,
                   record' = [s \in Storer |->
                        IF s = Here \/ (s \in S /\ Storable(s, e, keeper.lists[e]))
                        THEN [record[s] EXCEPT ![e] = keeper.lists[e]] ELSE record[s]],
                   keeper' = [keeper EXCEPT !.lists[e] = 0]
            PROVE  TypeOK'
        <5>1. keeper.lists \in Lists /\ keeper.lists[e] \in 0 .. MaxSeq
          BY DEF KeeperState, Inv, TypeOK
        <5>2. record' \in [Storer -> Lists]
          BY <4>3, <5>1 DEF Inv, TypeOK
        <5>3. keeper' \in KeeperState
          <6>1. [keeper.lists EXCEPT ![e] = 0] \in Lists
            BY <5>1, BoundAssumption
          <6>2. keeper' = [keeper EXCEPT !.lists = [keeper.lists EXCEPT ![e] = 0]]
            BY <4>3
          <6> QED
            BY <6>1, <6>2 DEF KeeperState, Inv, TypeOK
        <5> QED
          BY <2>1, <4>1, <5>2, <5>3 DEF Inv, TypeOK
      <4> QED
        BY <3>3, <4>2, <4>3 DEF RepublishSend
    <3> QED
      BY <1>6, <3>1, <3>2, <3>3 DEF Republish
  <2> QED
    BY <2>1, <2>2 DEF Inv, Cached
<1>7. CASE Restart
  <2>1. ops < MaxOps /\ ops' = ops + 1
    BY <1>7, Zenon DEF Restart, Occurs
  <2>2. /\ editors' = editors \cup Project /\ trusted' = editors' /\ cache' = cache
        /\ inForce' = [e \in Editor |-> IF e \in editors' THEN cache[e] ELSE 0]
        /\ record' = [record EXCEPT ![Here] = NoLists]
        /\ task' = [t \in Worker |-> Idle] /\ keeper' = KeeperIdle
        /\ uncached' = {}
    BY <1>7 DEF Restart
  <2>3. inForce' \in Lists /\ \A e \in Project : inForce'[e] = cache[e]
    BY <1>2, <2>2, EditorAssumption, BoundAssumption
  <2>4. editors' \subseteq Editor /\ Project \subseteq editors'
    BY <1>2, <2>2, EditorAssumption
  <2>5. task' \in [Worker -> TaskState] /\ \A t \in Worker : WorkerInv(task'[t])
    BY <2>2, IdleType
  <2>6. record' \in [Storer -> Lists]
    <3>1. NoLists \in Lists
      BY BoundAssumption DEF NoLists
    <3> QED
      BY <2>2, <3>1 DEF Inv, TypeOK
  <2>7. keeper' \in KeeperState
    BY <2>2, BoundAssumption DEF KeeperIdle, KeeperState
  <2>8. TypeOK'
    BY <1>2, <2>1, <2>2, <2>3, <2>4, <2>5, <2>6, <2>7, BoundAssumption DEF Inv, TypeOK
  <2>9. Cached'
    BY <2>2, <2>3 DEF Cached
  <2> QED
    BY <2>4, <2>5, <2>8, <2>9 DEF Inv
<1> QED
  BY <1>3, <1>4, <1>5, <1>6, <1>7

LEMMA NextInv == Inv /\ [Next]_vars => Inv'
<1> SUFFICES ASSUME Inv, [Next]_vars PROVE Inv'
  OBVIOUS
<1>1. CASE UNCHANGED vars
  BY <1>1 DEF vars, Inv, TypeOK, Cached
<1>2. CASE Next
  BY <1>2, OperateInv, StepInv, OtherInv DEF Next
<1> QED
  BY <1>1, <1>2

LEMMA InvHolds == Spec => []Inv
  BY InitInv, NextInv, PTL DEF Spec

-----------------------------------------------------------------------------
(* Theorems *)

\* The shared state and the local state of every call keep their types.
THEOREM TypeCorrect == Spec => []TypeOK
<1>1. Inv => TypeOK
  BY DEF Inv
<1> QED
  BY <1>1, InvHolds, PTL

\* A node at rest that enforces a list of the project has one on disk (save_cached_list
\* and Node::build), however its calls and restarts interleave, unless a call gave up
\* before it had saved the list: its purge or the write failed.
THEOREM ProtectedOffline == Spec => []OfflineProtection
<1>1. Inv => OfflineProtection
  BY DEF Inv, Cached, OfflineProtection, AtRest
<1> QED
  BY <1>1, InvHolds, PTL

\* The project's editor stays followed, and but for a restart its list in force is never
\* replaced by an older one (unsubscribe_denylist_issuer, apply_list and Node::build).
THEOREM ProjectIsKept == Spec => ProjectHolds
<1> DEFINE Held == \A e \in Project :
                      e \in editors' /\ (inForce'[e] >= inForce[e] \/ Restart)
<1>1. ASSUME Inv, Next
      PROVE  Held
  <2> SUFFICES ASSUME NEW e \in Project
               PROVE  e \in editors' /\ (inForce'[e] >= inForce[e] \/ Restart)
    OBVIOUS
  <2>1. e \in editors'
    BY <1>1, NextInv DEF Inv
  <2>2. inForce \in Lists /\ e \in Editor /\ inForce[e] \in Nat
    BY <1>1, EditorAssumption DEF Inv, TypeOK
  <2>3. CASE UNCHANGED inForce
    BY <2>1, <2>2, <2>3
  <2>4. ASSUME NEW t \in Task, NEW d \in Editor, NEW n \in Seq, SubscribeList(t, d, n)
        PROVE  inForce'[e] >= inForce[e]
    BY <2>2, <2>4 DEF SubscribeList, Newer
  <2>5. ASSUME NEW t \in Worker, Apply(t)
        PROVE  inForce'[e] >= inForce[e]
    <3>1. CASE Newer(task[t].editor, task[t].list)
      <4>1. inForce' = [inForce EXCEPT ![task[t].editor] = task[t].list]
        BY <2>5, <3>1 DEF Apply
      <4>2. task[t].list > inForce[task[t].editor] /\ task[t].list \in 0 .. MaxSeq
        BY <1>1, <3>1 DEF Newer, Inv, TypeOK, TaskState
      <4> QED
        BY <2>2, <4>1, <4>2
    <3>2. CASE ~ Newer(task[t].editor, task[t].list)
      BY <2>2, <2>5, <3>2 DEF Apply
    <3> QED
      BY <3>1, <3>2
  <2>6. ASSUME NEW t \in Worker, Lift(t)
        PROVE  inForce'[e] >= inForce[e]
    <3>1. task[t].editor # e
      BY <1>1, <2>6 DEF Inv, WorkerInv, Lift
    <3> QED
      BY <2>2, <2>6, <3>1 DEF Lift
  <2>7. \/ UNCHANGED inForce \/ Restart
        \/ \E t \in Task, d \in Editor, n \in Seq : SubscribeList(t, d, n)
        \/ \E t \in Worker : Apply(t) \/ Lift(t)
    <3>1. ASSUME NEW t \in Task, Operate(t)
          PROVE  \/ UNCHANGED inForce
                 \/ \E d \in Editor, n \in Seq : SubscribeList(t, d, n)
      BY <3>1 DEF Operate, Follow, Unfollow, Fetch
    <3>2. ASSUME NEW t \in Worker, Step(t)
          PROVE  UNCHANGED inForce \/ Apply(t) \/ Lift(t)
      BY <3>2 DEF Step, Register, ReadEditors, Retrust, Uncache, Answer, Check, Cache,
                  PurgeContent, CacheFails, PurgeFails
    <3>3. FollowPass \/ FollowNext \/ Network \/ Republish => UNCHANGED inForce
      BY DEF FollowPass, FollowNext, Network, Expire, Put, Republish, RepublishRead,
             RepublishLoad, RepublishSend
    <3> QED
      BY <1>1, <3>1, <3>2, <3>3 DEF Next
  <2> QED
    BY <2>1, <2>3, <2>4, <2>5, <2>6, <2>7
<1>2. Inv /\ [Next]_vars => [Held]_vars
  BY <1>1
<1> QED
  BY <1>2, InvHolds, PTL DEF Spec, ProjectHolds
=============================================================================
