------------------------------- MODULE Denylist -------------------------------
(***************************************************************************)
(* How the signed denylists of the followed editors reach one node and     *)
(* stay in force: the DHT records, the follow loop, the tasks that follow, *)
(* unfollow or apply a list by hand, the cache on disk and the restart.    *)
(*                                                                         *)
(* A list is the seq number its editor signed it with, 0 where there is    *)
(* none: what a list bans is in NodeState, which takes the lists in force  *)
(* as they come.  Lists of one editor with the same seq are one list.      *)
(*                                                                         *)
(* editors is written to .denylist_issuers while its lock is held, so the  *)
(* disk shows the memory; the cache is not, it has a variable of its own.  *)
(* A purge and a write of the cache may fail; the writes of the dotfiles   *)
(* that fail are in Settings, and this one is made here.                   *)
(***************************************************************************)
EXTENDS Naturals

CONSTANTS
    Editor,         \* the keys that sign denylists
    Project,        \* the project's key if the build has one: a set of at most one editor
    MaxSeq,         \* bound on seq
    Storer,         \* the nodes that hold the DHT records, this one included
    Here,           \* this node, as a storer
    Found,          \* what the others may store when the node first starts
    Task,           \* calls and spawned tasks
    Loop,           \* follow_loop
    Allowed,        \* the operations and events that occur
    MaxOps,         \* bound on them
    NoEditor

ASSUME EditorAssumption == Project \subseteq Editor /\ NoEditor \notin Editor
ASSUME StorerAssumption == Here \in Storer
ASSUME FoundAssumption == Found \subseteq [Editor -> 0 .. MaxSeq]
ASSUME TaskAssumption == Loop \notin Task
ASSUME BoundAssumption == MaxSeq \in Nat \ {0} /\ MaxOps \in Nat

Seq == 1 .. MaxSeq
Lists == [Editor -> 0 .. MaxSeq]
Worker == Task \cup {Loop}

VARIABLES
    editors,        \* denylist_issuers: the followed editors
    inForce,        \* Moderation.by_issuer: the list applied, per editor
    cache,          \* .denylists/<editor>.json
    trusted,        \* the trusted keys of the ReportBook
    record,         \* record[s][e]: the list of e that s stores
    task,           \* the local state of every worker
    keeper,         \* the republication of the maintenance loop
    uncached,       \* history: the editors a list of whom is in force and was given up
                    \* before it was cached
    ops             \* operations so far, bounded by MaxOps

vars == <<editors, inForce, cache, trusted, record, task, keeper, uncached, ops>>

Call(pc, k, e) == [pc |-> pc, kind |-> k, editor |-> e, list |-> 0, newer |-> FALSE,
                   keys |-> {}, todo |-> {}]
Idle == Call("idle", "none", NoEditor)
KeeperIdle == [pc |-> "idle", keys |-> {}, lists |-> [e \in Editor |-> 0]]
NoLists == [e \in Editor |-> 0]

TaskState ==
    [pc: {"idle", "next", "register", "trust", "retrust", "ask", "check", "apply",
          "cache", "purge", "uncache", "lift"},
     kind: {"none", "list", "follow", "unfollow", "fetch"},
     editor: Editor \cup {NoEditor}, list: 0 .. MaxSeq, newer: BOOLEAN,
     keys: SUBSET Editor, todo: SUBSET Editor]

KeeperState == [pc: {"idle", "load", "send"}, keys: SUBSET Editor, lists: Lists]

TypeOK ==
    /\ editors \subseteq Editor /\ trusted \subseteq Editor
    /\ inForce \in Lists /\ cache \in Lists
    /\ record \in [Storer -> Lists]
    /\ task \in [Worker -> TaskState]
    /\ keeper \in KeeperState
    /\ uncached \subseteq Editor
    /\ ops \in 0 .. MaxOps

\* Node::build on an empty directory, in a network where lists may already be stored.
Init ==
    /\ editors = Project
    /\ inForce = NoLists /\ cache = NoLists
    /\ trusted = Project
    /\ \E found \in Found : record = [s \in Storer |-> IF s = Here THEN NoLists ELSE found]
    /\ task = [t \in Worker |-> Idle]
    /\ keeper = KeeperIdle
    /\ uncached = {}
    /\ ops = 0

Occurs(op) == op \in Allowed /\ ops < MaxOps /\ ops' = ops + 1

Goto(t, pc) == task' = [task EXCEPT ![t].pc = pc]

\* A worker is through with its editor; the loop has others on its list.
Finish(t) ==
    task' = [task EXCEPT ![t] =
        [Idle EXCEPT !.pc = IF t = Loop THEN "next" ELSE "idle", !.todo = task[t].todo]]

Begin(t, k, e, pc) ==
    /\ task[t].pc = "idle"
    /\ task' = [task EXCEPT ![t] = Call(pc, k, e)]

\* Mutant of Newer: the comparison with the known seq is forgotten.
NewerAlways(e, n) == TRUE

\* Moderation::apply_list: strictly newer than the one in force, or stale.
Newer(e, n) == n > inForce[e]

-----------------------------------------------------------------------------
(* Changes to the followed editors *)

\* Mutant of SubscribeList: what is new is worked out after the list was applied.
SubscribeListTold(t, e, n) ==
    /\ Occurs("list")
    /\ task[t].pc = "idle"
    /\ inForce' = [inForce EXCEPT ![e] = IF Newer(e, n) THEN n ELSE @]
    /\ task' = [task EXCEPT ![t] = [Call("register", "list", e) EXCEPT
                                    !.list = n, !.newer = n > inForce'[e]]]
    /\ UNCHANGED <<editors, cache, trusted, record, keeper, uncached>>

\* Node::subscribe_denylist, a list at hand: applied first, registered next.
SubscribeList(t, e, n) ==
    /\ Occurs("list")
    /\ task[t].pc = "idle"
    /\ inForce' = [inForce EXCEPT ![e] = IF Newer(e, n) THEN n ELSE @]
    /\ task' = [task EXCEPT ![t] = [Call("register", "list", e) EXCEPT
                                    !.list = n, !.newer = Newer(e, n)]]
    /\ UNCHANGED <<editors, cache, trusted, record, keeper, uncached>>

Register(t) ==
    /\ task[t].pc = "register"
    /\ editors' = editors \cup {task[t].editor}
    /\ Goto(t, "trust")
    /\ UNCHANGED <<inForce, cache, trusted, record, keeper, uncached, ops>>

\* Node::subscribe_denylist_issuer
Follow(t, e) ==
    /\ Occurs("follow")
    /\ Begin(t, "follow", e, "trust")
    /\ editors' = editors \cup {e}
    /\ UNCHANGED <<inForce, cache, trusted, record, keeper, uncached>>

\* Node::unsubscribe_denylist_issuer: the project's editor cannot be removed.
Unfollow(t, e) ==
    /\ Occurs("unfollow")
    /\ e \notin Project
    /\ Begin(t, "unfollow", e, "trust")
    /\ editors' = editors \ {e}
    /\ UNCHANGED <<inForce, cache, trusted, record, keeper, uncached>>

\* Node::retrust_reports copies the editors, lets their lock go ...
ReadEditors(t) ==
    /\ task[t].pc = "trust"
    /\ task' = [task EXCEPT ![t].pc = "retrust", ![t].keys = editors]
    /\ UNCHANGED <<editors, inForce, cache, trusted, record, keeper, uncached, ops>>

\* ... and reclassifies the book under the lock of the book.
Retrust(t) ==
    /\ task[t].pc = "retrust"
    /\ trusted' = task[t].keys
    /\ task' = [task EXCEPT ![t].keys = {},
                    ![t].pc = CASE task[t].kind = "list" -> "purge"
                                [] task[t].kind = "unfollow" -> "uncache"
                                [] OTHER -> "ask"]
    /\ UNCHANGED <<editors, inForce, cache, record, keeper, uncached, ops>>

Uncache(t) ==
    /\ task[t].pc = "uncache"
    /\ cache' = [cache EXCEPT ![task[t].editor] = 0]
    /\ Goto(t, "lift")
    /\ UNCHANGED <<editors, inForce, trusted, record, keeper, uncached, ops>>

\* Mutant of Lift: the entry goes, and with it the place of the editor in the engine.
LiftWhole(t) ==
    /\ task[t].pc = "lift"
    /\ inForce' = [e \in Editor \ {task[t].editor} |-> inForce[e]]
    /\ Finish(t)
    /\ UNCHANGED <<editors, cache, trusted, record, keeper, uncached, ops>>

\* Moderation::remove_issuer
Lift(t) ==
    /\ task[t].pc = "lift"
    /\ inForce' = [inForce EXCEPT ![task[t].editor] = 0]
    /\ Finish(t)
    /\ UNCHANGED <<editors, cache, trusted, record, keeper, uncached, ops>>

-----------------------------------------------------------------------------
(* fetch_denylist_inner, of the follow loop, of a new follower, or called   *)
(* to preview an editor                                                     *)

Fetch(t, e) ==
    /\ Occurs("fetch")
    /\ Begin(t, "fetch", e, "ask")
    /\ UNCHANGED <<editors, inForce, cache, trusted, record, keeper, uncached>>

\* follow_loop: one pass over the editors followed at its start, then a sleep.
FollowPass ==
    /\ task[Loop].pc = "idle"
    /\ task' = [task EXCEPT ![Loop] = [Idle EXCEPT !.pc = "next", !.todo = editors]]
    /\ UNCHANGED <<editors, inForce, cache, trusted, record, keeper, uncached, ops>>

FollowNext ==
    /\ task[Loop].pc = "next"
    /\ \/ \E e \in task[Loop].todo :
            task' = [task EXCEPT ![Loop].pc = "ask", ![Loop].kind = "fetch",
                                 ![Loop].editor = e, ![Loop].todo = @ \ {e}]
       \/ task[Loop].todo = {} /\ Goto(Loop, "idle")
    /\ UNCHANGED <<editors, inForce, cache, trusted, record, keeper, uncached, ops>>

\* Mutant of Newest: the oldest list that verifies is kept.
NewestIsOldest(e, answers, n) ==
    /\ n = 0 <=> \A s \in answers : record[s][e] = 0
    /\ n # 0 => \E s \in answers : record[s][e] = n
    /\ \A s \in answers : record[s][e] # 0 => record[s][e] >= n

\* fetch_verified_denylist_from_dht: the newest of the lists that the storers
\* which answer have, if they have one.
Newest(e, answers, n) ==
    /\ n # 0 => \E s \in answers : record[s][e] = n
    /\ \A s \in answers : record[s][e] <= n

Answer(t, answers) ==
    /\ task[t].pc = "ask"
    /\ \E n \in 0 .. MaxSeq :
        /\ Newest(task[t].editor, answers, n)
        /\ IF n = 0 THEN Finish(t)
                    ELSE task' = [task EXCEPT ![t].pc = "check", ![t].list = n]
    /\ UNCHANGED <<editors, inForce, cache, trusted, record, keeper, uncached, ops>>

\* The list of an editor who is not followed is returned without effect.
Check(t) ==
    /\ task[t].pc = "check"
    /\ IF task[t].editor \in editors THEN Goto(t, "apply") ELSE Finish(t)
    /\ UNCHANGED <<editors, inForce, cache, trusted, record, keeper, uncached, ops>>

Apply(t) ==
    /\ task[t].pc = "apply"
    /\ LET e == task[t].editor  n == task[t].list
       IN  \/ /\ Newer(e, n)
              /\ inForce' = [inForce EXCEPT ![e] = n]
              /\ task' = [task EXCEPT ![t].pc = "cache", ![t].newer = TRUE]
           \/ /\ ~ Newer(e, n)
              /\ Finish(t)
              /\ UNCHANGED inForce
    /\ UNCHANGED <<editors, cache, trusted, record, keeper, uncached, ops>>

\* save_cached_list, before the purge of a fetched list, after the purge of a
\* list applied by hand.
Cache(t) ==
    /\ task[t].pc = "cache"
    /\ cache' = [cache EXCEPT ![task[t].editor] = task[t].list]
    /\ uncached' = uncached \ {task[t].editor}
    /\ IF task[t].kind = "list" THEN Finish(t) ELSE Goto(t, "purge")
    /\ UNCHANGED <<editors, inForce, trusted, record, keeper, ops>>

\* The file is written aside and renamed: what it held stays, and a warning is logged.
CacheFails(t) ==
    /\ Occurs("fail")
    /\ task[t].pc = "cache"
    /\ uncached' = uncached \cup {task[t].editor}
    /\ IF task[t].kind = "list" THEN Finish(t) ELSE Goto(t, "purge")
    /\ UNCHANGED <<editors, inForce, cache, trusted, record, keeper>>

\* purge_after_denylist_inner, which awaits; what it removes is in Purge.
PurgeContent(t) ==
    /\ task[t].pc = "purge"
    /\ IF task[t].kind = "list" /\ task[t].newer THEN Goto(t, "cache") ELSE Finish(t)
    /\ UNCHANGED <<editors, inForce, cache, trusted, record, keeper, uncached, ops>>

\* The blocks cannot be listed, or one not removed: Node::subscribe_denylist returns the
\* error before it caches the list; fetch_denylist_inner, which has cached it, logs it.
PurgeFails(t) ==
    /\ Occurs("fail")
    /\ task[t].pc = "purge"
    /\ uncached' = IF task[t].kind = "list" /\ task[t].newer
                   THEN uncached \cup {task[t].editor} ELSE uncached
    /\ Finish(t)
    /\ UNCHANGED <<editors, inForce, cache, trusted, record, keeper>>

-----------------------------------------------------------------------------
(* Records *)

\* handle_inbound_kad_request, here and in the other nodes: should_store_denylist_record
Storable(s, e, n) == n >= record[s][e]

\* A list its editor or another follower puts, or that anyone puts again.
Put(s, e, n) ==
    /\ Occurs("put")
    /\ Storable(s, e, n)
    /\ record' = [record EXCEPT ![s][e] = n]
    /\ UNCHANGED <<editors, inForce, cache, trusted, task, keeper, uncached>>

\* A record reaches the end of its life.
Expire(s, e) ==
    /\ Occurs("expire")
    /\ record' = [record EXCEPT ![s][e] = 0]
    /\ UNCHANGED <<editors, inForce, cache, trusted, task, keeper, uncached>>

\* republish_known_feeds_inner, the denylists: the editors are copied, then the
\* cache is read, then what is left of it is put one list after the other.
RepublishRead ==
    /\ Occurs("republish")
    /\ keeper.pc = "idle"
    /\ keeper' = [keeper EXCEPT !.pc = "load", !.keys = editors]
    /\ UNCHANGED <<editors, inForce, cache, trusted, record, task, uncached>>

RepublishLoad ==
    /\ keeper.pc = "load"
    /\ keeper' = [pc |-> "send", keys |-> {},
                  lists |-> [e \in Editor |-> IF e \in keeper.keys THEN cache[e] ELSE 0]]
    /\ UNCHANGED <<editors, inForce, cache, trusted, record, task, uncached, ops>>

\* Command::PutRecord: kad stores in this node what it puts, and sends it to others,
\* who compare it with what they have.
RepublishSend(S) ==
    /\ keeper.pc = "send"
    /\ \/ \E e \in Editor :
            LET n == keeper.lists[e]
            IN  /\ n # 0
                /\ record' = [s \in Storer |->
                        IF s = Here \/ (s \in S /\ Storable(s, e, n))
                        THEN [record[s] EXCEPT ![e] = n] ELSE record[s]]
                /\ keeper' = [keeper EXCEPT !.lists[e] = 0]
       \/ keeper.lists = NoLists /\ keeper' = KeeperIdle /\ UNCHANGED record
    /\ UNCHANGED <<editors, inForce, cache, trusted, task, uncached, ops>>

-----------------------------------------------------------------------------

\* A stop at any point, then Node::build: the project's editor is put back, the
\* cached lists of followed editors are applied, the records stored here are gone.
Restart ==
    /\ Occurs("restart")
    /\ editors' = editors \cup Project
    /\ inForce' = [e \in Editor |-> IF e \in editors' THEN cache[e] ELSE 0]
    /\ trusted' = editors'
    /\ record' = [record EXCEPT ![Here] = NoLists]
    /\ task' = [t \in Worker |-> Idle]
    /\ keeper' = KeeperIdle
    /\ uncached' = {}
    /\ UNCHANGED cache

Step(t) ==
    \/ Register(t) \/ ReadEditors(t) \/ Retrust(t) \/ Uncache(t) \/ Lift(t)
    \/ \E answers \in SUBSET Storer : Answer(t, answers)
    \/ Check(t) \/ Apply(t) \/ Cache(t) \/ PurgeContent(t)
    \/ CacheFails(t) \/ PurgeFails(t)

Operate(t) ==
    \E e \in Editor :
        \/ \E n \in Seq : SubscribeList(t, e, n)
        \/ Follow(t, e) \/ Unfollow(t, e) \/ Fetch(t, e)

Network ==
    \E s \in Storer, e \in Editor : Expire(s, e) \/ \E n \in Seq : Put(s, e, n)

Republish ==
    RepublishRead \/ RepublishLoad \/ \E S \in SUBSET Storer : RepublishSend(S)

Next ==
    \/ \E t \in Task : Operate(t)
    \/ \E t \in Worker : Step(t)
    \/ FollowPass \/ FollowNext
    \/ Network \/ Republish \/ Restart

\* Every task runs (the tokio runtime) and the loop wakes after follow_interval.  A
\* fetch that is made again and again is answered by every storer some time.
Fairness ==
    /\ \A t \in Worker : WF_vars(Step(t))
    /\ WF_vars(FollowPass) /\ WF_vars(FollowNext)
    /\ \A e \in Editor : SF_vars(task[Loop].editor = e /\ Answer(Loop, Storer))

Spec == Init /\ [][Next]_vars /\ Fairness

-----------------------------------------------------------------------------
(* Properties *)

\* No call of the node is under way for e.
AtRest(e) == \A t \in Worker : task[t].editor # e

\* The project's list is a guard that cannot be turned off (Node::
\* unsubscribe_denylist_issuer, Node::build, Moderation::apply_list): no step of any
\* task, nor a list put again or fetched late, puts an older list of the project in
\* force or lets its editor go; only a restart goes back, to what is cached.
ProjectHolds ==
    [][\A e \in Project : e \in editors' /\ (inForce'[e] >= inForce[e] \/ Restart)]_vars

\* What save_cached_list and Node::build promise together: once no call is under way
\* for the project's editor, a node that enforces one of its lists has one on disk, so
\* that a restart without network is not left without any.  But for a list whose call
\* gave up before it was on disk: its purge failed, or the write itself.
OfflineProtection ==
    \A e \in Project :
        AtRest(e) /\ inForce[e] > 0 /\ e \notin uncached => cache[e] > 0

\* follow_loop keeps up (fetch_verified_denylist_from_dht takes the newest answer,
\* apply_list what is newer): whatever was unfollowed, restarted or fetched late, an
\* editor who stays followed has in force a list as new as any that is stored.
Converges ==
    \A e \in Editor :
        []<>(e \in editors => \A s \in Storer : inForce[e] >= record[s][e])

\* docs/architecture.md:566-567: a list fetched for an editor who is not followed is never
\* applied.  Stated of what is left when no call is under way for the editor.
ForgottenAtRest ==
    \A e \in Editor : AtRest(e) /\ e \notin editors => inForce[e] = 0

\* p2p.rs:1399-1400, of the ReportBook when the editors have changed: it must never stay
\* out of tune with the followed editors.
TrustAtRest ==
    (\A e \in Editor : AtRest(e)) => trusted = editors
=============================================================================
