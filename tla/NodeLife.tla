------------------------------- MODULE NodeLife -------------------------------
(***************************************************************************)
(* The life of a node (p2p.rs): the calls of those who hold a handle, the  *)
(* bounded channel of commands, the event loop that hands them to libp2p   *)
(* and answers each through a one-shot channel, the background loops, and  *)
(* the end of all of it once the last handle is dropped.                   *)
(*                                                                         *)
(* A command is known by how it is answered:                               *)
(*   ask      at once: Dial, Bootstrap, ConnectedPeers, ListenAddrs,       *)
(*            PublishFeed, PublishReport, PeerScore                        *)
(*   tell     never: AddAddress, StopProviding, and the PutRecord of the   *)
(*            maintenance loop and of a publication, who do not wait       *)
(*   listen   refused, or with the first address of the listener           *)
(*   find     at the last result: GetProviders, GetRecord                  *)
(*   provide  refused, or with the result of the query: Provide            *)
(*   block    with the response or the failure: RequestBlock               *)
(* seed_loop lives like follow_loop, which stands for both.                *)
(***************************************************************************)
EXTENDS Naturals, FiniteSets
LOCAL INSTANCE Sequences

CONSTANTS
    User,               \* who holds a handle; each makes one call at a time
    FollowLoop, MaintenanceLoop,
    UserOps, FollowOps, \* the commands that users and follow_loop send
    Capacity,           \* of the channel of commands (64)
    Id,                 \* bound on the queries and listeners of libp2p at one time
    Peer,               \* what a query may find
    MaxCalls,           \* bound on the calls of users
    Nobody

Background == {FollowLoop, MaintenanceLoop}
Actor == User \cup Background
Op == {"ask", "tell", "listen", "find", "provide", "block"}

ASSUME LifeAssumption ==
    /\ User \cap Background = {} /\ FollowLoop # MaintenanceLoop /\ Nobody \notin Actor
    /\ UserOps \subseteq Op /\ FollowOps \subseteq Op \ {"listen"}
    /\ Capacity \in Nat \ {0} /\ MaxCalls \in Nat
    /\ Id \subseteq Nat \ {0}

VARIABLES
    handles,        \* the users that still hold their handle (alive)
    started,        \* maintenance_started
    spawned,        \* how many maintenance loops were started (history)
    loopAt,         \* where each background loop is
    call,           \* the call of each actor
    queue,          \* the channel of commands
    pending,        \* whom the event loop will answer, and what it has gathered
    libp2p,         \* the queries and listeners that libp2p runs
    running,        \* EventLoop::run
    calls

lifeVars == <<handles, started, spawned, loopAt, call, queue, pending, libp2p,
              running, calls>>

CallOf(pc, op, id) == [pc |-> pc, op |-> op, id |-> id, from |-> 0, ok |-> FALSE, found |-> {}]
NoCall == CallOf("idle", "tell", 0)
NoEntry == [who |-> Nobody, found |-> {}]
NoWork == [state |-> "free", op |-> "tell", found |-> {}]

LifeTypeOK ==
    /\ handles \subseteq User /\ started \in BOOLEAN
    /\ spawned \in Nat
    /\ loopAt \in [Background -> {"none", "on", "over"}]
    /\ call \in [Actor -> [pc: {"idle", "send", "wait", "told"}, op: Op, id: Id \cup {0},
                           from: Id \cup {0}, ok: BOOLEAN, found: SUBSET Peer]]
    /\ queue \in Seq([op: Op, who: Actor \cup {Nobody}])
    /\ pending \in [Id -> [who: Actor \cup {Nobody}, found: SUBSET Peer]]
    /\ libp2p \in [Id -> [state: {"free", "run", "up", "down"}, op: Op, found: SUBSET Peer]]
    /\ running \in BOOLEAN
    /\ calls \in 0 .. MaxCalls

\* Node::build has spawned the event loop and follow_loop.
LifeInit ==
    /\ handles = User
    /\ started = FALSE /\ spawned = 0
    /\ loopAt = [l \in Background |-> IF l = FollowLoop THEN "on" ELSE "none"]
    /\ call = [a \in Actor |-> NoCall]
    /\ queue = <<>>
    /\ pending = [i \in Id |-> NoEntry]
    /\ libp2p = [i \in Id |-> NoWork]
    /\ running = TRUE
    /\ calls = 0

-----------------------------------------------------------------------------
(* Calls *)

CallAt(a, pc) == call[a].pc = pc

\* cmd_tx.send: who finds the channel full waits for a place, and places are given in
\* the order in which they were asked for.  Entries beyond Capacity are senders that wait.
Commands(a, op) ==
    /\ queue' = Append(queue, [op |-> op, who |-> a])
    /\ call' = [call EXCEPT ![a] = CallOf(IF op = "tell" THEN "send" ELSE "wait", op, 0)]

Calls(u, op) ==
    /\ u \in handles /\ CallAt(u, "idle")
    /\ calls < MaxCalls /\ calls' = calls + 1
    /\ Commands(u, op)
    /\ UNCHANGED <<handles, started, spawned, loopAt, pending, libp2p, running>>

\* A command that is never answered has its place: the call returns.
Sent(a) ==
    /\ CallAt(a, "send")
    /\ \E p \in DOMAIN queue :
          /\ p <= Capacity /\ queue[p].who = a
          /\ queue' = [queue EXCEPT ![p].who = Nobody]
    /\ call' = [call EXCEPT ![a] = NoCall]
    /\ UNCHANGED <<handles, started, spawned, loopAt, pending, libp2p, running, calls>>

\* What a one-shot sender does with an answer; its receiver may be gone.
Told(a, i, ok, found) ==
    IF a = Nobody THEN call
    ELSE [call EXCEPT ![a].pc = "told", ![a].from = i, ![a].ok = ok, ![a].found = found]

\* Mutant of Return: every listen that succeeds starts a loop.
ReturnSpawning(u) ==
    /\ u \in User /\ CallAt(u, "told")
    /\ call' = [call EXCEPT ![u] = NoCall]
    /\ IF call[u].op = "listen" /\ call[u].ok
       THEN /\ started' = TRUE /\ spawned' = spawned + 1
            /\ loopAt' = [loopAt EXCEPT ![MaintenanceLoop] = "on"]
       ELSE UNCHANGED <<started, spawned, loopAt>>
    /\ UNCHANGED <<handles, queue, pending, libp2p, running, calls>>

\* The call returns; the first listen that succeeds starts the maintenance loop.
Return(u) ==
    /\ u \in User /\ CallAt(u, "told")
    /\ call' = [call EXCEPT ![u] = NoCall]
    /\ IF call[u].op = "listen" /\ call[u].ok /\ ~started
       THEN /\ started' = TRUE /\ spawned' = spawned + 1
            /\ loopAt' = [loopAt EXCEPT ![MaintenanceLoop] = "on"]
       ELSE UNCHANGED <<started, spawned, loopAt>>
    /\ UNCHANGED <<handles, queue, pending, libp2p, running, calls>>

\* A user drops its handle, and with it the call it was in: who waited for a place leaves
\* the queue, but a command that has its place stays, with nobody to answer.
Without(p) == [k \in 1 .. Len(queue) - 1 |-> queue[IF k < p THEN k ELSE k + 1]]

Drop(u) ==
    /\ u \in handles
    /\ handles' = handles \ {u}
    /\ call' = [call EXCEPT ![u] = NoCall]
    /\ \/ (\A p \in DOMAIN queue : queue[p].who # u) /\ UNCHANGED queue
       \/ \E p \in DOMAIN queue : queue[p].who = u /\ p > Capacity /\ queue' = Without(p)
       \/ \E p \in DOMAIN queue : /\ queue[p].who = u /\ p <= Capacity
                                  /\ queue' = [queue EXCEPT ![p].who = Nobody]
    /\ pending' = [i \in Id |-> IF pending[i].who = u THEN NoEntry ELSE pending[i]]
    /\ UNCHANGED <<started, spawned, loopAt, libp2p, running, calls>>

-----------------------------------------------------------------------------
(* The event loop: handle_command *)

Command == Head(queue)
Takes(ops) == running /\ queue # <<>> /\ Command.op \in ops /\ queue' = Tail(queue)

AnswerNow ==
    /\ Takes({"ask"})
    /\ \E found \in {{}, Peer} : call' = Told(Command.who, 0, TRUE, found)
    /\ UNCHANGED <<handles, started, spawned, loopAt, pending, libp2p, running, calls>>

TakeTold ==
    /\ Takes({"tell"})
    /\ call' = IF Command.who = Nobody THEN call ELSE [call EXCEPT ![Command.who] = NoCall]
    /\ UNCHANGED <<handles, started, spawned, loopAt, pending, libp2p, running, calls>>

\* listen_on, start_providing may refuse.
Refuse ==
    /\ Takes({"listen", "provide"})
    /\ call' = Told(Command.who, 0, FALSE, {})
    /\ UNCHANGED <<handles, started, spawned, loopAt, pending, libp2p, running, calls>>

\* An id that means nothing to anybody; the ids of libp2p are never used twice.
Fresh(i) ==
    /\ libp2p[i].state \in {"free", "down"} /\ pending[i] = NoEntry
    /\ \A a \in Actor : call[a].id # i

StartWork ==
    /\ Takes({"listen", "find", "provide", "block"})
    /\ \E i \in Id :
          /\ Fresh(i) /\ \A j \in Id : Fresh(j) => i <= j
          /\ libp2p' = [libp2p EXCEPT ![i] = [state |-> "run", op |-> Command.op, found |-> {}]]
          /\ pending' = [pending EXCEPT ![i] = [who |-> Command.who, found |-> {}]]
          /\ call' = IF Command.who = Nobody THEN call
                     ELSE [call EXCEPT ![Command.who].id = i]
    /\ UNCHANGED <<handles, started, spawned, loopAt, running, calls>>

-----------------------------------------------------------------------------
(* The event loop: handle_event *)

Runs(i, op) == running /\ libp2p[i].state = "run" /\ libp2p[i].op = op

\* Mutant of NewAddress: any listen that waits is answered.
NewAddressForAny(i) ==
    /\ running /\ libp2p[i].state \in {"run", "up"} /\ libp2p[i].op = "listen"
    /\ libp2p' = [libp2p EXCEPT ![i].state = "up"]
    /\ \E j \in Id :
          /\ libp2p[j].op = "listen" /\ pending[j].who # Nobody
          /\ call' = Told(pending[j].who, i, TRUE, {})
          /\ pending' = [pending EXCEPT ![j] = NoEntry]
    /\ UNCHANGED <<handles, started, spawned, loopAt, queue, running, calls>>

\* NewListenAddr: the first address of a listener answers; other interfaces follow.
NewAddress(i) ==
    /\ running /\ libp2p[i].state \in {"run", "up"} /\ libp2p[i].op = "listen"
    /\ libp2p' = [libp2p EXCEPT ![i].state = "up"]
    /\ call' = Told(pending[i].who, i, TRUE, {})
    /\ pending' = [pending EXCEPT ![i] = NoEntry]
    /\ UNCHANGED <<handles, started, spawned, loopAt, queue, running, calls>>

\* ListenerClosed and ListenerError are not handled.
ListenerDies(i) ==
    /\ Runs(i, "listen")
    /\ libp2p' = [libp2p EXCEPT ![i].state = "down"]
    /\ UNCHANGED <<handles, started, spawned, loopAt, call, queue, pending, running, calls>>

\* handle_kad_result, before the last step of a query.
ResultFound(i, p) ==
    /\ Runs(i, "find") /\ p \notin libp2p[i].found
    /\ libp2p' = [libp2p EXCEPT ![i].found = @ \cup {p}]
    /\ pending' = IF pending[i].who = Nobody THEN pending
                  ELSE [pending EXCEPT ![i].found = @ \cup {p}]
    /\ UNCHANGED <<handles, started, spawned, loopAt, call, queue, running, calls>>

\* Mutant of WorkEnds: a failure is not told.
WorkEndsWell(i, ok) ==
    /\ \/ Runs(i, "find") /\ ok
       \/ \E op \in {"provide", "block"} : Runs(i, op)
    /\ libp2p' = [libp2p EXCEPT ![i].state = "free"]
    /\ IF ok THEN /\ call' = Told(pending[i].who, i, ok, pending[i].found)
                  /\ pending' = [pending EXCEPT ![i] = NoEntry]
             ELSE UNCHANGED <<call, pending>>
    /\ UNCHANGED <<handles, started, spawned, loopAt, queue, running, calls>>

\* The last step of a query, or the response to a request for a block or its failure.
WorkEnds(i, ok) ==
    /\ \/ Runs(i, "find") /\ ok
       \/ \E op \in {"provide", "block"} : Runs(i, op)
    /\ libp2p' = [libp2p EXCEPT ![i].state = "free"]
    /\ call' = Told(pending[i].who, i, ok, pending[i].found)
    /\ pending' = [pending EXCEPT ![i] = NoEntry]
    /\ UNCHANGED <<handles, started, spawned, loopAt, queue, running, calls>>

\* recv gives None: no message, and nobody left who could send one.
Stop ==
    /\ running /\ queue = <<>>
    /\ handles = {} /\ \A l \in Background : loopAt[l] \in {"none", "over"}
    /\ running' = FALSE
    /\ pending' = [i \in Id |-> NoEntry] /\ libp2p' = [i \in Id |-> NoWork]
    /\ UNCHANGED <<handles, started, spawned, loopAt, call, queue, calls>>

-----------------------------------------------------------------------------
(* The background loops.  They hold cmd_tx and a Weak of alive. *)

LoopBegins(l) ==
    \/ l = FollowLoop /\ \E op \in FollowOps : Commands(l, op)
    \/ l = MaintenanceLoop /\ Commands(l, "ask")

\* Mutant of LoopRound: the handles are not looked at.
LoopGoesOn(l) ==
    /\ loopAt[l] = "on" /\ CallAt(l, "idle")
    /\ LoopBegins(l)
    /\ UNCHANGED <<handles, started, spawned, loopAt, pending, libp2p, running, calls>>

\* A loop has slept, and looks at the handles (alive.upgrade; sleep_while_alive looks
\* every second and ends like this).  The maintenance loop then asks how many peers are
\* connected, the others for a record or a block, or announce that they withdraw.
LoopRound(l) ==
    /\ loopAt[l] = "on" /\ CallAt(l, "idle")
    /\ IF handles = {}
       THEN loopAt' = [loopAt EXCEPT ![l] = "over"] /\ UNCHANGED <<call, queue>>
       ELSE LoopBegins(l) /\ UNCHANGED loopAt
    /\ UNCHANGED <<handles, started, spawned, pending, libp2p, running, calls>>

\* With a peer the maintenance loop announces, then puts; other answers end the pass.
LoopTold(l) ==
    /\ l \in Background /\ CallAt(l, "told")
    /\ CASE l = MaintenanceLoop /\ call[l].op = "ask" /\ call[l].found # {} -> Commands(l, "provide")
         [] l = MaintenanceLoop /\ call[l].op = "provide"                 -> Commands(l, "tell")
         [] OTHER -> call' = [call EXCEPT ![l] = NoCall] /\ UNCHANGED queue
    /\ UNCHANGED <<handles, started, spawned, loopAt, pending, libp2p, running, calls>>

Passes(l) == LoopRound(l) \/ LoopTold(l)

-----------------------------------------------------------------------------

HandleCommand == AnswerNow \/ TakeTold \/ Refuse \/ StartWork

\* libp2p bounds the time of a query and of a request; a listener binds or dies.
Settles(i) == NewAddress(i) \/ ListenerDies(i)
Ends(i) == \E ok \in BOOLEAN : WorkEnds(i, ok)

LifeNext ==
    \/ \E u \in User : (\E op \in UserOps : Calls(u, op)) \/ Return(u) \/ Drop(u)
    \/ \E a \in Actor : Sent(a)
    \/ HandleCommand
    \/ \E i \in Id : Settles(i) \/ Ends(i) \/ \E p \in Peer : ResultFound(i, p)
    \/ Stop
    \/ \E l \in Background : Passes(l)

\* tokio runs every task and libp2p settles what it runs.  Nobody need make or drop a call.
LifeFairness ==
    /\ \A a \in Actor : WF_lifeVars(Sent(a))
    /\ \A u \in User : WF_lifeVars(Return(u))
    /\ WF_lifeVars(HandleCommand) /\ WF_lifeVars(Stop)
    /\ \A i \in Id :
          /\ WF_lifeVars(Ends(i))
          /\ WF_lifeVars(libp2p[i].state = "run" /\ Settles(i))
    /\ \A l \in Background : WF_lifeVars(Passes(l))

LifeSpec == LifeInit /\ [][LifeNext]_lifeVars /\ LifeFairness

-----------------------------------------------------------------------------
(* Properties *)

\* Of calls in any number at once, each gets the answer to its own question, and all
\* that its query found: two listens do not get each other's address, nor a second
\* interface of the first, and a search is not answered with a part of its results.
AnswersAreOwn ==
    \A a \in Actor : CallAt(a, "told") =>
        /\ call[a].from = call[a].id
        /\ call[a].op = "find" => call[a].found = libp2p[call[a].id].found

\* However many listens succeed at the same time, one maintenance loop announces the
\* roots, and none before a listen has succeeded.
OneMaintenance ==
    /\ spawned <= 1
    /\ loopAt[MaintenanceLoop] # "none" => started

Waiting(a) == call[a].pc \in {"send", "wait"}

\* The listener that a waits for is gone, and no event about it will be handled.
Deserted(a) == call[a].op = "listen" /\ call[a].id # 0 /\ libp2p[call[a].id].state = "down"

\* Every call returns, of users and of loops, through the full channel and whatever
\* becomes of its query, except a listen whose listener dies before it has an address:
\* handle_event does not know ListenerClosed, and Node::listen then waits for ever.
EveryCallReturns == \A a \in User : []<>(~Waiting(a) \/ Deserted(a))

\* Once the last handle is dropped, in the middle of any call or pass, every loop ends
\* and the event loop gives up its sockets (the Weak of alive in every loop).
StopsWhenDropped == []<>(handles = {} => ~running)
================================================================================
