-------------------------------- MODULE NodeProofs --------------------------------
(***************************************************************************)
(* Theorems about the node around its content: NodeLife, Settings and      *)
(* Listeners, one part after the other.                                    *)
(***************************************************************************)
EXTENDS NodeLife, Settings, Listeners, Sequences, FiniteSetTheorems, TLAPS

--------------------------------------------------------------------------------
(***************************************************************************)
(* NodeLife.  Each call gets the answer to its own question, and one       *)
(* maintenance loop runs, for any users, operations, capacity of the       *)
(* channel and number of queries.  What makes it so is that a question is  *)
(* in one place at a time: in the channel, or in what the event loop has   *)
(* pending under the id that the call knows.                               *)
(***************************************************************************)

Entry == [op: Op, who: Actor \cup {Nobody}]
UserState == [pc: {"idle", "send", "wait", "told"}, op: Op, id: Id \cup {0},
              from: Id \cup {0}, ok: BOOLEAN, found: SUBSET Peer]
PendingEntry == [who: Actor \cup {Nobody}, found: SUBSET Peer]
Work == [state: {"free", "run", "up", "down"}, op: Op, found: SUBSET Peer]

Waits(op) == IF op = "tell" THEN "send" ELSE "wait"

\* An actor is in the channel once, and waits there for the answer to this command.
Queued(q, c) ==
    /\ \A p, r \in 1 .. Len(q) : q[p].who = q[r].who /\ q[p].who # Nobody => p = r
    /\ \A p \in 1 .. Len(q) : q[p].who \in Actor =>
          /\ c[q[p].who].pc = Waits(q[p].op)
          /\ c[q[p].who].id = 0 /\ c[q[p].who].op = q[p].op

\* The event loop has gathered for an actor all that its query found.
Gathers(i, c) ==
    pending[i].who \in Actor =>
        /\ c[pending[i].who].pc = "wait" /\ c[pending[i].who].id = i
        /\ c[pending[i].who].op = libp2p[i].op
        /\ libp2p[i].op = "find" => libp2p[i].state = "run" /\ pending[i].found = libp2p[i].found

Answered(a) ==
    CallAt(a, "told") =>
        /\ call[a].from = call[a].id
        /\ call[a].op = "find" =>
              /\ call[a].id \in Id
              /\ libp2p[call[a].id].op = "find" /\ libp2p[call[a].id].state # "run"
              /\ call[a].found = libp2p[call[a].id].found

\* Who has no handle, and a loop that does not run, makes no call.
Silent ==
    /\ \A u \in User \ handles : CallAt(u, "idle")
    /\ \A l \in Background : loopAt[l] # "on" => CallAt(l, "idle")

Started ==
    /\ spawned = IF started THEN 1 ELSE 0
    /\ loopAt[MaintenanceLoop] # "none" => started

LifeInv ==
    /\ LifeTypeOK
    /\ Queued(queue, call)
    /\ \A i \in Id : Gathers(i, call)
    /\ \A a \in Actor : Answered(a)
    /\ Silent
    /\ Started

LEMMA Constants ==
    /\ User \subseteq Actor /\ Background \subseteq Actor
    /\ FollowLoop \in Background /\ MaintenanceLoop \in Background
    /\ Nobody \notin Actor /\ 0 \notin Id
    /\ \A l \in Background : l \notin User
    /\ NoCall \in UserState /\ NoEntry \in PendingEntry /\ NoWork \in Work
    /\ NoCall.pc = "idle" /\ NoEntry.who = Nobody /\ NoWork.state = "free" /\ NoWork.found = {}
BY LifeAssumption DEF Actor, Background, NoCall, CallOf, NoEntry, NoWork, UserState,
                      PendingEntry, Work, Op

LEMMA LifeTypes ==
    LifeTypeOK <=>
        /\ handles \subseteq User /\ started \in BOOLEAN
        /\ spawned \in Nat
        /\ loopAt \in [Background -> {"none", "on", "over"}]
        /\ call \in [Actor -> UserState]
        /\ queue \in Seq(Entry)
        /\ pending \in [Id -> PendingEntry]
        /\ libp2p \in [Id -> Work]
        /\ running \in BOOLEAN
        /\ calls \in 0 .. MaxCalls
BY DEF LifeTypeOK, UserState, Entry, PendingEntry, Work

-----------------------------------------------------------------------------
(* The channel *)

\* Who is idle or has its answer is neither in the channel nor pending.
LEMMA NotInQueue ==
    ASSUME LifeInv, NEW a \in Actor, call[a].pc \in {"idle", "told"}
    PROVE  /\ \A p \in 1 .. Len(queue) : queue[p].who # a
           /\ \A i \in Id : pending[i].who # a
BY DEF LifeInv, Queued, Gathers, Waits

LEMMA AppendQueued ==
    ASSUME NEW q \in Seq(Entry), NEW c \in [Actor -> UserState], Queued(q, c),
           NEW a \in Actor, NEW op \in Op, \A p \in 1 .. Len(q) : q[p].who # a,
           NEW x, x = Waits(op)
    PROVE  LET r == Append(q, [op |-> op, who |-> a])
           IN  r \in Seq(Entry) /\ Queued(r, [c EXCEPT ![a] = CallOf(x, op, 0)])
<1> DEFINE r == Append(q, [op |-> op, who |-> a])
           d == [c EXCEPT ![a] = CallOf(x, op, 0)]
<1>1. [op |-> op, who |-> a] \in Entry
  BY DEF Entry
<1>2. /\ r \in Seq(Entry) /\ Len(r) = Len(q) + 1
      /\ r[Len(r)] = [op |-> op, who |-> a]
      /\ \A p \in 1 .. Len(q) : r[p] = q[p]
  BY <1>1
<1>3. Len(q) \in Nat /\ \A p \in 1 .. Len(r) : p \in 1 .. Len(q) \/ p = Len(r)
  BY <1>2
<1>4. d[a].pc = x /\ d[a].id = 0 /\ d[a].op = op /\ \A b \in Actor \ {a} : d[b] = c[b]
  BY DEF CallOf
<1> HIDE DEF r, d
<1>5. ASSUME NEW p \in 1 .. Len(r), NEW s \in 1 .. Len(r), r[p].who = r[s].who, r[p].who # Nobody
      PROVE  p = s
  BY <1>2, <1>3, <1>5 DEF Queued
<1>6. ASSUME NEW p \in 1 .. Len(r), r[p].who \in Actor
      PROVE  /\ d[r[p].who].pc = Waits(r[p].op)
             /\ d[r[p].who].id = 0 /\ d[r[p].who].op = r[p].op
  BY <1>2, <1>3, <1>4, <1>6 DEF Queued
<1>7. Queued(r, d)
  BY <1>5, <1>6 DEF Queued
<1> QED
  BY <1>2, <1>7 DEF r, d

\* The first command leaves; the call of who sent it may change.
LEMMA TailQueued ==
    ASSUME NEW q \in Seq(Entry), q # <<>>, NEW c, NEW d, Queued(q, c),
           \A b \in Actor : b # Head(q).who => d[b] = c[b]
    PROVE  /\ Tail(q) \in Seq(Entry) /\ Queued(Tail(q), d)
           /\ Head(q) \in Entry
           /\ Head(q).who \in Actor => /\ c[Head(q).who].pc = Waits(Head(q).op)
                                       /\ c[Head(q).who].id = 0
                                       /\ c[Head(q).who].op = Head(q).op
<1>1. /\ Tail(q) \in Seq(Entry) /\ Head(q) = q[1] /\ Head(q) \in Entry
      /\ 1 \in 1 .. Len(q)
      /\ \A p \in 1 .. Len(Tail(q)) : Tail(q)[p] = q[p + 1] /\ p + 1 \in 1 .. Len(q)
  OBVIOUS
<1>2. \A p \in 1 .. Len(Tail(q)) : Tail(q)[p].who \in Actor => Tail(q)[p].who # Head(q).who
  <2>1. ASSUME NEW p \in 1 .. Len(Tail(q)), Tail(q)[p].who \in Actor,
               Tail(q)[p].who = Head(q).who
        PROVE  FALSE
    <3>1. q[p + 1].who = q[1].who /\ q[p + 1].who # Nobody /\ p + 1 # 1
      BY <1>1, <2>1, Constants
    <3> QED
      BY <1>1, <3>1 DEF Queued
  <2> QED
    BY <2>1
<1> DEFINE t == Tail(q)
<1> HIDE DEF t
<1>3. ASSUME NEW p \in 1 .. Len(t), NEW s \in 1 .. Len(t), t[p].who = t[s].who, t[p].who # Nobody
      PROVE  p = s
  <2>1. p + 1 = s + 1
    BY <1>1, <1>3 DEF Queued, t
  <2> QED
    BY <2>1
<1>4. ASSUME NEW p \in 1 .. Len(t), t[p].who \in Actor
      PROVE  /\ d[t[p].who].pc = Waits(t[p].op)
             /\ d[t[p].who].id = 0 /\ d[t[p].who].op = t[p].op
  BY <1>1, <1>2, <1>4 DEF Queued, t
<1>5. Queued(t, d)
  BY <1>3, <1>4 DEF Queued
<1> QED
  BY <1>1, <1>5 DEF Queued, t

\* Somebody's command is left with nobody to answer.
LEMMA ForsakeQueued ==
    ASSUME NEW q \in Seq(Entry), NEW c, NEW d, Queued(q, c), NEW n \in 1 .. Len(q),
           \A b \in Actor : b # q[n].who => d[b] = c[b], q[n].who \in Actor
    PROVE  [q EXCEPT ![n].who = Nobody] \in Seq(Entry) /\ Queued([q EXCEPT ![n].who = Nobody], d)
<1> DEFINE r == [q EXCEPT ![n].who = Nobody]
<1>1. /\ r \in Seq(Entry) /\ Len(r) = Len(q) /\ r[n].who = Nobody
      /\ \A p \in 1 .. Len(q) : p # n => r[p] = q[p]
  <2>1. q[n] \in Entry
    OBVIOUS
  <2>2. [q[n] EXCEPT !.who = Nobody] \in Entry /\ [q[n] EXCEPT !.who = Nobody].who = Nobody
    BY <2>1 DEF Entry
  <2> QED
    BY <2>2
<1> HIDE DEF r
<1>2. \A p \in 1 .. Len(r) : r[p].who \in Actor => r[p] = q[p] /\ q[p].who # q[n].who
  BY <1>1, Constants DEF Queued
<1>3. Queued(r, d)
  BY <1>1, <1>2, Constants DEF Queued, Entry
<1> QED
  BY <1>1, <1>3 DEF r

\* Who waits for a place leaves the queue.
LEMMA LeaveQueued ==
    ASSUME queue \in Seq(Entry), NEW d, Queued(queue, call), NEW n \in 1 .. Len(queue),
           \A b \in Actor : b # queue[n].who => d[b] = call[b], queue[n].who \in Actor
    PROVE  Without(n) \in Seq(Entry) /\ Queued(Without(n), d)
<1> DEFINE Place(k) == IF k < n THEN k ELSE k + 1
<1>1. Len(queue) \in Nat /\ Len(queue) - 1 \in Nat
  OBVIOUS
<1>2. \A k \in 1 .. Len(queue) - 1 : Place(k) \in 1 .. Len(queue) /\ Place(k) # n
  BY <1>1
<1>3. \A k, l \in 1 .. Len(queue) - 1 : Place(k) = Place(l) => k = l
  BY <1>1
<1>4. \A k \in 1 .. Len(queue) : queue[k] \in Entry
  OBVIOUS
<1> HIDE DEF Place
<1> DEFINE r == Without(n)
<1>5. r = [k \in 1 .. Len(queue) - 1 |-> queue[Place(k)]]
  BY DEF Without, Place
<1>6. r \in [1 .. Len(queue) - 1 -> Entry]
  BY <1>2, <1>4, <1>5
<1>7. r \in Seq(Entry) /\ Len(r) = Len(queue) - 1
  BY <1>1, <1>6
<1>8. \A k \in 1 .. Len(r) : r[k] = queue[Place(k)] /\ Place(k) \in 1 .. Len(queue) /\ Place(k) # n
  BY <1>2, <1>5, <1>7
<1> HIDE DEF r
<1>9. ASSUME NEW p \in 1 .. Len(r), NEW s \in 1 .. Len(r), r[p].who = r[s].who, r[p].who # Nobody
      PROVE  p = s
  <2>1. /\ Place(p) \in 1 .. Len(queue) /\ Place(s) \in 1 .. Len(queue)
        /\ queue[Place(p)].who = queue[Place(s)].who /\ queue[Place(p)].who # Nobody
    BY <1>8, <1>9
  <2>2. Place(p) = Place(s)
    BY <2>1 DEF Queued
  <2> QED
    BY <1>3, <1>7, <2>2
<1>10. ASSUME NEW p \in 1 .. Len(r), r[p].who \in Actor
       PROVE  /\ d[r[p].who].pc = Waits(r[p].op)
              /\ d[r[p].who].id = 0 /\ d[r[p].who].op = r[p].op
  <2>1. r[p].who # queue[n].who
    BY <1>8, <1>10, Constants DEF Queued
  <2>2. r[p] = queue[Place(p)] /\ Place(p) \in 1 .. Len(queue)
    BY <1>8, <1>10
  <2>3. d[r[p].who] = call[r[p].who]
    BY <1>10, <2>1
  <2> QED
    BY <1>10, <2>2, <2>3 DEF Queued
<1>11. Queued(r, d)
  BY <1>9, <1>10 DEF Queued
<1> QED
  BY <1>7, <1>11 DEF r

-----------------------------------------------------------------------------
(* What one actor's call changes *)

\* Nothing but the call of a changes, which is neither pending nor told.
LEMMA OneCall ==
    ASSUME LifeInv, NEW a \in Actor, NEW d \in [Actor -> UserState], call' = d,
           \A b \in Actor \ {a} : d[b] = call[b], d[a].pc # "told",
           \A i \in Id : pending[i].who # a, UNCHANGED <<pending, libp2p>>
    PROVE  (\A i \in Id : Gathers(i, call)') /\ \A b \in Actor : Answered(b)'
<1>1. ASSUME NEW i \in Id
      PROVE  Gathers(i, call)'
  BY DEF LifeInv, Gathers
<1>2. ASSUME NEW b \in Actor
      PROVE  Answered(b)'
  BY DEF LifeInv, Answered, CallAt
<1> QED
  BY <1>1, <1>2

\* A command enters the channel.
LEMMA CommandsInv ==
    ASSUME LifeInv, NEW a \in Actor, NEW op \in Op, call[a].pc \in {"idle", "told"},
           Commands(a, op), UNCHANGED <<pending, libp2p>>
    PROVE  /\ call' \in [Actor -> UserState] /\ queue' \in Seq(Entry)
           /\ Queued(queue', call')
           /\ \A i \in Id : Gathers(i, call)'
           /\ \A b \in Actor : Answered(b)'
           /\ \A b \in Actor \ {a} : call'[b] = call[b]
<1> DEFINE x == IF op = "tell" THEN "send" ELSE "wait"
           d == [call EXCEPT ![a] = CallOf(x, op, 0)]
<1>1. call \in [Actor -> UserState] /\ queue \in Seq(Entry) /\ Queued(queue, call)
  BY LifeTypes DEF LifeInv
<1>2. /\ \A p \in 1 .. Len(queue) : queue[p].who # a
      /\ \A i \in Id : pending[i].who # a
  BY NotInQueue
<1>3. x \in {"send", "wait"} /\ x = Waits(op)
  BY DEF Waits
<1>4. queue' = Append(queue, [op |-> op, who |-> a]) /\ call' = d
  BY DEF Commands
<1> HIDE DEF x
<1>5. CallOf(x, op, 0) \in UserState /\ CallOf(x, op, 0).pc = x
  BY <1>3 DEF CallOf, UserState
<1>6. d \in [Actor -> UserState] /\ d[a].pc = x /\ \A b \in Actor \ {a} : d[b] = call[b]
  BY <1>1, <1>5
<1>7. queue' \in Seq(Entry) /\ Queued(queue', d)
  BY <1>1, <1>2, <1>3, <1>4, AppendQueued
<1> HIDE DEF d
<1>8. (\A i \in Id : Gathers(i, call)') /\ \A b \in Actor : Answered(b)'
  BY <1>2, <1>3, <1>4, <1>6, OneCall
<1> QED
  BY <1>4, <1>6, <1>7, <1>8

-----------------------------------------------------------------------------
(* The invariant *)

LEMMA LifeInitInv == LifeInit => LifeInv
<1> SUFFICES ASSUME LifeInit PROVE LifeInv
  OBVIOUS
<1>1. LifeTypeOK
  <2>1. call \in [Actor -> UserState] /\ pending \in [Id -> PendingEntry] /\ libp2p \in [Id -> Work]
    BY Constants DEF LifeInit
  <2>2. loopAt \in [Background -> {"none", "on", "over"}] /\ 0 \in 0 .. MaxCalls
    BY LifeAssumption DEF LifeInit
  <2>3. queue = <<>> /\ <<>> \in Seq(Entry)
    BY DEF LifeInit
  <2> QED
    BY <2>1, <2>2, <2>3, LifeTypes DEF LifeInit
<1>2. \A a \in Actor : CallAt(a, "idle")
  BY Constants DEF LifeInit, CallAt
<1>3. \A i \in Id : pending[i].who = Nobody
  BY Constants DEF LifeInit
<1>4. Queued(queue, call)
  BY DEF LifeInit, Queued
<1>5. (\A i \in Id : Gathers(i, call)) /\ \A a \in Actor : Answered(a)
  BY <1>2, <1>3, Constants DEF Gathers, Answered, CallAt
<1>6. Silent /\ Started
  BY <1>2, LifeAssumption, Constants DEF Silent, Started, LifeInit
<1> QED
  BY <1>1, <1>4, <1>5, <1>6 DEF LifeInv

LEMMA CallsInv ==
    ASSUME LifeInv, NEW u \in User, NEW op \in UserOps, Calls(u, op)
    PROVE  LifeInv'
<1>1. u \in Actor /\ op \in Op /\ call[u].pc \in {"idle", "told"} /\ Commands(u, op)
      /\ UNCHANGED <<pending, libp2p>>
  BY Constants, LifeAssumption DEF Calls, CallAt
<1>2. /\ call' \in [Actor -> UserState] /\ queue' \in Seq(Entry)
      /\ Queued(queue', call')
      /\ \A i \in Id : Gathers(i, call)'
      /\ \A b \in Actor : Answered(b)'
      /\ \A b \in Actor \ {u} : call'[b] = call[b]
  BY <1>1, CommandsInv
<1>3. LifeTypeOK'
  BY <1>2, LifeTypes, LifeAssumption DEF LifeInv, Calls, LifeTypeOK, UserState, Entry
<1>4. Silent' /\ Started'
  BY <1>2, Constants DEF LifeInv, Silent, Started, Calls, CallAt
<1> QED
  BY <1>2, <1>3, <1>4 DEF LifeInv

LEMMA SentInv ==
    ASSUME LifeInv, NEW a \in Actor, Sent(a)
    PROVE  LifeInv'
<1> DOMAIN queue = 1 .. Len(queue)
  BY LifeTypes DEF LifeInv
<1>1. PICK p \in DOMAIN queue : /\ p <= Capacity /\ queue[p].who = a
                               /\ queue' = [queue EXCEPT ![p].who = Nobody]
  BY Zenon DEF Sent
<1>2. /\ call' = [call EXCEPT ![a] = NoCall]
      /\ UNCHANGED <<handles, started, spawned, loopAt, pending, libp2p, running, calls>>
  BY DEF Sent
<1>3. call' \in [Actor -> UserState] /\ call'[a] = NoCall /\ \A b \in Actor \ {a} : call'[b] = call[b]
  BY <1>2, LifeTypes, Constants DEF LifeInv
<1>4. queue' \in Seq(Entry) /\ Queued(queue', call')
  BY <1>1, <1>3, ForsakeQueued, LifeTypes DEF LifeInv
<1>5. \A i \in Id : pending[i].who # a
  BY DEF LifeInv, Gathers, Sent, CallAt
<1>6. (\A i \in Id : Gathers(i, call)') /\ \A b \in Actor : Answered(b)'
  BY <1>2, <1>3, <1>5, OneCall, Constants
<1>7. LifeTypeOK'
  BY <1>2, <1>3, <1>4, LifeTypes DEF LifeInv, LifeTypeOK, UserState, Entry
<1>8. Silent' /\ Started'
  BY <1>2, <1>3, Constants DEF LifeInv, Silent, Started, CallAt
<1> QED
  BY <1>4, <1>6, <1>7, <1>8 DEF LifeInv

LEMMA ReturnInv ==
    ASSUME LifeInv, NEW u \in User, Return(u)
    PROVE  LifeInv'
<1>1. u \in Actor /\ call' = [call EXCEPT ![u] = NoCall] /\ call[u].pc = "told"
      /\ UNCHANGED <<handles, queue, pending, libp2p, running, calls>>
  BY Constants DEF Return, CallAt
<1>2. call' \in [Actor -> UserState] /\ call'[u] = NoCall /\ \A b \in Actor \ {u} : call'[b] = call[b]
  BY <1>1, LifeTypes, Constants DEF LifeInv
<1>3. /\ \A p \in 1 .. Len(queue) : queue[p].who # u
      /\ \A i \in Id : pending[i].who # u
  BY <1>1, NotInQueue
<1>4. Queued(queue', call')
  BY <1>1, <1>2, <1>3 DEF LifeInv, Queued
<1>5. (\A i \in Id : Gathers(i, call)') /\ \A b \in Actor : Answered(b)'
  BY <1>1, <1>2, <1>3, OneCall, Constants
<1>6. /\ started' \in BOOLEAN /\ spawned' \in Nat
      /\ loopAt' \in [Background -> {"none", "on", "over"}]
      /\ \A l \in Background : loopAt'[l] # "on" => loopAt'[l] = loopAt[l]
      /\ Started'
  <2>1. CASE UNCHANGED <<started, spawned, loopAt>>
    BY <2>1, LifeTypes DEF LifeInv, Started
  <2>2. CASE /\ ~started /\ started' = TRUE /\ spawned' = spawned + 1
             /\ loopAt' = [loopAt EXCEPT ![MaintenanceLoop] = "on"]
    BY <2>2, LifeTypes, Constants DEF LifeInv, Started
  <2> QED
    BY <2>1, <2>2 DEF Return
<1>7. LifeTypeOK'
  BY <1>1, <1>2, <1>6, LifeTypes DEF LifeInv, LifeTypeOK, UserState, Entry
<1>8. Silent'
  BY <1>1, <1>2, <1>6, Constants DEF LifeInv, Silent, CallAt
<1> QED
  BY <1>4, <1>5, <1>6, <1>7, <1>8 DEF LifeInv

LEMMA DropInv ==
    ASSUME LifeInv, NEW u \in User, Drop(u)
    PROVE  LifeInv'
<1>1. /\ u \in Actor /\ call' = [call EXCEPT ![u] = NoCall] /\ handles' = handles \ {u}
      /\ pending' = [i \in Id |-> IF pending[i].who = u THEN NoEntry ELSE pending[i]]
      /\ UNCHANGED <<started, spawned, loopAt, libp2p, running, calls>>
  BY Constants DEF Drop
<1>2. call' \in [Actor -> UserState] /\ call'[u] = NoCall /\ \A b \in Actor \ {u} : call'[b] = call[b]
  BY <1>1, LifeTypes, Constants DEF LifeInv
<1>3. queue' \in Seq(Entry) /\ Queued(queue', call')
  <2>1. CASE (\A p \in DOMAIN queue : queue[p].who # u) /\ UNCHANGED queue
    BY <1>2, <2>1, LifeTypes DEF LifeInv, Queued
  <2>2. CASE \E p \in DOMAIN queue : queue[p].who = u /\ p > Capacity /\ queue' = Without(p)
    <3>1. PICK p \in 1 .. Len(queue) : queue[p].who = u /\ queue' = Without(p)
      BY <2>2, LifeTypes DEF LifeInv
    <3> QED
      BY <1>1, <1>2, <3>1, LeaveQueued, LifeTypes DEF LifeInv
  <2>3. CASE \E p \in DOMAIN queue : /\ queue[p].who = u /\ p <= Capacity
                                     /\ queue' = [queue EXCEPT ![p].who = Nobody]
    <3>1. PICK p \in DOMAIN queue : /\ queue[p].who = u /\ p <= Capacity
                                   /\ queue' = [queue EXCEPT ![p].who = Nobody]
      BY <2>3, Zenon
    <3> DOMAIN queue = 1 .. Len(queue)
      BY LifeTypes DEF LifeInv
    <3> QED
      BY <1>1, <1>2, <3>1, ForsakeQueued, LifeTypes DEF LifeInv
  <2> QED
    BY <2>1, <2>2, <2>3 DEF Drop
<1>4. /\ pending' \in [Id -> PendingEntry]
      /\ \A i \in Id : pending'[i].who # u /\ (pending'[i].who \in Actor => pending'[i] = pending[i])
  BY <1>1, LifeTypes, Constants DEF LifeInv
<1>5. ASSUME NEW i \in Id PROVE Gathers(i, call)'
  BY <1>1, <1>2, <1>4 DEF LifeInv, Gathers
<1>6. ASSUME NEW b \in Actor PROVE Answered(b)'
  BY <1>1, <1>2, Constants DEF LifeInv, Answered, CallAt
<1>7. LifeTypeOK'
  BY <1>1, <1>2, <1>3, <1>4, LifeTypes DEF LifeInv, LifeTypeOK, UserState, Entry, PendingEntry
<1>8. Silent' /\ Started'
  BY <1>1, <1>2, Constants DEF LifeInv, Silent, Started, CallAt
<1> QED
  BY <1>3, <1>5, <1>6, <1>7, <1>8 DEF LifeInv

-----------------------------------------------------------------------------
(* The event loop *)

Rest == <<handles, started, spawned, loopAt, running, calls>>

\* What the event loop does keeps the actors silent, and the loops as they are.
LEMMA LoopFrame ==
    ASSUME LifeInv, UNCHANGED Rest, call' \in [Actor -> UserState],
           \A a \in Actor : CallAt(a, "idle") => CallAt(a, "idle")',
           queue' \in Seq(Entry), pending' \in [Id -> PendingEntry], libp2p' \in [Id -> Work]
    PROVE  LifeTypeOK' /\ Silent' /\ Started'
<1>1. LifeTypeOK'
  BY LifeTypes DEF LifeInv, LifeTypeOK, UserState, Entry, PendingEntry, Work, Rest
<1>2. Silent' /\ Started'
  BY Constants DEF LifeInv, Silent, Started, Rest
<1> QED
  BY <1>1, <1>2

\* The first command is taken and answered at once, if somebody waits for the answer.
LEMMA TakeInv ==
    ASSUME LifeInv, NEW ops, Takes(ops), UNCHANGED <<pending, libp2p>>, UNCHANGED Rest,
           call' \in [Actor -> UserState],
           \A b \in Actor : b # Command.who => call'[b] = call[b],
           Command.who \in Actor =>
               \/ call'[Command.who].pc = "idle"
               \/ /\ call'[Command.who].pc = "told" /\ call'[Command.who].from = 0
                  /\ call'[Command.who].id = call[Command.who].id
                  /\ call'[Command.who].op = call[Command.who].op /\ Command.op # "find"
    PROVE  LifeInv'
<1> DEFINE w == Head(queue).who
<1>1. /\ queue \in Seq(Entry) /\ queue # <<>> /\ Queued(queue, call)
      /\ queue' = Tail(queue) /\ Command = Head(queue)
  BY LifeTypes DEF LifeInv, Takes, Command
<1>2. /\ queue' \in Seq(Entry) /\ Queued(queue', call')
      /\ Head(queue) \in Entry
      /\ w \in Actor => /\ call[w].pc = Waits(Head(queue).op)
                         /\ call[w].id = 0 /\ call[w].op = Head(queue).op
  BY <1>1, TailQueued
<1>3. w \in Actor => \A i \in Id : pending[i].who # w
  BY <1>2, Constants DEF LifeInv, Gathers
<1>4. ASSUME NEW i \in Id PROVE Gathers(i, call)'
  BY <1>1, <1>3 DEF LifeInv, Gathers
<1>5. ASSUME NEW b \in Actor PROVE Answered(b)'
  BY <1>1, <1>2 DEF LifeInv, Answered, CallAt
<1>6. \A a \in Actor : CallAt(a, "idle") => CallAt(a, "idle")'
  BY <1>1, <1>2 DEF CallAt, Waits
<1>7. LifeTypeOK' /\ Silent' /\ Started'
  BY <1>2, <1>6, LoopFrame, LifeTypes DEF LifeInv
<1> QED
  BY <1>2, <1>4, <1>5, <1>7 DEF LifeInv

LEMMA AnswerInv == LifeInv /\ (AnswerNow \/ TakeTold \/ Refuse) => LifeInv'
<1> SUFFICES ASSUME LifeInv, AnswerNow \/ TakeTold \/ Refuse PROVE LifeInv'
  OBVIOUS
<1> DEFINE w == Command.who
<1>1. PICK ops \in SUBSET Op : Takes(ops) /\ "find" \notin ops
  <2>1. AnswerNow => Takes({"ask"})
    BY DEF AnswerNow
  <2>2. TakeTold => Takes({"tell"})
    BY DEF TakeTold
  <2>3. Refuse => Takes({"listen", "provide"})
    BY DEF Refuse
  <2> QED
    BY <2>1, <2>2, <2>3 DEF Op
<1>2. Command \in Entry /\ call \in [Actor -> UserState]
  BY <1>1, LifeTypes DEF LifeInv, Takes, Command
<1>3. UNCHANGED <<pending, libp2p>> /\ UNCHANGED Rest
  BY DEF AnswerNow, TakeTold, Refuse, Rest
<1>4. \/ UNCHANGED call /\ w = Nobody
      \/ w \in Actor /\ call' = [call EXCEPT ![w] = NoCall]
      \/ w \in Actor /\ \E ok \in BOOLEAN, found \in {{}, Peer} :
            call' = [call EXCEPT ![w].pc = "told", ![w].from = 0, ![w].ok = ok, ![w].found = found]
  <2>1. CASE AnswerNow
    BY <1>2, <2>1 DEF AnswerNow, Told, Entry
  <2>2. CASE TakeTold
    BY <1>2, <2>2 DEF TakeTold, Entry
  <2>3. CASE Refuse
    BY <1>2, <2>3 DEF Refuse, Told, Entry
  <2> QED
    BY <2>1, <2>2, <2>3
<1>5. CASE UNCHANGED call /\ w = Nobody
  BY <1>1, <1>2, <1>3, <1>5, Constants, TakeInv
<1>6. CASE w \in Actor /\ call' = [call EXCEPT ![w] = NoCall]
  <2>1. call' \in [Actor -> UserState] /\ call'[w].pc = "idle" /\ \A b \in Actor : b # w => call'[b] = call[b]
    BY <1>2, <1>6, Constants
  <2> QED
    BY <1>1, <1>3, <2>1, TakeInv
<1>7. CASE w \in Actor /\ \E ok \in BOOLEAN, found \in {{}, Peer} :
            call' = [call EXCEPT ![w].pc = "told", ![w].from = 0, ![w].ok = ok, ![w].found = found]
  <2>1. PICK ok \in BOOLEAN, found \in {{}, Peer} :
            call' = [call EXCEPT ![w].pc = "told", ![w].from = 0, ![w].ok = ok, ![w].found = found]
    BY <1>7
  <2>2. /\ call' \in [Actor -> UserState] /\ call'[w].pc = "told" /\ call'[w].from = 0
        /\ call'[w].id = call[w].id /\ call'[w].op = call[w].op
        /\ \A b \in Actor : b # w => call'[b] = call[b]
    BY <1>2, <1>7, <2>1 DEF UserState
  <2>3. Command.op # "find"
    BY <1>1 DEF Takes
  <2> QED
    BY <1>1, <1>3, <2>2, <2>3, TakeInv
<1> QED
  BY <1>4, <1>5, <1>6, <1>7

\* A query or a listener begins for who sent the first command.
LEMMA StartInv == LifeInv /\ StartWork => LifeInv'
<1> SUFFICES ASSUME LifeInv, StartWork PROVE LifeInv'
  OBVIOUS
<1> DEFINE w == Command.who
<1>1. PICK i \in Id : /\ Fresh(i)
                      /\ libp2p' = [libp2p EXCEPT ![i] = [state |-> "run", op |-> Command.op, found |-> {}]]
                      /\ pending' = [pending EXCEPT ![i] = [who |-> w, found |-> {}]]
                      /\ call' = IF w = Nobody THEN call ELSE [call EXCEPT ![w].id = i]
  BY DEF StartWork
<1>2. /\ queue \in Seq(Entry) /\ queue # <<>> /\ Queued(queue, call)
      /\ queue' = Tail(queue) /\ Command = Head(queue) /\ Command.op # "tell"
      /\ UNCHANGED Rest /\ call \in [Actor -> UserState]
      /\ pending \in [Id -> PendingEntry] /\ libp2p \in [Id -> Work]
  BY LifeTypes DEF LifeInv, StartWork, Takes, Command, Rest
<1>3. Head(queue) \in Entry /\ Command.op \in Op /\ (w = Nobody \/ w \in Actor)
  <2>1. Head(queue) \in Entry
    BY <1>2
  <2> QED
    BY <1>2, <2>1 DEF Entry
<1>4. /\ call' \in [Actor -> UserState]
      /\ \A b \in Actor : b # w => call'[b] = call[b]
      /\ w \in Actor => /\ call'[w].id = i /\ call'[w].op = call[w].op
                         /\ call'[w].pc = call[w].pc
  BY <1>1, <1>2, <1>3, Constants DEF UserState
<1>5. /\ queue' \in Seq(Entry) /\ Queued(queue', call')
      /\ w \in Actor => /\ call[w].pc = "wait" /\ call[w].id = 0 /\ call[w].op = Command.op
  BY <1>2, <1>4, TailQueued DEF Waits
<1>6. /\ pending' \in [Id -> PendingEntry] /\ libp2p' \in [Id -> Work]
      /\ pending'[i].who = w /\ pending'[i].found = {}
      /\ libp2p'[i].state = "run" /\ libp2p'[i].op = Command.op /\ libp2p'[i].found = {}
      /\ \A j \in Id \ {i} : pending'[j] = pending[j] /\ libp2p'[j] = libp2p[j]
  BY <1>1, <1>2, <1>3, Constants DEF PendingEntry, Work
<1>7. w \in Actor => \A j \in Id : pending[j].who # w
  BY <1>5, Constants DEF LifeInv, Gathers
<1>8. ASSUME NEW j \in Id PROVE Gathers(j, call)'
  <2>1. CASE j = i
    BY <1>4, <1>5, <1>6, <2>1 DEF Gathers
  <2>2. CASE j # i
    BY <1>4, <1>6, <1>7, <2>2 DEF LifeInv, Gathers
  <2> QED
    BY <2>1, <2>2
<1>9. ASSUME NEW b \in Actor PROVE Answered(b)'
  <2>1. call[b].id # i
    BY <1>1 DEF Fresh
  <2> QED
    BY <1>4, <1>5, <1>6, <2>1 DEF LifeInv, Answered, CallAt
<1>10. \A a \in Actor : CallAt(a, "idle") => CallAt(a, "idle")'
  BY <1>3, <1>4 DEF CallAt
<1>11. LifeTypeOK' /\ Silent' /\ Started'
  BY <1>2, <1>4, <1>5, <1>6, <1>10, LoopFrame
<1> QED
  BY <1>5, <1>8, <1>9, <1>11 DEF LifeInv

\* Who waits for i is told, and no longer pending; the other calls are as they were.
LEMMA ToldInv ==
    ASSUME LifeInv, NEW i \in Id, NEW ok \in BOOLEAN, NEW found \in SUBSET Peer,
           call' = Told(pending[i].who, i, ok, found), pending' = [pending EXCEPT ![i] = NoEntry],
           UNCHANGED queue, UNCHANGED Rest,
           libp2p' \in [Id -> Work], \A j \in Id : j # i => libp2p'[j] = libp2p[j],
           libp2p'[i].op = libp2p[i].op /\ libp2p'[i].found = libp2p[i].found,
           libp2p[i].op = "find" =>
               libp2p'[i].state # "run" /\ found = pending[i].found
    PROVE  LifeInv'
<1> DEFINE w == pending[i].who
<1>1. /\ call \in [Actor -> UserState] /\ pending \in [Id -> PendingEntry]
      /\ queue \in Seq(Entry) /\ Queued(queue, call)
  BY LifeTypes DEF LifeInv
<1>2. w = Nobody \/ w \in Actor
  BY <1>1 DEF PendingEntry
<1>3. /\ call' \in [Actor -> UserState]
      /\ \A b \in Actor : b # w => call'[b] = call[b]
      /\ w \in Actor => /\ call'[w].id = call[w].id /\ call'[w].op = call[w].op
                         /\ call'[w].pc = "told" /\ call'[w].from = i /\ call'[w].found = found
  <2>1. CASE w = Nobody
    BY <1>1, <2>1, Constants DEF Told
  <2>2. CASE w \in Actor
    <3>1. call' = [call EXCEPT ![w].pc = "told", ![w].from = i, ![w].ok = ok, ![w].found = found]
      BY <2>2, Constants DEF Told
    <3> HIDE DEF w
    <3> DEFINE r == [call[w] EXCEPT !.pc = "told", !.from = i, !.ok = ok, !.found = found]
    <3>2. call[w] \in UserState
      BY <1>1, <2>2
    <3>3. /\ r \in UserState /\ r.id = call[w].id /\ r.op = call[w].op
          /\ r.pc = "told" /\ r.from = i /\ r.found = found
      BY <3>2 DEF UserState
    <3>4. call' = [call EXCEPT ![w] = r]
      BY <1>1, <2>2, <3>1
    <3> HIDE DEF r
    <3> QED
      BY <1>1, <2>2, <3>3, <3>4
  <2> QED
    BY <1>2, <2>1, <2>2
<1>4. /\ pending' \in [Id -> PendingEntry] /\ pending'[i].who = Nobody
      /\ \A j \in Id \ {i} : pending'[j] = pending[j]
  BY <1>1, Constants
<1>5. w \in Actor => /\ call[w].pc = "wait" /\ call[w].id = i
                     /\ call[w].op = libp2p[i].op
                     /\ libp2p[i].op = "find" => found = libp2p[i].found
  BY DEF LifeInv, Gathers
<1>6. w \in Actor => \A p \in 1 .. Len(queue) : queue[p].who # w
  BY <1>1, <1>5, Constants DEF Queued
<1>7. Queued(queue', call')
  BY <1>1, <1>3, <1>6 DEF Queued
<1>8. ASSUME NEW j \in Id PROVE Gathers(j, call)'
  <2>1. CASE j = i
    BY <1>4, <2>1, Constants DEF Gathers
  <2>2. CASE j # i
    <3>1. pending[j].who \in Actor => pending[j].who # w
      BY <1>5, <2>2 DEF LifeInv, Gathers
    <3> QED
      BY <1>3, <1>4, <2>2, <3>1 DEF LifeInv, Gathers
  <2> QED
    BY <2>1, <2>2
<1>9. ASSUME NEW b \in Actor PROVE Answered(b)'
  <2>1. CASE b = w
    BY <1>3, <1>5, <2>1 DEF Answered, CallAt
  <2>2. CASE b # w
    <3>1. Answered(b) /\ call'[b] = call[b]
      BY <1>3, <2>2 DEF LifeInv
    <3>2. call[b].id = i /\ CallAt(b, "told") /\ call[b].op = "find" =>
             /\ libp2p[i].op = "find" /\ libp2p'[i].state # "run"
             /\ call[b].found = libp2p[i].found
      BY <3>1 DEF Answered
    <3> QED
      BY <3>1, <3>2 DEF Answered, CallAt
  <2> QED
    BY <2>1, <2>2
<1>10. \A a \in Actor : CallAt(a, "idle") => CallAt(a, "idle")'
  BY <1>3, <1>5 DEF CallAt
<1>11. LifeTypeOK' /\ Silent' /\ Started'
  BY <1>1, <1>3, <1>4, <1>10, LoopFrame
<1> QED
  BY <1>7, <1>8, <1>9, <1>11 DEF LifeInv

LEMMA AddressInv ==
    ASSUME LifeInv, NEW i \in Id, NewAddress(i)
    PROVE  LifeInv'
<1>1. libp2p \in [Id -> Work]
  BY LifeTypes DEF LifeInv
<1>2. /\ libp2p' = [libp2p EXCEPT ![i].state = "up"] /\ libp2p[i].op = "listen"
      /\ call' = Told(pending[i].who, i, TRUE, {})
      /\ pending' = [pending EXCEPT ![i] = NoEntry]
      /\ UNCHANGED queue /\ UNCHANGED Rest
  BY DEF NewAddress, Rest
<1>3. /\ libp2p' \in [Id -> Work] /\ \A j \in Id : j # i => libp2p'[j] = libp2p[j]
      /\ libp2p'[i].op = libp2p[i].op /\ libp2p'[i].found = libp2p[i].found
  BY <1>1, <1>2 DEF Work
<1>4. TRUE \in BOOLEAN /\ {} \in SUBSET Peer /\ libp2p[i].op # "find"
  BY <1>2
<1> QED
  BY <1>2, <1>3, <1>4, ToldInv

LEMMA LifeEndInv ==
    ASSUME LifeInv, NEW i \in Id, NEW ok \in BOOLEAN, WorkEnds(i, ok)
    PROVE  LifeInv'
<1>1. libp2p \in [Id -> Work] /\ pending \in [Id -> PendingEntry]
  BY LifeTypes DEF LifeInv
<1>2. /\ libp2p' = [libp2p EXCEPT ![i].state = "free"]
      /\ call' = Told(pending[i].who, i, ok, pending[i].found)
      /\ pending' = [pending EXCEPT ![i] = NoEntry]
      /\ UNCHANGED queue /\ UNCHANGED Rest
  BY DEF WorkEnds, Rest
<1>3. /\ libp2p' \in [Id -> Work] /\ \A j \in Id : j # i => libp2p'[j] = libp2p[j]
      /\ libp2p'[i].op = libp2p[i].op /\ libp2p'[i].found = libp2p[i].found
      /\ libp2p'[i].state # "run"
  BY <1>1, <1>2 DEF Work
<1>4. pending[i].found \in SUBSET Peer
  BY <1>1 DEF PendingEntry
<1> QED
  BY <1>2, <1>3, <1>4, ToldInv

\* A listener dies, or a query finds something: nobody is told.
LEMMA SilentWorkInv ==
    ASSUME LifeInv, NEW i \in Id, ListenerDies(i) \/ \E p \in Peer : ResultFound(i, p)
    PROVE  LifeInv'
<1>1. /\ libp2p \in [Id -> Work] /\ pending \in [Id -> PendingEntry]
      /\ call \in [Actor -> UserState] /\ queue \in Seq(Entry) /\ Queued(queue, call)
  BY LifeTypes DEF LifeInv
<1>2. UNCHANGED <<call, queue>> /\ UNCHANGED Rest
  BY DEF ListenerDies, ResultFound, Rest
<1>3. CASE ListenerDies(i)
  <2>1. /\ libp2p' \in [Id -> Work] /\ libp2p'[i].op = "listen" /\ libp2p[i].op = "listen"
        /\ \A j \in Id : j # i => libp2p'[j] = libp2p[j]
        /\ UNCHANGED pending
    BY <1>1, <1>3 DEF ListenerDies, Runs, Work
  <2>2. ASSUME NEW j \in Id PROVE Gathers(j, call)'
    BY <1>2, <2>1 DEF LifeInv, Gathers
  <2>3. ASSUME NEW b \in Actor PROVE Answered(b)'
    BY <1>2, <2>1 DEF LifeInv, Answered, CallAt
  <2>4. LifeTypeOK' /\ Silent' /\ Started'
    BY <1>1, <1>2, <2>1, LoopFrame DEF CallAt
  <2> QED
    BY <1>1, <1>2, <2>2, <2>3, <2>4 DEF LifeInv
<1>4. ASSUME NEW p \in Peer, ResultFound(i, p) PROVE LifeInv'
  <2>1. /\ libp2p' \in [Id -> Work] /\ libp2p'[i].op = "find" /\ libp2p[i].op = "find"
        /\ libp2p[i].state = "run" /\ libp2p'[i].state = "run"
        /\ libp2p'[i].found = libp2p[i].found \cup {p}
        /\ \A j \in Id : j # i => libp2p'[j] = libp2p[j]
    BY <1>1, <1>4 DEF ResultFound, Runs, Work
  <2>2. /\ pending' \in [Id -> PendingEntry]
        /\ \A j \in Id : j # i => pending'[j] = pending[j]
        /\ pending'[i].who = pending[i].who
        /\ pending[i].who \in Actor => pending'[i].found = pending[i].found \cup {p}
    <3>1. CASE pending[i].who = Nobody
      BY <1>1, <1>4, <3>1, Constants DEF ResultFound
    <3>2. CASE pending[i].who # Nobody
      BY <1>1, <1>4, <3>2 DEF ResultFound, PendingEntry
    <3> QED
      BY <3>1, <3>2
  <2>3. ASSUME NEW j \in Id PROVE Gathers(j, call)'
    <3>1. CASE j = i
      BY <1>2, <2>1, <2>2, <3>1 DEF LifeInv, Gathers
    <3>2. CASE j # i
      BY <1>2, <2>1, <2>2, <3>2 DEF LifeInv, Gathers
    <3> QED
      BY <3>1, <3>2
  <2>4. ASSUME NEW b \in Actor PROVE Answered(b)'
    <3>1. Answered(b)
      BY DEF LifeInv
    <3>2. CallAt(b, "told") /\ call[b].op = "find" => call[b].id # i
      BY <2>1, <3>1 DEF Answered
    <3> QED
      BY <1>2, <2>1, <3>1, <3>2 DEF Answered, CallAt
  <2>5. LifeTypeOK' /\ Silent' /\ Started'
    BY <1>1, <1>2, <2>1, <2>2, LoopFrame DEF CallAt
  <2> QED
    BY <1>1, <1>2, <2>3, <2>4, <2>5 DEF LifeInv
<1> QED
  BY <1>3, <1>4

\* The event loop ends when nobody is left who calls.
LEMMA StopInv == LifeInv /\ Stop => LifeInv'
<1> SUFFICES ASSUME LifeInv, Stop PROVE LifeInv'
  OBVIOUS
<1>1. \A a \in Actor : CallAt(a, "idle")
  BY DEF LifeInv, Silent, Stop, Actor
<1>2. /\ pending' \in [Id -> PendingEntry] /\ libp2p' \in [Id -> Work]
      /\ \A i \in Id : pending'[i].who = Nobody
      /\ UNCHANGED <<handles, started, spawned, loopAt, call, queue, calls>> /\ running' = FALSE
  BY Constants DEF Stop
<1>3. ASSUME NEW i \in Id PROVE Gathers(i, call)'
  BY <1>2, Constants DEF Gathers
<1>4. ASSUME NEW b \in Actor PROVE Answered(b)'
  BY <1>1, <1>2 DEF Answered, CallAt
<1>5. LifeTypeOK'
  BY <1>2, LifeTypes DEF LifeInv, LifeTypeOK, PendingEntry, Work, UserState, Entry
<1>6. Silent' /\ Started' /\ Queued(queue', call')
  BY <1>1, <1>2 DEF LifeInv, Silent, Started, CallAt
<1> QED
  BY <1>3, <1>4, <1>5, <1>6 DEF LifeInv

\* A background loop goes on, or ends.
LEMMA PassInv ==
    ASSUME LifeInv, NEW l \in Background, Passes(l)
    PROVE  LifeInv'
<1>1. l \in Actor /\ UNCHANGED <<handles, started, spawned, pending, libp2p, running, calls>>
  BY Constants DEF Passes, LoopRound, LoopTold
<1>2. call[l].pc \in {"idle", "told"}
  BY DEF Passes, LoopRound, LoopTold, CallAt
<1>3. loopAt[l] = "on"
  BY DEF LifeInv, Silent, Passes, LoopRound, LoopTold, CallAt
<1>4. ASSUME NEW op \in Op, Commands(l, op), UNCHANGED loopAt PROVE LifeInv'
  <2>1. /\ call' \in [Actor -> UserState] /\ queue' \in Seq(Entry)
        /\ Queued(queue', call')
        /\ \A i \in Id : Gathers(i, call)'
        /\ \A b \in Actor : Answered(b)'
        /\ \A b \in Actor \ {l} : call'[b] = call[b]
    BY <1>1, <1>2, <1>4, CommandsInv
  <2>2. LifeTypeOK'
    BY <1>1, <1>4, <2>1, LifeTypes DEF LifeInv, LifeTypeOK, UserState, Entry
  <2>3. Silent' /\ Started'
    BY <1>1, <1>3, <1>4, <2>1, Constants DEF LifeInv, Silent, Started, CallAt
  <2> QED
    BY <2>1, <2>2, <2>3 DEF LifeInv
<1>5. ASSUME call' = [call EXCEPT ![l] = NoCall], UNCHANGED <<queue, loopAt>> PROVE LifeInv'
  <2>1. call' \in [Actor -> UserState] /\ call'[l] = NoCall /\ \A b \in Actor \ {l} : call'[b] = call[b]
    BY <1>1, <1>5, LifeTypes, Constants DEF LifeInv
  <2>2. /\ \A p \in 1 .. Len(queue) : queue[p].who # l
        /\ \A i \in Id : pending[i].who # l
    BY <1>1, <1>2, NotInQueue
  <2>3. Queued(queue', call')
    BY <1>1, <1>5, <2>1, <2>2 DEF LifeInv, Queued
  <2>4. (\A i \in Id : Gathers(i, call)') /\ \A b \in Actor : Answered(b)'
    BY <1>1, <2>1, <2>2, OneCall, Constants
  <2>5. LifeTypeOK'
    BY <1>1, <1>5, <2>1, LifeTypes DEF LifeInv, LifeTypeOK, UserState, Entry
  <2>6. Silent' /\ Started'
    BY <1>1, <1>5, <2>1, Constants DEF LifeInv, Silent, Started, CallAt
  <2> QED
    BY <2>3, <2>4, <2>5, <2>6 DEF LifeInv
<1>6. ASSUME CallAt(l, "idle"), loopAt' = [loopAt EXCEPT ![l] = "over"], UNCHANGED <<call, queue>>
      PROVE  LifeInv'
  <2>1. loopAt' \in [Background -> {"none", "on", "over"}]
        /\ loopAt'[l] = "over" /\ \A k \in Background \ {l} : loopAt'[k] = loopAt[k]
    BY <1>6, LifeTypes DEF LifeInv
  <2>2. LifeTypeOK'
    BY <1>1, <1>6, <2>1, LifeTypes DEF LifeInv, LifeTypeOK, UserState, Entry, PendingEntry, Work
  <2>3. Silent' /\ Started'
    BY <1>1, <1>3, <1>6, <2>1, Constants DEF LifeInv, Silent, Started, CallAt
  <2>4. ASSUME NEW i \in Id PROVE Gathers(i, call)'
    BY <1>1, <1>6 DEF LifeInv, Gathers
  <2>5. ASSUME NEW b \in Actor PROVE Answered(b)'
    BY <1>1, <1>6 DEF LifeInv, Answered, CallAt
  <2>6. Queued(queue', call')
    BY <1>6 DEF LifeInv
  <2> QED
    BY <2>2, <2>3, <2>4, <2>5, <2>6 DEF LifeInv
<1>7. CASE LoopRound(l)
  <2>1. FollowOps \subseteq Op /\ "ask" \in Op
    BY LifeAssumption DEF Op
  <2> QED
    BY <1>4, <1>6, <1>7, <2>1 DEF LoopRound, LoopBegins
<1>8. CASE LoopTold(l)
  <2>1. "provide" \in Op /\ "tell" \in Op
    BY DEF Op
  <2>2. \/ Commands(l, "provide") \/ Commands(l, "tell")
        \/ call' = [call EXCEPT ![l] = NoCall] /\ UNCHANGED queue
    BY <1>8, Zenon DEF LoopTold
  <2> QED
    BY <1>4, <1>5, <1>8, <2>1, <2>2 DEF LoopTold
<1> QED
  BY <1>7, <1>8 DEF Passes

LEMMA LifeNextInv == LifeInv /\ [LifeNext]_lifeVars => LifeInv'
<1> SUFFICES ASSUME LifeInv, [LifeNext]_lifeVars PROVE LifeInv'
  OBVIOUS
<1>1. LifeNext \/ UNCHANGED lifeVars
  OBVIOUS
<1>2. CASE UNCHANGED lifeVars
  <2>1. UNCHANGED <<handles, started, spawned, loopAt, call, queue, pending, libp2p, running, calls>>
    BY <1>2 DEF lifeVars
  <2>2. LifeTypeOK' /\ Silent' /\ Started'
    BY <2>1 DEF LifeInv, LifeTypeOK, Silent, Started, CallAt
  <2>3. ASSUME NEW i \in Id PROVE Gathers(i, call)'
    BY <2>1 DEF LifeInv, Gathers
  <2>4. ASSUME NEW b \in Actor PROVE Answered(b)'
    BY <2>1 DEF LifeInv, Answered, CallAt
  <2> QED
    BY <2>1, <2>2, <2>3, <2>4 DEF LifeInv
<1>3. ASSUME NEW u \in User, (\E op \in UserOps : Calls(u, op)) \/ Return(u) \/ Drop(u)
      PROVE  LifeInv'
  BY <1>3, CallsInv, ReturnInv, DropInv
<1>4. ASSUME NEW a \in Actor, Sent(a) PROVE LifeInv'
  BY <1>4, SentInv
<1>5. CASE HandleCommand
  BY <1>5, AnswerInv, StartInv DEF HandleCommand
<1>6. ASSUME NEW i \in Id, Settles(i) \/ Ends(i) \/ \E p \in Peer : ResultFound(i, p)
      PROVE  LifeInv'
  BY <1>6, AddressInv, LifeEndInv, SilentWorkInv DEF Settles, Ends
<1>7. CASE Stop
  BY <1>7, StopInv
<1>8. ASSUME NEW l \in Background, Passes(l) PROVE LifeInv'
  BY <1>8, PassInv
<1> QED
  BY <1>1, <1>2, <1>3, <1>4, <1>5, <1>6, <1>7, <1>8 DEF LifeNext

LEMMA LifeHolds == LifeSpec => []LifeInv
BY LifeInitInv, LifeNextInv, PTL DEF LifeSpec

\* The state of the calls, the channel, the event loop and the background loops is what it
\* is declared to be (Node, EventLoop).
THEOREM LifeTypeCorrect == LifeSpec => []LifeTypeOK
BY LifeHolds, PTL DEF LifeInv

\* Of any number of calls at once, each gets the answer to its own question and all that
\* its query found (handle_command, handle_event, the maps of pending answers).
THEOREM AnswersReachTheirCalls == LifeSpec => []AnswersAreOwn
<1>1. LifeInv => AnswersAreOwn
  BY DEF LifeInv, AnswersAreOwn, Answered
<1> QED
  BY <1>1, LifeHolds, PTL

\* However many listens succeed at once, one maintenance loop is started, and none before
\* one has succeeded (Node::listen, maintenance_started).
THEOREM MaintainedOnce == LifeSpec => []OneMaintenance
<1>1. LifeInv => OneMaintenance
  BY DEF LifeInv, OneMaintenance, Started
<1> QED
  BY <1>1, LifeHolds, PTL

--------------------------------------------------------------------------------
(***************************************************************************)
(* Settings.  What a call was told of a setting lasts, for any callers,    *)
(* items, values and bounds.                                               *)
(***************************************************************************)

ChangerState == [pc: {"idle", "check", "change", "cut", "fill", "keep"},
              op: {"add", "remove", "block", "drop", "set"}, setting: Setting,
              of: Item \cup Value, next: Value \cup SUBSET Item, alone: BOOLEAN]

Busy(c) == ~At(c, "idle")
Writes(c) == change[c].pc \in {"cut", "fill"}
TakesAway(c) == change[c].op \in {"remove", "drop"}

\* A call knows its kind of setting, and never takes away an editor of the project.
Sound(c) == Busy(c) =>
    /\ SettingOf(c) \in Locked => change[c].of \in Item /\ change[c].op # "set"
    /\ SettingOf(c) \in Loose  => change[c].of \in Value /\ change[c].op = "set"
    /\ change[c].op = "block" => SettingOf(c) = "blocked"
    /\ change[c].op = "drop"  => SettingOf(c) = "subs"
    /\ SettingOf(c) = "editors" /\ TakesAway(c) => change[c].of \notin Compulsory
    /\ At(c, "check")  => SettingOf(c) \in Locked
    /\ At(c, "change") => SettingOf(c) # "profile"
    /\ At(c, "keep")   => SettingOf(c) = "profile"

\* Who writes a locked setting holds its lock, and writes what the memory holds.
Locks(c) == Writes(c) /\ SettingOf(c) \in Locked =>
    /\ lock[SettingOf(c)] = {c}
    /\ change[c].next = memory[SettingOf(c)]
    /\ (change[c].of \in memory[SettingOf(c)]) <=> ~TakesAway(c)
    /\ SettingOf(c) = "boots" /\ Cardinality(change[c].next) > MaxBoots =>
          \A p \in told : p.setting # "boots"

\* Who is alone with a loose setting finds what it has put there.
Finds(c) ==
    /\ At(c, "fill") /\ SettingOf(c) = "profile" => change[c].next = change[c].of
    /\ change[c].alone /\ SettingOf(c) \in Loose =>
          /\ Writes(c) /\ SettingOf(c) # "profile" =>
                change[c].next = change[c].of /\ memory[SettingOf(c)] = change[c].of
          /\ At(c, "keep") => file["profile"] = change[c].of

Only(c) == Busy(c) /\ change[c].alone /\ SettingOf(c) \in Loose =>
               \A d \in Caller \ {c} : Busy(d) => SettingOf(d) # SettingOf(c)

CallOK(c) == Sound(c) /\ Locks(c) /\ Finds(c) /\ Only(c)

Has(p, now) == IF p.setting \in Loose THEN now = p.of ELSE p.has <=> p.of \in now

\* What was told is true now, and will be after a restart.
True(p) ==
    /\ Has(p, memory[p.setting])
    /\ p.setting \in whole => Has(p, Loaded(p.setting))
    /\ p.setting \in Loose => \A c \in Caller : Busy(c) => SettingOf(c) # p.setting
    /\ p.setting = "editors" /\ p.of \in Compulsory => p.has

Finite == IsFiniteSet(memory["boots"]) /\ IsFiniteSet(file["boots"])

SettingsInv ==
    /\ SettingsTypeOK
    /\ Finite
    /\ \A c \in Caller : CallOK(c)
    /\ \A p \in told : True(p)

-----------------------------------------------------------------------------
(* The settings and their types *)

LEMMA Names ==
    /\ Locked = {"subs", "blocked", "boots", "editors"}
    /\ Loose = {"quota", "profile", "cold", "mdns", "watched"}
    /\ Setting = Locked \cup Loose /\ \A s \in Locked : s \notin Loose
BY DEF Locked, Loose, Flag, Setting

LEMMA ContentType ==
    ASSUME NEW m
    PROVE  m \in Content <=> /\ m = [s \in Setting |-> m[s]]
                             /\ \A s \in Locked : m[s] \in SUBSET Item
                             /\ \A s \in Loose : m[s] \in Value
<1>1. ASSUME m \in Content
      PROVE  /\ m = [s \in Setting |-> m[s]]
             /\ \A s \in Locked : m[s] \in SUBSET Item
             /\ \A s \in Loose : m[s] \in Value
  BY <1>1, Names DEF Content
<1>2. ASSUME m = [s \in Setting |-> m[s]],
             \A s \in Locked : m[s] \in SUBSET Item, \A s \in Loose : m[s] \in Value
      PROVE  m \in Content
  <2>1. \A s \in Setting : m[s] \in IF s \in Loose THEN Value ELSE SUBSET Item
    BY <1>2, Names
  <2>2. m \in [Setting -> Value \cup SUBSET Item]
    BY <1>2, <2>1
  <2> QED
    BY <2>1, <2>2 DEF Content
<1> QED
  BY <1>1, <1>2

LEMMA SettingsTypes ==
    SettingsTypeOK <=>
        /\ memory \in Content /\ file \in Content /\ whole \subseteq Setting
        /\ lock \in [Locked -> SUBSET Caller]
        /\ change \in [Caller -> ChangerState]
        /\ told \subseteq Promise
        /\ changes \in 0 .. MaxChanges
BY DEF SettingsTypeOK, ChangerState

\* One setting is given a value of its kind.
LEMMA PutType ==
    ASSUME NEW m \in Content, NEW s \in Setting, NEW x,
           s \in Locked => x \in SUBSET Item, s \in Loose => x \in Value,
           NEW n, n = [m EXCEPT ![s] = x]
    PROVE  n \in Content
<1>1. /\ m = [t \in Setting |-> m[t]]
      /\ \A t \in Locked : m[t] \in SUBSET Item
      /\ \A t \in Loose : m[t] \in Value
  BY ContentType
<1>2. n = [t \in Setting |-> n[t]] /\ n[s] = x /\ \A t \in Setting \ {s} : n[t] = m[t]
  BY <1>1
<1>3. (\A t \in Locked : n[t] \in SUBSET Item) /\ \A t \in Loose : n[t] \in Value
  BY <1>1, <1>2, Names
<1> QED
  BY <1>2, <1>3, ContentType

LEMMA DefaultType ==
    /\ Initially \in Content /\ [Initially EXCEPT !["editors"] = Compulsory] \in Content
    /\ Initially["boots"] = {} /\ NoChange \in ChangerState
    /\ NoChange.pc = "idle"
<1>1. Initially \in Content
  <2>1. Initially = [s \in Setting |-> Initially[s]]
    BY DEF Initially
  <2>2. (\A s \in Locked : Initially[s] = {}) /\ \A s \in Loose : Initially[s] = Default
    BY Names DEF Initially
  <2> QED
    BY <2>1, <2>2, ContentType, SettingsAssumption
<1>2. Initially["boots"] = {}
  BY Names DEF Initially
<1>3. NoChange \in ChangerState /\ NoChange.pc = "idle"
  BY SettingsAssumption, Names DEF NoChange, ChangerState
<1>4. "editors" \in Setting /\ "editors" \notin Loose
  BY Names
<1> QED
  BY <1>1, <1>2, <1>3, <1>4, PutType, SettingsAssumption

LEMMA LoadedType ==
    ASSUME SettingsInv
    PROVE  [s \in Setting |-> Loaded(s)] \in Content /\ IsFiniteSet(Loaded("boots"))
<1> DEFINE m == [s \in Setting |-> Loaded(s)]
<1>1. \A s \in Setting : Read(s) \in IF s \in Loose THEN Value ELSE SUBSET Item
  BY SettingsTypes, ContentType, DefaultType, Names DEF SettingsInv, Read
<1>2. Read("boots") \in SUBSET Item /\ Read("editors") \in SUBSET Item
  BY <1>1, Names
<1>3. LoadBootstraps \subseteq Read("boots") /\ IsFiniteSet(Read("boots"))
  BY DefaultType, FS_EmptySet DEF LoadBootstraps, Read, SettingsInv, Finite
<1>4. LoadEditors \in SUBSET Item
  BY <1>2, SettingsAssumption DEF LoadEditors
<1>5. Loaded("boots") = LoadBootstraps /\ Loaded("editors") = LoadEditors
      /\ \A s \in Setting \ {"boots", "editors"} : Loaded(s) = Read(s)
  BY DEF Loaded
<1>6. (\A s \in Locked : Loaded(s) \in SUBSET Item) /\ \A s \in Loose : Loaded(s) \in Value
  BY <1>1, <1>2, <1>3, <1>4, <1>5, Names
<1>7. m = [s \in Setting |-> m[s]] /\ \A s \in Setting : m[s] = Loaded(s)
  OBVIOUS
<1> HIDE DEF m
<1>8. m \in Content
  BY <1>6, <1>7, ContentType, Names
<1> QED
  BY <1>3, <1>5, <1>8, FS_Subset DEF m

LEMMA LoadedKept ==
    ASSUME NEW s \in Setting, s \in whole, s \in whole', file'[s] = file[s]
    PROVE  Loaded(s)' = Loaded(s)
BY DEF Loaded, LoadBootstraps, LoadEditors, Read

\* A set of addresses within its bound is loaded as it was written.
LEMMA WithinBound ==
    ASSUME NEW S \in SUBSET Item, IsFiniteSet(S), Cardinality(S) <= MaxBoots
    PROVE  {i \in S : Cardinality({j \in S : j < i}) < MaxBoots} = S
<1> SUFFICES ASSUME NEW i \in S
             PROVE  Cardinality({j \in S : j < i}) < MaxBoots
  OBVIOUS
<1>1. IsFiniteSet(S \ {i}) /\ Cardinality(S \ {i}) = Cardinality(S) - 1
  BY FS_RemoveElement
<1>2. {j \in S : j < i} \subseteq S \ {i}
  BY SettingsAssumption
<1>3. /\ Cardinality({j \in S : j < i}) <= Cardinality(S \ {i})
      /\ IsFiniteSet({j \in S : j < i})
  BY <1>1, <1>2, FS_Subset
<1>4. Cardinality({j \in S : j < i}) \in Nat /\ Cardinality(S) \in Nat
  BY <1>3, FS_CardinalityType
<1> QED
  BY <1>1, <1>3, <1>4, SettingsAssumption

\* What is written of a locked setting is what a restart will find.
LEMMA WrittenLasts ==
    ASSUME NEW p \in Promise, p.setting \in Locked,
           file'[p.setting] = memory'[p.setting], p.setting \in whole',
           memory'[p.setting] \in SUBSET Item,
           p.has <=> p.of \in memory'[p.setting],
           p.setting = "editors" /\ p.of \in Compulsory => p.has,
           p.setting = "boots" => /\ IsFiniteSet(memory'["boots"])
                                  /\ Cardinality(memory'["boots"]) <= MaxBoots
    PROVE  Has(p, Loaded(p.setting)')
<1>1. p.setting \notin Loose
  BY Names
<1>2. Read(p.setting)' = memory'[p.setting]
  BY DEF Read
<1>3. CASE p.setting = "boots"
  <2>1. LoadBootstraps' = memory'["boots"]
    BY <1>2, <1>3, WithinBound DEF LoadBootstraps
  <2> QED
    BY <1>1, <1>3, <2>1 DEF Has, Loaded
<1>4. CASE p.setting = "editors"
  BY <1>1, <1>2, <1>4 DEF Has, Loaded, LoadEditors
<1>5. CASE p.setting \notin {"boots", "editors"}
  BY <1>1, <1>2, <1>5 DEF Has, Loaded
<1> QED
  BY <1>3, <1>4, <1>5

-----------------------------------------------------------------------------
(* The invariant *)

LEMMA SettingsInitInv == SettingsInit => SettingsInv
<1> SUFFICES ASSUME SettingsInit PROVE SettingsInv
  OBVIOUS
<1>1. SettingsTypeOK
  BY DefaultType, SettingsTypes, SettingsAssumption DEF SettingsInit
<1>2. Finite
  <2>1. memory["boots"] = {} /\ file["boots"] = {}
    BY DefaultType, Names DEF SettingsInit, Initially
  <2> QED
    BY <2>1, FS_EmptySet DEF Finite
<1>3. ASSUME NEW c \in Caller PROVE CallOK(c)
  BY DefaultType DEF SettingsInit, CallOK, Sound, Locks, Finds, Only, Busy, Writes, At
<1> QED
  BY <1>1, <1>2, <1>3 DEF SettingsInv, SettingsInit

\* A call begins; on a loose setting, what was told is void.
LEMMA BeginInv ==
    ASSUME SettingsInv, NEW c \in Caller,
           NEW op \in {"add", "remove", "block", "drop", "set"}, NEW s \in Setting,
           NEW x \in Item \cup Value, NEW pc \in {"check", "change", "cut"},
           ChangeCall(c, op, s, x, pc),
           s \in Locked => x \in Item /\ op # "set" /\ pc # "cut",
           s \in Loose  => x \in Value /\ op = "set" /\ pc # "check",
           op = "block" => s = "blocked", op = "drop" => s = "subs",
           s = "editors" /\ op \in {"remove", "drop"} => x \notin Compulsory,
           pc = "change" => s # "profile", pc = "cut" => s = "profile"
    PROVE  SettingsInv'
<1> DEFINE others == {d \in Caller : ~At(d, "idle") /\ SettingOf(d) = s}
           r == [NoChange EXCEPT !.pc = pc, !.op = op, !.setting = s, !.of = x,
                                 !.alone = others = {}]
<1>1. /\ At(c, "idle") /\ UNCHANGED <<memory, file, whole, lock>>
      /\ changes < MaxChanges /\ changes' = changes + 1
      /\ change' = [d \in Caller |-> IF d = c THEN r
                                     ELSE [change[d] EXCEPT !.alone = @ /\ d \notin others]]
      /\ told' = IF s \in Loose THEN ToldOfOthers(s) ELSE told
  BY DEF ChangeCall, Counted
<1>2. /\ r \in ChangerState /\ r.pc = pc /\ r.op = op /\ r.setting = s /\ r.of = x
      /\ r.alone = (others = {})
  BY DefaultType DEF ChangerState, NoChange
<1>3. /\ change \in [Caller -> ChangerState] /\ changes \in 0 .. MaxChanges /\ told \subseteq Promise
  BY SettingsTypes DEF SettingsInv
<1> HIDE DEF r, others
<1>4. ASSUME NEW d \in Caller \ {c}
      PROVE  /\ change'[d] \in ChangerState
             /\ change'[d].pc = change[d].pc /\ change'[d].op = change[d].op
             /\ change'[d].setting = change[d].setting /\ change'[d].of = change[d].of
             /\ change'[d].next = change[d].next
             /\ change'[d].alone = (change[d].alone /\ d \notin others)
  <2>1. change[d] \in ChangerState
    BY <1>3
  <2>2. change'[d] = [change[d] EXCEPT !.alone = @ /\ d \notin others]
    BY <1>1
  <2> QED
    BY <2>1, <2>2 DEF ChangerState
<1>5. change'[c] = r
  BY <1>1
<1>6. SettingsTypeOK'
  <2>1. change' \in [Caller -> ChangerState]
    BY <1>1, <1>2, <1>4, <1>5
  <2>2. told' \subseteq told /\ changes' \in 0 .. MaxChanges
    BY <1>1, <1>3, SettingsAssumption DEF ToldOfOthers
  <2> QED
    BY <1>1, <1>3, <2>1, <2>2, SettingsTypes DEF SettingsInv, SettingsTypeOK, ChangerState
<1>7. \A p \in told' : p \in told /\ (s \in Loose => p.setting # s)
  BY <1>1 DEF ToldOfOthers
<1>8. CallOK(c)'
  <2>1. Sound(c)' /\ Locks(c)' /\ Finds(c)'
    BY <1>2, <1>5, Names DEF Sound, Locks, Finds, Busy, Writes, At, SettingOf, TakesAway
  <2>2. Only(c)'
    <3>1. SUFFICES ASSUME r.alone, NEW d \in Caller \ {c}, change[d].pc # "idle"
                   PROVE  change[d].setting # s
      BY <1>2, <1>4, <1>5, Zenon DEF Only, Busy, At, SettingOf
    <3>2. d \notin others
      BY <1>2, <3>1
    <3> QED
      BY <3>1, <3>2 DEF others, At, SettingOf
  <2> QED
    BY <2>1, <2>2 DEF CallOK
<1>9. ASSUME NEW d \in Caller \ {c} PROVE CallOK(d)'
  <2>1. CallOK(d)
    BY DEF SettingsInv
  <2>2. Sound(d)'
    BY <1>4, <2>1 DEF CallOK, Sound, Busy, At, SettingOf, TakesAway
  <2>3. Locks(d)'
    BY <1>1, <1>4, <1>7, <2>1 DEF CallOK, Locks, Writes, SettingOf, TakesAway
  <2>4. Finds(d)'
    BY <1>1, <1>4, <2>1 DEF CallOK, Finds, Writes, At, SettingOf
  <2>5. Only(d)'
    <3>1. SUFFICES ASSUME change'[d].pc # "idle", change'[d].alone, change'[d].setting \in Loose,
                          NEW e \in Caller \ {d}, change'[e].pc # "idle"
                   PROVE  change'[e].setting # change'[d].setting
      BY Zenon DEF Only, Busy, At, SettingOf
    <3>2. change[d].alone /\ d \notin others /\ change[d].pc # "idle" /\ change[d].setting \in Loose
      BY <1>4, <3>1
    <3>3. CASE e = c
      <4>1. change[d].setting # s
        BY <3>2 DEF others, At, SettingOf
      <4> QED
        BY <1>2, <1>4, <1>5, <3>3, <4>1
    <3>4. CASE e # c
      BY <1>4, <2>1, <3>1, <3>2, <3>4 DEF CallOK, Only, Busy, At, SettingOf
    <3> QED
      BY <3>3, <3>4
  <2> QED
    BY <2>2, <2>3, <2>4, <2>5 DEF CallOK
<1>10. ASSUME NEW p \in told' PROVE True(p)'
  <2>1. True(p) /\ p \in Promise
    BY <1>3, <1>7 DEF SettingsInv
  <2>2. p.setting \in whole' => Has(p, Loaded(p.setting)')
    BY <1>1, <2>1, LoadedKept DEF True, Promise
  <2> QED
    BY <1>1, <1>2, <1>4, <1>5, <1>7, <2>1, <2>2 DEF True, Has, Busy, At, SettingOf
<1> QED
  BY <1>1, <1>6, <1>8, <1>9, <1>10 DEF SettingsInv, Finite

LEMMA CallOnInv == ASSUME SettingsInv, NEW c \in Caller, CallOn(c) PROVE SettingsInv'
<1>1. ASSUME NEW i \in Item, Subscribe(c, i) \/ AddBootstrap(c, i) PROVE SettingsInv'
  BY <1>1, BeginInv, Names DEF Subscribe, AddBootstrap
<1>2. ASSUME NEW i \in Item,
             \/ Unsubscribe(c, i) \/ UnblockChannel(c, i) \/ UnfollowEditor(c, i)
      PROVE  SettingsInv'
  BY <1>2, BeginInv, Names DEF Unsubscribe, UnblockChannel, UnfollowEditor
<1>3. ASSUME NEW i \in Item, BlockChannel(c, i) \/ FollowEditor(c, i) PROVE SettingsInv'
  BY <1>3, BeginInv, Names DEF BlockChannel, FollowEditor
<1>4. ASSUME NEW x \in Value, SetChannelProfile(c, x) PROVE SettingsInv'
  BY <1>4, BeginInv, Names DEF SetChannelProfile
<1>5. ASSUME NEW x \in Value,
             \/ SetSeedQuota(c, x) \/ SetColdRetrieval(c, x)
             \/ SetMdns(c, x) \/ SetSeedWatched(c, x)
      PROVE  SettingsInv'
  BY <1>5, BeginInv, Names DEF SetSeedQuota, SetColdRetrieval, SetMdns, SetSeedWatched
<1> QED
  BY <1>1, <1>2, <1>3, <1>4, <1>5 DEF CallOn

\* What one call does leaves the others as sound as they were.
LEMMA OthersOK ==
    ASSUME SettingsInv, NEW c \in Caller, Busy(c), NEW s, s = SettingOf(c),
           \A d \in Caller \ {c} : change'[d] = change[d],
           change'[c].pc # "idle" => change'[c].setting = s \/ change'[c].setting \in Locked,
           \A t \in Setting \ {s} : memory'[t] = memory[t] /\ file'[t] = file[t],
           \A t \in Locked \ {s} : lock'[t] \in {lock[t], lock[t] \ {c}},
           \/ s \in Loose
           \/ lock[s] \subseteq {c}
           \/ memory'[s] = memory[s] /\ lock'[s] = lock[s] /\ \A p \in told' : p \in told,
           \A p \in told' : p \in told \/ p.setting = s
    PROVE  \A d \in Caller \ {c} : CallOK(d)'
<1> SUFFICES ASSUME NEW d \in Caller \ {c} PROVE CallOK(d)'
  OBVIOUS
<1>1. CallOK(d) /\ change'[d] = change[d] /\ change[d] \in ChangerState
  BY SettingsTypes DEF SettingsInv
<1>2. Sound(d)'
  BY <1>1 DEF CallOK, Sound, Busy, At, SettingOf, TakesAway
<1>3. Locks(d)'
  <2> SUFFICES ASSUME Writes(d), SettingOf(d) \in Locked
               PROVE  Locks(d)'
    BY <1>1 DEF Locks, Writes, SettingOf
  <2>1. Locks(d) /\ lock[SettingOf(d)] = {d}
    BY <1>1 DEF CallOK, Locks
  <2>2. CASE SettingOf(d) # s
    BY <1>1, <2>1, <2>2, Names DEF Locks, Writes, SettingOf, TakesAway
  <2>3. CASE SettingOf(d) = s
    <3>1. memory'[s] = memory[s] /\ lock'[s] = lock[s] /\ \A p \in told' : p \in told
      BY <2>1, <2>3, Names
    <3> QED
      BY <1>1, <2>1, <2>3, <3>1 DEF Locks, Writes, SettingOf, TakesAway
  <2> QED
    BY <2>2, <2>3
<1>4. Finds(d)'
  <2>1. Finds(d) /\ Only(d) /\ Sound(d)
    BY <1>1 DEF CallOK
  <2>2. change[d].alone /\ SettingOf(d) \in Loose /\ Busy(d) => SettingOf(d) # s
    BY <2>1 DEF Only
  <2>3. At(d, "keep") => SettingOf(d) = "profile"
    BY <2>1 DEF Sound, Busy, At
  <2> QED
    BY <1>1, <2>1, <2>2, <2>3, Names DEF Finds, Writes, At, SettingOf, Busy
<1>5. Only(d)'
  <2> SUFFICES ASSUME change[d].pc # "idle", change[d].alone, change[d].setting \in Loose,
                      NEW e \in Caller \ {d}, change'[e].pc # "idle"
               PROVE  change'[e].setting # change[d].setting
    BY <1>1, Zenon DEF Only, Busy, At, SettingOf
  <2>1. change[d].setting # s /\ \A f \in Caller \ {d} : change[f].pc # "idle" =>
                                   change[f].setting # change[d].setting
    BY <1>1 DEF CallOK, Only, Busy, At, SettingOf
  <2>2. CASE e = c
    BY <2>1, <2>2, Names
  <2>3. CASE e # c
    BY <2>1, <2>3
  <2> QED
    BY <2>2, <2>3
<1> QED
  BY <1>2, <1>3, <1>4, <1>5 DEF CallOK

\* A call that changes nothing of the settings goes on, or ends.
LEMMA QuietInv ==
    ASSUME SettingsInv, NEW c \in Caller, Busy(c), UNCHANGED <<memory, file, whole, told, changes>>,
           NEW r \in ChangerState, change' = [change EXCEPT ![c] = r],
           (lock' = lock) \/ (Writes(c) /\ lock' = Unlocked(c)),
           r.pc # "idle" => /\ r.pc = "change" /\ r.setting = SettingOf(c)
                            /\ r.op = change[c].op /\ r.of = change[c].of
                            /\ SettingOf(c) \in Locked
    PROVE  SettingsInv'
<1> DEFINE s == SettingOf(c)
<1>1. /\ change \in [Caller -> ChangerState] /\ lock \in [Locked -> SUBSET Caller]
      /\ change[c] \in ChangerState /\ CallOK(c)
  BY SettingsTypes DEF SettingsInv
<1>2. change'[c] = r /\ \A d \in Caller \ {c} : change'[d] = change[d]
  BY <1>1
<1>3. /\ lock' \in [Locked -> SUBSET Caller]
      /\ \A t \in Locked \ {s} : lock'[t] \in {lock[t], lock[t] \ {c}}
      /\ (lock' = lock) \/ (s \in Loose) \/ (lock[s] \subseteq {c})
  <2>1. Writes(c) /\ s \in Locked => lock[s] = {c}
    BY <1>1 DEF CallOK, Locks
  <2>2. s \in Locked \/ s \in Loose
    BY <1>1, Names DEF ChangerState, SettingOf
  <2> QED
    BY <1>1, <2>1, <2>2 DEF Unlocked
<1>4. change' \in [Caller -> ChangerState]
  BY <1>1
<1>5. SettingsTypeOK'
  BY <1>3, <1>4, SettingsTypes DEF SettingsInv, SettingsTypeOK, ChangerState
<1> HIDE DEF s
<1>6. \A d \in Caller \ {c} : CallOK(d)'
  <2>1. s = SettingOf(c)
    BY DEF s
  <2> QED
    BY <1>2, <1>3, <2>1, OthersOK
<1>7. CallOK(c)'
  <2>1. CASE r.pc = "idle"
    BY <1>2, <2>1 DEF CallOK, Sound, Locks, Finds, Only, Busy, Writes, At
  <2>2. CASE r.pc # "idle"
    <3>1. Sound(c) /\ SettingOf(c) \in Locked /\ SettingOf(c) \notin Loose
      BY <1>1, <2>2, Names DEF CallOK
    <3>2. Sound(c)'
      BY <1>2, <2>2, <3>1, Names DEF Sound, Busy, At, SettingOf, TakesAway
    <3> QED
      BY <1>2, <2>2, <3>1, <3>2 DEF CallOK, Locks, Finds, Only, Busy, Writes, At, SettingOf
  <2> QED
    BY <2>1, <2>2
<1>8. ASSUME NEW p \in told' PROVE True(p)'
  <2>1. True(p) /\ p.setting \in Setting
    BY SettingsTypes DEF SettingsInv, SettingsTypeOK, Promise
  <2>2. p.setting \in whole' => Has(p, Loaded(p.setting)')
    BY <2>1, LoadedKept DEF True
  <2>3. ASSUME p.setting \in Loose, NEW d \in Caller, change'[d].pc # "idle"
        PROVE  change'[d].setting # p.setting
    BY <1>2, <2>1, <2>3, Names DEF True, Busy, At, SettingOf
  <2> QED
    BY <2>1, <2>2, <2>3 DEF True, Has, Busy, At, SettingOf
<1> QED
  BY <1>5, <1>6, <1>7, <1>8 DEF SettingsInv, Finite

LEMMA LookFirstInv == ASSUME SettingsInv, NEW c \in Caller, LookFirst(c) PROVE SettingsInv'
<1> DEFINE r == IF Refused(change[c].setting, change[c].of) THEN NoChange
                ELSE [change[c] EXCEPT !.pc = "change"]
<1>1. change \in [Caller -> ChangerState] /\ change[c] \in ChangerState /\ Sound(c)
  BY SettingsTypes DEF SettingsInv, CallOK
<1>2. change[c].pc = "check" /\ Busy(c) /\ SettingOf(c) \in Locked
  BY <1>1 DEF LookFirst, Busy, At, Sound
<1>3. /\ r \in ChangerState
      /\ r.pc # "idle" => /\ r.pc = "change" /\ r.setting = SettingOf(c)
                          /\ r.op = change[c].op /\ r.of = change[c].of
  <2>1. [change[c] EXCEPT !.pc = "change"] \in ChangerState
    BY <1>1 DEF ChangerState
  <2>2. change[c].setting = [change[c] EXCEPT !.pc = "change"].setting
        /\ [change[c] EXCEPT !.pc = "change"].op = change[c].op
        /\ [change[c] EXCEPT !.pc = "change"].of = change[c].of
        /\ [change[c] EXCEPT !.pc = "change"].pc = "change"
    BY <1>1 DEF ChangerState
  <2> QED
    BY <2>1, <2>2, DefaultType DEF SettingOf
<1>4. /\ UNCHANGED <<memory, file, whole, lock, told, changes>>
      /\ change' = [change EXCEPT ![c] = r]
  BY <1>1 DEF LookFirst
<1> HIDE DEF r
<1> QED
  BY <1>2, <1>3, <1>4, QuietInv

LEMMA SettingEndInv == ASSUME SettingsInv, NEW c \in Caller, NothingToDrop(c) \/ WriteFailed(c) PROVE SettingsInv'
<1>1. /\ Busy(c) /\ UNCHANGED <<memory, file, whole, told, changes>>
      /\ change' = [change EXCEPT ![c] = NoChange]
      /\ (lock' = lock) \/ (Writes(c) /\ lock' = Unlocked(c))
  BY DEF NothingToDrop, WriteFailed, Busy, Writes, At
<1> QED
  BY <1>1, DefaultType, QuietInv

\* The memory changes.
LEMMA SettingChangeInv == ASSUME SettingsInv, NEW c \in Caller, Change(c) PROVE SettingsInv'
<1> DEFINE s == SettingOf(c)
           x == change[c].of
           r == [change[c] EXCEPT !.pc = "cut", !.next = Changed(c)]
<1>1. /\ change \in [Caller -> ChangerState] /\ change[c] \in ChangerState /\ CallOK(c)
      /\ memory \in Content /\ lock \in [Locked -> SUBSET Caller] /\ told \subseteq Promise
  BY SettingsTypes DEF SettingsInv
<1>2. /\ change[c].pc = "change" /\ (s \in Locked => lock[s] = {})
      /\ lock' = [l \in Locked |-> IF l = s THEN {c} ELSE lock[l]]
      /\ memory' = [memory EXCEPT ![s] = Changed(c)]
      /\ change' = [change EXCEPT ![c] = r]
      /\ told' = IF s = "boots" /\ Cardinality(Changed(c)) > MaxBoots
                 THEN ToldOfOthers(s) ELSE ToldBut(s, x)
      /\ UNCHANGED <<file, whole, changes>>
  BY <1>1 DEF Change, At
<1>3. /\ s \in Setting /\ s # "profile" /\ (s \in Locked \/ s \in Loose)
      /\ s \in Locked => x \in Item /\ change[c].op # "set"
      /\ s \in Loose => x \in Value /\ change[c].op = "set"
      /\ s = "editors" /\ TakesAway(c) => x \notin Compulsory
  BY <1>1, <1>2, Names DEF CallOK, Sound, Busy, At, ChangerState, SettingOf
<1>4. /\ s \in Locked /\ TakesAway(c) => Changed(c) = memory[s] \ {x}
      /\ s \in Locked /\ ~TakesAway(c) => Changed(c) = memory[s] \cup {x}
      /\ s \in Locked => Changed(c) \in SUBSET Item
      /\ s \in Loose => Changed(c) = x /\ Changed(c) \in Value
  <2>1. s \in Locked => memory[s] \in SUBSET Item
    BY <1>1, ContentType
  <2>2. change[c].op \in {"add", "remove", "block", "drop", "set"}
    BY <1>1 DEF ChangerState
  <2>3. CASE change[c].op = "set"
    BY <1>3, <2>3, Names DEF Changed
  <2>4. CASE change[c].op \in {"remove", "drop"}
    <3>1. Changed(c) = memory[s] \ {x} /\ TakesAway(c) /\ s \notin Loose
      BY <1>3, <2>4 DEF Changed, TakesAway
    <3> QED
      BY <2>1, <3>1
  <2>5. CASE change[c].op \in {"add", "block"}
    <3>1. Changed(c) = memory[s] \cup {x} /\ ~TakesAway(c) /\ s \notin Loose
      BY <1>3, <2>5 DEF Changed, TakesAway
    <3> QED
      BY <1>3, <2>1, <3>1
  <2> QED
    BY <2>2, <2>3, <2>4, <2>5
<1> DEFINE y == Changed(c)
<1> HIDE DEF y
<1>5. /\ memory' \in Content /\ memory'[s] = Changed(c)
      /\ \A t \in Setting \ {s} : memory'[t] = memory[t]
  <2>1. (s \in Locked => y \in SUBSET Item) /\ (s \in Loose => y \in Value)
        /\ memory' = [memory EXCEPT ![s] = y]
    BY <1>2, <1>4 DEF y
  <2> HIDE DEF s
  <2>2. memory \in Content /\ s \in Setting
    BY <1>1, <1>3
  <2>3. memory' \in Content
    BY <2>1, <2>2, PutType
  <2>4. memory = [t \in Setting |-> memory[t]]
    BY <2>2, ContentType
  <2>5. memory'[s] = y /\ \A t \in Setting \ {s} : memory'[t] = memory[t]
    BY <2>1, <2>2, <2>4
  <2> QED
    BY <2>3, <2>5 DEF y
<1>6. /\ r \in ChangerState /\ r.pc = "cut" /\ r.next = Changed(c)
      /\ r.setting = s /\ r.of = x /\ r.op = change[c].op /\ r.alone = change[c].alone
  <2>1. Changed(c) \in Value \cup SUBSET Item
    BY <1>3, <1>4
  <2> QED
    BY <1>1, <2>1 DEF ChangerState, SettingOf
<1>7. change'[c] = r /\ \A d \in Caller \ {c} : change'[d] = change[d]
  BY <1>1, <1>2
<1>8. /\ \A p \in told' : p \in told /\ (p.setting # s \/ p.of # x)
      /\ s = "boots" /\ Cardinality(Changed(c)) > MaxBoots => \A p \in told' : p.setting # "boots"
  BY <1>2 DEF ToldOfOthers, ToldBut
<1>9. change' \in [Caller -> ChangerState] /\ lock' \in [Locked -> SUBSET Caller]
  BY <1>1, <1>2, <1>6
<1>10. SettingsTypeOK'
  BY <1>1, <1>2, <1>5, <1>8, <1>9, SettingsTypes DEF SettingsInv, SettingsTypeOK, ChangerState
<1>11. Busy(c) /\ s = SettingOf(c)
  BY <1>2 DEF Busy, At
<1> HIDE DEF r, s, x
<1>12. \A d \in Caller \ {c} : CallOK(d)'
  BY <1>2, <1>3, <1>5, <1>6, <1>7, <1>8, <1>11, OthersOK
<1>13. CallOK(c)'
  <2>1. Sound(c)'
    BY <1>1, <1>3, <1>6, <1>7, <1>11 DEF CallOK, Sound, Busy, At, SettingOf, TakesAway, x
  <2>2. Locks(c)'
    BY <1>2, <1>3, <1>4, <1>5, <1>6, <1>7, <1>8 DEF Locks, Writes, SettingOf, TakesAway
  <2>3. Finds(c)'
    BY <1>3, <1>4, <1>5, <1>6, <1>7 DEF Finds, Writes, At, SettingOf
  <2>4. Only(c)'
    BY <1>1, <1>6, <1>7, <1>11 DEF CallOK, Only, Busy, At, SettingOf
  <2> QED
    BY <2>1, <2>2, <2>3, <2>4 DEF CallOK
<1>14. ASSUME NEW p \in told' PROVE True(p)'
  <2>1. True(p) /\ p.setting \in Setting
    BY <1>1, <1>8 DEF SettingsInv, Promise
  <2>2. p.setting \in whole' => Has(p, Loaded(p.setting)')
    BY <1>2, <2>1, LoadedKept DEF True
  <2>3. Has(p, memory'[p.setting])
    <3>1. CASE p.setting # s
      BY <1>5, <2>1, <3>1 DEF True
    <3>2. CASE p.setting = s
      <4>1. s \notin Loose
        BY <1>11, <2>1, <3>2 DEF True
      <4>2. p.of # x
        BY <1>8, <3>2
      <4> QED
        BY <1>3, <1>4, <1>5, <2>1, <3>2, <4>1, <4>2 DEF True, Has
    <3> QED
      BY <3>1, <3>2
  <2>4. ASSUME p.setting \in Loose, NEW d \in Caller, change'[d].pc # "idle"
        PROVE  change'[d].setting # p.setting
    BY <1>6, <1>7, <1>11, <2>1, <2>4 DEF True, Busy, At, SettingOf
  <2> QED
    BY <2>1, <2>2, <2>3, <2>4 DEF True, Busy, At, SettingOf
<1>15. Finite'
  <2>1. CASE s # "boots"
    BY <1>2, <1>5, <2>1, Names DEF SettingsInv, Finite
  <2>2. CASE s = "boots"
    <3>1. IsFiniteSet(memory[s]) /\ s \in Locked
      BY <2>2, Names DEF SettingsInv, Finite
    <3>2. IsFiniteSet(memory[s] \cup {x}) /\ IsFiniteSet(memory[s] \ {x})
      BY <3>1, FS_AddElement, FS_RemoveElement
    <3> QED
      BY <1>2, <1>4, <1>5, <2>2, <3>1, <3>2 DEF SettingsInv, Finite
  <2> QED
    BY <2>1, <2>2
<1> QED
  BY <1>10, <1>12, <1>13, <1>14, <1>15 DEF SettingsInv

\* The file is cut.
LEMMA CutInv == ASSUME SettingsInv, NEW c \in Caller, Cut(c) PROVE SettingsInv'
<1> DEFINE s == SettingOf(c)
           r == [change[c] EXCEPT !.pc = "fill",
                                  !.next = IF s = "profile" THEN change[c].of ELSE @]
<1>1. /\ change \in [Caller -> ChangerState] /\ change[c] \in ChangerState /\ CallOK(c)
      /\ told \subseteq Promise
  BY SettingsTypes DEF SettingsInv
<1>2. /\ change[c].pc = "cut" /\ whole' = whole \ {s}
      /\ change' = [change EXCEPT ![c] = r]
      /\ UNCHANGED <<memory, file, lock, told, changes>>
  BY <1>1 DEF Cut, At
<1>3. /\ s \in Setting /\ (s \in Locked => s \notin Loose) /\ s = change[c].setting
      /\ s = "profile" => change[c].of \in Value
  BY <1>1, <1>2, Names DEF CallOK, Sound, Busy, At, ChangerState, SettingOf
<1>4. /\ r \in ChangerState /\ r.pc = "fill" /\ r.setting = s /\ r.of = change[c].of
      /\ r.op = change[c].op /\ r.alone = change[c].alone
      /\ r.next = IF s = "profile" THEN change[c].of ELSE change[c].next
  <2>1. (IF s = "profile" THEN change[c].of ELSE change[c].next) \in Value \cup SUBSET Item
    BY <1>1, <1>3 DEF ChangerState
  <2> QED
    BY <1>1, <1>3, <2>1 DEF ChangerState
<1>5. change'[c] = r /\ \A d \in Caller \ {c} : change'[d] = change[d]
  BY <1>1, <1>2
<1>6. change' \in [Caller -> ChangerState]
  BY <1>1, <1>2, <1>4
<1>7. SettingsTypeOK'
  BY <1>2, <1>6, SettingsTypes DEF SettingsInv, SettingsTypeOK, ChangerState
<1>8. Busy(c) /\ s = SettingOf(c)
  BY <1>2 DEF Busy, At
<1> HIDE DEF r, s
<1>9. \A d \in Caller \ {c} : CallOK(d)'
  BY <1>2, <1>4, <1>5, <1>8, OthersOK
<1>10. CallOK(c)'
  <2>1. Sound(c)'
    BY <1>1, <1>4, <1>5, <1>8 DEF CallOK, Sound, Busy, At, SettingOf, TakesAway
  <2>2. Locks(c)'
    <3>1. s \in Locked => s # "profile"
      BY Names
    <3> QED
      BY <1>1, <1>2, <1>4, <1>5, <1>8, <3>1 DEF CallOK, Locks, Writes, SettingOf, TakesAway
  <2>3. Finds(c)'
    BY <1>1, <1>2, <1>4, <1>5, <1>8 DEF CallOK, Finds, Writes, At, SettingOf
  <2>4. Only(c)'
    BY <1>1, <1>4, <1>5, <1>8 DEF CallOK, Only, Busy, At, SettingOf
  <2> QED
    BY <2>1, <2>2, <2>3, <2>4 DEF CallOK
<1>11. ASSUME NEW p \in told' PROVE True(p)'
  <2>1. True(p) /\ p.setting \in Setting
    BY <1>1, <1>2 DEF SettingsInv, Promise
  <2>2. p.setting \in whole' => Has(p, Loaded(p.setting)')
    BY <1>2, <2>1, LoadedKept DEF True
  <2>3. ASSUME p.setting \in Loose, NEW d \in Caller, change'[d].pc # "idle"
        PROVE  change'[d].setting # p.setting
    BY <1>4, <1>5, <1>8, <2>1, <2>3 DEF True, Busy, At, SettingOf
  <2> QED
    BY <1>2, <2>1, <2>2, <2>3 DEF True, Has, Busy, At, SettingOf
<1> QED
  BY <1>2, <1>7, <1>9, <1>10, <1>11 DEF SettingsInv, Finite

\* The file is filled, and a call that was alone, or held the lock, is told so.
LEMMA FillInv == ASSUME SettingsInv, NEW c \in Caller, Fill(c) PROVE SettingsInv'
<1> DEFINE s == SettingOf(c)
           mine == change[c].next
           new == [setting |-> s, of |-> change[c].of, has |-> change[c].op \notin {"remove", "drop"}]
           Telling == /\ s \in Locked \/ change[c].alone
                      /\ s # "profile" /\ (s = "boots" => Cardinality(mine) <= MaxBoots)
           drops == [change[c] EXCEPT !.op = "drop", !.setting = "subs", !.pc = "change"]
           keeps == [change[c] EXCEPT !.pc = "keep"]
<1>1. /\ change \in [Caller -> ChangerState] /\ change[c] \in ChangerState /\ CallOK(c)
      /\ told \subseteq Promise /\ file \in Content /\ memory \in Content
      /\ lock \in [Locked -> SUBSET Caller]
  BY SettingsTypes DEF SettingsInv
<1>2. PICK v \in (IF s \in Loose /\ ~change[c].alone THEN Value ELSE {mine}) :
         file' = [file EXCEPT ![s] = v]
  BY DEF Fill
<1>3. /\ change[c].pc = "fill" /\ whole' = whole \cup {s} /\ lock' = Unlocked(c)
      /\ told' = IF Telling THEN told \cup {new} ELSE told
      /\ UNCHANGED <<memory, changes>>
  BY DEF Fill, At
<1>4. \/ change[c].op = "block" /\ change' = [change EXCEPT ![c] = drops]
      \/ change[c].op # "block" /\ s = "profile" /\ change' = [change EXCEPT ![c] = keeps]
      \/ change' = [change EXCEPT ![c] = NoChange]
  <2>1. CASE change[c].op = "block"
    <3>1. change' = [change EXCEPT ![c].op = "drop", ![c].setting = "subs", ![c].pc = "change"]
      <4>1. s # "profile"
        BY <1>1, <1>3, <2>1 DEF CallOK, Sound, Busy, At
      <4> QED
        BY <2>1, <4>1 DEF Fill, BlockGoesOn
    <3> QED
      BY <1>1, <2>1, <3>1
  <2>2. CASE change[c].op # "block" /\ s = "profile"
    <3>1. change' = [change EXCEPT ![c].pc = "keep"]
      BY <2>2 DEF Fill
    <3> QED
      BY <1>1, <2>2, <3>1
  <2>3. CASE change[c].op # "block" /\ s # "profile"
    BY <2>3 DEF Fill
  <2> QED
    BY <2>1, <2>2, <2>3
<1>5. /\ s \in Setting /\ (s \in Locked \/ s \in Loose) /\ s = change[c].setting
      /\ s \in Locked => s \notin Loose /\ change[c].of \in Item /\ change[c].op # "set"
      /\ s \in Loose => change[c].of \in Value /\ change[c].op = "set"
      /\ s = "editors" /\ TakesAway(c) => change[c].of \notin Compulsory
      /\ change[c].op = "block" => s = "blocked"
  BY <1>1, <1>3, Names DEF CallOK, Sound, Busy, At, ChangerState, SettingOf
<1>6. /\ s \in Locked => lock[s] = {c} /\ mine = memory[s] /\ v = memory[s]
      /\ s \in Locked => (change[c].of \in memory[s] <=> ~TakesAway(c))
      /\ (s = "boots" /\ Cardinality(mine) > MaxBoots) => \A p \in told : p.setting # "boots"
      /\ (s \in Loose /\ change[c].alone) =>
            /\ v = change[c].of
            /\ s # "profile" => memory[s] = change[c].of
            /\ \A d \in Caller \ {c} : Busy(d) => SettingOf(d) # s
      /\ s \in Loose => v \in Value
  <2>1. CASE s \in Locked
    BY <1>1, <1>2, <1>3, <1>5, <2>1 DEF CallOK, Locks, Writes
  <2>2. CASE s \in Loose
    BY <1>1, <1>2, <1>3, <1>5, <2>2, Names DEF CallOK, Finds, Only, Busy, At, Writes
  <2> QED
    BY <1>5, <2>1, <2>2
<1>7. /\ s \in Locked => memory[s] \in SUBSET Item
      /\ Busy(c) /\ s = SettingOf(c)
  BY <1>1, <1>3, ContentType DEF Busy, At
<1>8. /\ file' \in Content /\ file'[s] = v /\ \A t \in Setting \ {s} : file'[t] = file[t]
  <2>1. file' \in Content
    BY <1>1, <1>2, <1>5, <1>6, <1>7, PutType
  <2>2. file = [t \in Setting |-> file[t]]
    BY <1>1, ContentType
  <2> QED
    BY <1>2, <1>5, <2>1, <2>2
<1>9. /\ new \in Promise /\ new.setting = s /\ new.of = change[c].of /\ new.has = ~TakesAway(c)
  BY <1>5 DEF Promise, TakesAway
<1>10. /\ drops \in ChangerState /\ keeps \in ChangerState
       /\ drops.pc = "change" /\ drops.op = "drop" /\ drops.setting = "subs"
       /\ drops.of = change[c].of
       /\ keeps.pc = "keep" /\ keeps.op = change[c].op /\ keeps.setting = s
       /\ keeps.of = change[c].of /\ keeps.alone = change[c].alone
  BY <1>1, <1>5, Names DEF ChangerState
<1> HIDE DEF s, mine, new, drops, keeps
<1>11. /\ change' \in [Caller -> ChangerState]
       /\ \A d \in Caller \ {c} : change'[d] = change[d]
       /\ \/ s = "blocked" /\ change'[c] = drops
          \/ s = "profile" /\ change'[c] = keeps
          \/ change'[c] = NoChange
  BY <1>1, <1>4, <1>5, <1>10, DefaultType
<1>12. /\ lock' \in [Locked -> SUBSET Caller]
       /\ \A t \in Locked : lock'[t] \in {lock[t], lock[t] \ {c}}
  BY <1>1, <1>3 DEF Unlocked
<1>13. SettingsTypeOK'
  <2>1. told' \subseteq Promise /\ whole' \subseteq Setting
    BY <1>1, <1>3, <1>5, <1>9, SettingsTypes DEF SettingsInv
  <2> QED
    BY <1>3, <1>8, <1>11, <1>12, <2>1, SettingsTypes DEF SettingsInv, SettingsTypeOK, ChangerState
<1>14. \A p \in told' : p \in told \/ (p = new /\ Telling)
  BY <1>3
<1>15. \A d \in Caller \ {c} : CallOK(d)'
  <2>1. change'[c].pc # "idle" => change'[c].setting = s \/ change'[c].setting \in Locked
    BY <1>10, <1>11, DefaultType, Names
  <2>2. s \in Loose \/ lock[s] \subseteq {c}
    BY <1>5, <1>6
  <2>3. \A p \in told' : p \in told \/ p.setting = s
    BY <1>9, <1>14
  <2> QED
    BY <1>3, <1>7, <1>8, <1>11, <1>12, <2>1, <2>2, <2>3, OthersOK
<1>16. CallOK(c)'
  <2>1. CASE s = "blocked" /\ change'[c] = drops
    BY <1>5, <1>10, <2>1, Names
       DEF CallOK, Sound, Locks, Finds, Only, Busy, Writes, At, SettingOf, TakesAway
  <2>2. CASE s = "profile" /\ change'[c] = keeps
    <3>1. s \in Loose /\ s \notin Locked
      BY <2>2, Names
    <3>2. Sound(c)' /\ Locks(c)'
      BY <1>5, <1>10, <2>2, <3>1 DEF Sound, Locks, Busy, Writes, At, SettingOf, TakesAway
    <3>3. Finds(c)'
      BY <1>6, <1>8, <1>10, <2>2, <3>1 DEF Finds, Writes, At, SettingOf
    <3>4. Only(c)'
      BY <1>6, <1>10, <1>11, <2>2, <3>1 DEF Only, Busy, At, SettingOf
    <3> QED
      BY <3>2, <3>3, <3>4 DEF CallOK
  <2>3. CASE change'[c] = NoChange
    BY <2>3, DefaultType DEF CallOK, Sound, Locks, Finds, Only, Busy, Writes, At
  <2> QED
    BY <1>11, <2>1, <2>2, <2>3
<1>17. Finite'
  <2>1. CASE s = "boots"
    BY <1>3, <1>6, <1>8, <2>1, Names DEF SettingsInv, Finite
  <2>2. CASE s # "boots"
    BY <1>3, <1>8, <2>2, Names DEF SettingsInv, Finite
  <2> QED
    BY <2>1, <2>2
<1>18. ASSUME NEW p \in told', s \in Locked, p.setting = s, p \in Promise, Has(p, memory[s]),
              p.setting = "editors" /\ p.of \in Compulsory => p.has
       PROVE  p.setting \in whole' => Has(p, Loaded(p.setting)')
  <2>1. s \notin Loose /\ (p.has <=> p.of \in memory[s])
    BY <1>5, <1>18 DEF Has
  <2>2. p.setting = "boots" => IsFiniteSet(memory'["boots"])
    BY <1>3 DEF SettingsInv, Finite
  <2>3. p.setting = "boots" => Cardinality(memory["boots"]) <= MaxBoots
    <3> SUFFICES ASSUME s = "boots" PROVE Cardinality(mine) <= MaxBoots
      BY <1>6, <1>18
    <3>1. Cardinality(mine) \in Nat
      BY <1>6, <1>18, FS_CardinalityType DEF SettingsInv, Finite
    <3>2. CASE p \in told
      BY <1>6, <1>18, <3>1, <3>2, SettingsAssumption
    <3>3. CASE Telling
      BY <3>3
    <3> QED
      BY <1>14, <3>2, <3>3
  <2> QED
    BY <1>3, <1>6, <1>7, <1>8, <1>18, <2>1, <2>2, <2>3, WrittenLasts
<1>19. ASSUME NEW p \in told' PROVE True(p)'
  <2>1. ASSUME p.setting \in Loose, NEW d \in Caller, change'[d].pc # "idle", p \in told
        PROVE  change'[d].setting # p.setting
    <3>1. \A f \in Caller : change[f].pc # "idle" => change[f].setting # p.setting
      BY <2>1 DEF SettingsInv, True, Busy, At, SettingOf
    <3>2. CASE d = c
      BY <1>3, <1>5, <1>10, <1>11, <2>1, <3>1, <3>2, DefaultType, Names
    <3>3. CASE d # c
      BY <1>11, <2>1, <3>1, <3>3
    <3> QED
      BY <3>2, <3>3
  <2>2. CASE p \in told
    <3>1. True(p) /\ p \in Promise /\ p.setting \in Setting
      BY <1>1, <2>2 DEF SettingsInv, Promise
    <3>2. CASE p.setting # s
      <4>1. p.setting \in whole' => Has(p, Loaded(p.setting)')
        BY <1>3, <1>8, <3>1, <3>2, LoadedKept DEF True
      <4> QED
        BY <1>3, <2>1, <2>2, <3>1, <4>1 DEF True, Has, Busy, At, SettingOf
    <3>3. CASE p.setting = s
      <4>1. s \in Locked
        BY <1>5, <1>7, <3>1, <3>3 DEF True
      <4>2. p.setting \in whole' => Has(p, Loaded(p.setting)')
        BY <1>18, <3>1, <3>3, <4>1 DEF True
      <4> QED
        BY <1>3, <2>1, <2>2, <3>1, <4>2 DEF True, Has, Busy, At, SettingOf
    <3> QED
      BY <3>2, <3>3
  <2>3. CASE p = new /\ Telling
    <3>1. CASE s \in Locked
      <4>1. Has(p, memory[s]) /\ (p.setting = "editors" /\ p.of \in Compulsory => p.has)
        BY <1>5, <1>6, <1>9, <2>3, <3>1 DEF Has
      <4>2. p.setting \in whole' => Has(p, Loaded(p.setting)')
        BY <1>9, <1>18, <2>3, <3>1, <4>1
      <4> QED
        BY <1>3, <1>5, <1>9, <2>3, <3>1, <4>1, <4>2 DEF True, Has
    <3>2. CASE s \in Loose
      <4>1. change[c].alone /\ s # "profile" /\ s \notin Locked
        BY <1>5, <2>3, <3>2
      <4>2. Loaded(p.setting)' = v /\ p.setting = s
        BY <1>3, <1>5, <1>8, <1>9, <2>3, <3>2, Names DEF Loaded, Read
      <4>3. ASSUME NEW d \in Caller, change'[d].pc # "idle" PROVE change'[d].setting # s
        BY <1>6, <1>10, <1>11, <3>2, <4>1, <4>3, DefaultType, Names DEF Busy, At, SettingOf
      <4> QED
        BY <1>3, <1>6, <1>9, <2>3, <3>2, <4>1, <4>2, <4>3, Names
           DEF True, Has, Busy, At, SettingOf
    <3> QED
      BY <1>5, <3>1, <3>2
  <2> QED
    BY <1>14, <2>2, <2>3
<1> QED
  BY <1>13, <1>15, <1>16, <1>17, <1>19 DEF SettingsInv

\* The node keeps the profile it has written.
LEMMA KeepInv == ASSUME SettingsInv, NEW c \in Caller, Keep(c) PROVE SettingsInv'
<1> DEFINE x == change[c].of
           new == [setting |-> "profile", of |-> x, has |-> TRUE]
<1>1. /\ change \in [Caller -> ChangerState] /\ change[c] \in ChangerState /\ CallOK(c)
      /\ told \subseteq Promise /\ memory \in Content
  BY SettingsTypes DEF SettingsInv
<1>2. /\ change[c].pc = "keep" /\ memory' = [memory EXCEPT !["profile"] = x]
      /\ change' = [change EXCEPT ![c] = NoChange]
      /\ told' = IF change[c].alone THEN told \cup {new} ELSE told
      /\ UNCHANGED <<file, whole, lock, changes>>
  BY DEF Keep, At
<1>3. /\ SettingOf(c) = "profile" /\ x \in Value /\ Busy(c)
      /\ change[c].alone => file["profile"] = x
      /\ change[c].alone => \A d \in Caller \ {c} : Busy(d) => SettingOf(d) # "profile"
  BY <1>1, <1>2, Names DEF CallOK, Sound, Finds, Only, Busy, At
<1>4. "profile" \in Setting /\ "profile" \in Loose /\ "profile" \notin Locked
  BY Names
<1>5. /\ memory' \in Content /\ memory'["profile"] = x
      /\ \A t \in Setting \ {"profile"} : memory'[t] = memory[t]
  <2>1. memory' \in Content
    BY <1>1, <1>2, <1>3, <1>4, PutType
  <2>2. memory = [t \in Setting |-> memory[t]]
    BY <1>1, ContentType
  <2> QED
    BY <1>2, <1>4, <2>1, <2>2
<1>6. change'[c].pc = "idle" /\ \A d \in Caller \ {c} : change'[d] = change[d]
  BY <1>1, <1>2, DefaultType
<1>7. change' \in [Caller -> ChangerState] /\ told' \subseteq Promise
  <2>1. new \in Promise
    BY <1>3, <1>4 DEF Promise
  <2>2. change' \in [Caller -> ChangerState]
    BY <1>1, <1>2, DefaultType
  <2> HIDE DEF new
  <2> QED
    BY <1>1, <1>2, <2>1, <2>2
<1>8. SettingsTypeOK'
  BY <1>2, <1>5, <1>7, SettingsTypes DEF SettingsInv, SettingsTypeOK, ChangerState
<1>9. \A p \in told' : p \in told \/ p.setting = "profile"
  BY <1>2
<1>10. \A d \in Caller \ {c} : CallOK(d)'
  BY <1>2, <1>3, <1>4, <1>5, <1>6, <1>9, OthersOK
<1>11. CallOK(c)'
  BY <1>6 DEF CallOK, Sound, Locks, Finds, Only, Busy, Writes, At
<1>12. ASSUME NEW p \in told' PROVE True(p)'
  <2>1. CASE p \in told
    <3>1. True(p) /\ p.setting \in Setting
      BY <1>1, <2>1 DEF SettingsInv, Promise
    <3>2. p.setting # "profile"
      BY <1>3, <1>4, <3>1 DEF True
    <3>3. p.setting \in whole' => Has(p, Loaded(p.setting)')
      BY <1>2, <3>1, LoadedKept DEF True
    <3>4. ASSUME p.setting \in Loose, NEW d \in Caller, change'[d].pc # "idle"
          PROVE  change'[d].setting # p.setting
      BY <1>6, <3>1, <3>4 DEF True, Busy, At, SettingOf
    <3> QED
      BY <1>2, <1>5, <3>1, <3>2, <3>3, <3>4 DEF True, Has, Busy, At, SettingOf
  <2>2. CASE change[c].alone /\ p = new
    <3>1. p.setting = "profile" /\ p.of = x
      BY <2>2
    <3>2. p.setting \in whole' => Has(p, Loaded(p.setting)')
      BY <1>2, <1>3, <1>4, <2>2, <3>1 DEF Has, Loaded, Read
    <3>3. ASSUME NEW d \in Caller, change'[d].pc # "idle"
          PROVE  change'[d].setting # p.setting
      BY <1>3, <1>6, <2>2, <3>1, <3>3 DEF Busy, At, SettingOf
    <3> QED
      BY <1>4, <1>5, <3>1, <3>2, <3>3 DEF True, Has, Busy, At, SettingOf
  <2> QED
    BY <1>2, <2>1, <2>2
<1> QED
  BY <1>2, <1>4, <1>5, <1>8, <1>10, <1>11, <1>12, Names DEF SettingsInv, Finite

\* A restart finds what was told, of the files that are whole.
LEMMA RebuildInv == SettingsInv /\ Rebuild => SettingsInv'
<1> SUFFICES ASSUME SettingsInv, Rebuild PROVE SettingsInv'
  OBVIOUS
<1>1. /\ memory' = [s \in Setting |-> Loaded(s)]
      /\ lock' = [s \in Locked |-> {}] /\ change' = [c \in Caller |-> NoChange]
      /\ told' = {p \in told : p.setting \in whole} /\ UNCHANGED <<file, whole, changes>>
  BY DEF Rebuild
<1>2. memory' \in Content /\ IsFiniteSet(memory'["boots"])
  BY <1>1, LoadedType, Names
<1>3. SettingsTypeOK'
  BY <1>1, <1>2, SettingsTypes, DefaultType DEF SettingsInv, SettingsTypeOK, ChangerState
<1>4. ASSUME NEW c \in Caller PROVE CallOK(c)'
  BY <1>1, DefaultType DEF CallOK, Sound, Locks, Finds, Only, Busy, Writes, At
<1>5. ASSUME NEW p \in told' PROVE True(p)'
  <2>1. True(p) /\ p.setting \in Setting /\ p.setting \in whole
    BY <1>1, SettingsTypes DEF SettingsInv, Promise
  <2>2. memory'[p.setting] = Loaded(p.setting) /\ Loaded(p.setting)' = Loaded(p.setting)
    BY <1>1, <2>1, LoadedKept
  <2>3. \A c \in Caller : ~Busy(c)'
    BY <1>1, DefaultType DEF Busy, At
  <2> QED
    BY <2>1, <2>2, <2>3 DEF True, Has
<1> QED
  BY <1>1, <1>2, <1>3, <1>4, <1>5 DEF SettingsInv, Finite

LEMMA SettingsNextInv == SettingsInv /\ [SettingsNext]_settingsVars => SettingsInv'
<1> SUFFICES ASSUME SettingsInv, [SettingsNext]_settingsVars PROVE SettingsInv'
  OBVIOUS
<1>1. SettingsNext \/ UNCHANGED settingsVars
  OBVIOUS
<1>2. CASE UNCHANGED settingsVars
  <2>1. UNCHANGED <<memory, file, whole, lock, change, told, changes>>
    BY <1>2 DEF settingsVars
  <2>2. SettingsTypeOK' /\ Finite'
    BY <2>1 DEF SettingsInv, SettingsTypeOK, Finite
  <2>3. ASSUME NEW c \in Caller PROVE CallOK(c)'
    BY <2>1 DEF SettingsInv, CallOK, Sound, Locks, Finds, Only, Busy, Writes, At, SettingOf, TakesAway
  <2>4. ASSUME NEW p \in told' PROVE True(p)'
    BY <2>1 DEF SettingsInv, True, Has, Loaded, LoadBootstraps, LoadEditors, Read, Busy, At, SettingOf
  <2> QED
    BY <2>2, <2>3, <2>4 DEF SettingsInv
<1> QED
  BY <1>1, <1>2, CallOnInv, LookFirstInv, SettingEndInv, SettingChangeInv, CutInv, FillInv, KeepInv, RebuildInv
     DEF SettingsNext

LEMMA SettingsHold == SettingsSpec => []SettingsInv
BY SettingsInitInv, SettingsNextInv, PTL DEF SettingsSpec

\* Settings, files, locks and calls are what they are declared to be (Node).
THEOREM SettingsTypeCorrect == SettingsSpec => []SettingsTypeOK
BY SettingsHold, PTL DEF SettingsInv

\* Once its write has ended, a change of a setting is in force until it is changed again,
\* whatever runs at the same time, and over restarts (publish_feed_with and every setter).
THEOREM SettingsLast == SettingsSpec => []ChangesLast
<1>1. SettingsInv => ChangesLast
  BY DEF SettingsInv, True, Has, ChangesLast
<1> QED
  BY <1>1, SettingsHold, PTL

--------------------------------------------------------------------------------
(***************************************************************************)
(* Listeners.  A front that has been called all its calls shows the node   *)
(* as it was at the last tick or later, for any changers, subjects,        *)
(* capacity of the channel and number of changes.                          *)
(***************************************************************************)

Among(s, q) == \E k \in 1 .. Len(q) : q[k] = s

\* A tick on its way will have s read again.
Coming(s) == IF kind = "stream" THEN Among(s, ticks)
             ELSE ticks # <<>>

\* Where the front is behind what was announced, something will call it: a call not yet
\* followed, or a tick.
FrontTold == \A s \in Subject \ lost : shown[s] >= announced[s] \/ s \in rung \/ Coming(s)

FrontInv ==
    /\ FrontTypeOK
    /\ \A s \in Subject : current[s] >= announced[s]
    /\ lagged => ticks # <<>>
    /\ listener = "over" => ~open
    /\ ~open => \A c \in Changer : owed[c] = {}
    /\ listener # "none" => FrontTold

\* An older tick gives way to a new one, and no other is lost.
Kept(q, s, full) == Append(IF full THEN Tail(q) ELSE q, s)

LEMMA MakeRoom ==
    ASSUME NEW q \in Seq(Subject), NEW s \in Subject, NEW full \in BOOLEAN, full => q # <<>>
    PROVE  /\ Kept(q, s, full) \in Seq(Subject) /\ Kept(q, s, full) # <<>>
           /\ Among(s, Kept(q, s, full))
           /\ \A j \in 1 .. Len(q) : (full /\ q[j] = Head(q)) \/ Among(q[j], Kept(q, s, full))
           /\ \A r : r \in {Kept(q, s, full)[k] : k \in DOMAIN Kept(q, s, full)}
                       <=> Among(r, Kept(q, s, full))
<1> DEFINE rest == IF full THEN Tail(q) ELSE q
           kept == Kept(q, s, full)
<1>1. rest \in Seq(Subject)
  OBVIOUS
<1>2. /\ kept \in Seq(Subject) /\ Len(kept) = Len(rest) + 1 /\ kept[Len(kept)] = s
      /\ \A k \in 1 .. Len(rest) : kept[k] = rest[k]
  BY <1>1 DEF Kept
<1>3. ASSUME NEW j \in 1 .. Len(q), ~(full /\ q[j] = Head(q))
      PROVE  Among(q[j], kept)
  <2> HIDE DEF kept
  <2>1. CASE ~full
    BY <1>2, <2>1 DEF Among
  <2>2. CASE full
    <3>1. j # 1
      BY <1>3, <2>2
    <3>2. /\ j - 1 \in 1 .. Len(Tail(q)) /\ Tail(q)[j - 1] = q[j]
      BY <2>2, <3>1
    <3>3. /\ j - 1 \in 1 .. Len(kept) /\ kept[j - 1] = q[j]
      BY <1>2, <2>2, <3>2
    <3> QED
      BY <3>3 DEF Among
  <2> QED
    BY <2>1, <2>2
<1> HIDE DEF kept
<1>4. kept # <<>> /\ Among(s, kept)
  BY <1>1, <1>2 DEF Among
<1>5. DOMAIN kept = 1 .. Len(kept)
  BY <1>2
<1> QED
  BY <1>2, <1>3, <1>4, <1>5 DEF Among, kept

LEMMA FrontInitInv == FrontInit => FrontInv
<1> SUFFICES ASSUME FrontInit PROVE FrontInv
  OBVIOUS
<1>1. current \in [Subject -> 0 .. MaxTicks] /\ announced = current /\ shown = current /\ ticks = <<>>
  BY ListenersAssumption DEF FrontInit
<1>2. <<>> \in Seq(Subject)
  OBVIOUS
<1>3. FrontTypeOK
  BY <1>1, <1>2 DEF FrontInit, FrontTypeOK
<1> QED
  BY <1>3 DEF FrontInit, FrontInv

LEMMA FrontChangeInv ==
    ASSUME FrontInv, NEW c \in Changer, NEW s \in Subject, ChangeState(c, s)
    PROVE  FrontInv'
<1>1. FrontTypeOK'
  BY ListenersAssumption DEF FrontInv, FrontTypeOK, ChangeState
<1>2. listener # "none" => FrontTold'
  BY DEF FrontInv, FrontTold, ChangeState, Coming
<1>3. \A r \in Subject : current'[r] >= announced'[r]
  BY DEF FrontInv, FrontTypeOK, ChangeState
<1> QED
  BY <1>1, <1>2, <1>3 DEF FrontInv, ChangeState

LEMMA SendInv ==
    ASSUME FrontInv, NEW c \in Changer, NEW s \in Subject, SendTick(c, s)
    PROVE  FrontInv'
<1>1. /\ owed' \in [Changer -> SUBSET Subject] /\ owed'[c] = {}
      /\ \A d \in Changer \ {c} : owed'[d] = owed[d]
  BY DEF FrontInv, FrontTypeOK, SendTick
<1>2. open
  BY DEF FrontInv, SendTick
<1>3. /\ announced' \in [Subject -> 0 .. MaxTicks] /\ \A r \in Subject \ {s} : announced'[r] = announced[r]
      /\ \A r \in Subject : current'[r] >= announced'[r]
  BY DEF FrontInv, FrontTypeOK, SendTick
<1>4. CASE listener # "on"
  <2>1. listener = "none"
    BY <1>2, <1>4 DEF FrontInv, FrontTypeOK
  <2> QED
    BY <1>1, <1>2, <1>3, <1>4, <2>1 DEF FrontInv, FrontTypeOK, SendTick
<1>5. CASE listener = "on"
  <2> DEFINE full == Len(ticks) = Retained
             kept == Kept(ticks, s, full)
  <2>1. ticks \in Seq(Subject) /\ (full => ticks # <<>>) /\ full \in BOOLEAN
    BY ListenersAssumption DEF FrontInv, FrontTypeOK
  <2>2. /\ kept \in Seq(Subject) /\ kept # <<>>
        /\ Among(s, kept)
        /\ \A j \in 1 .. Len(ticks) : (full /\ ticks[j] = Head(ticks)) \/ Among(ticks[j], kept)
        /\ \A r : r \in {kept[k] : k \in DOMAIN kept} <=> Among(r, kept)
    <3> HIDE DEF full
    <3> QED
      BY <2>1, MakeRoom
  <2>3. /\ ticks' = kept /\ lagged' = (lagged \/ full)
        /\ lost' = IF full /\ kind = "stream"
                   THEN (lost \cup {Head(ticks)}) \ {kept[k] : k \in DOMAIN kept}
                   ELSE lost \ {s}
        /\ UNCHANGED <<kind, current, listener, open, rung, shown>>
    BY <1>5 DEF SendTick, Kept
  <2>4. full => Head(ticks) \in Subject
    BY <2>1
  <2> HIDE DEF full, kept
  <2>5. FrontTypeOK'
    BY <1>1, <1>3, <2>1, <2>2, <2>3, <2>4 DEF FrontInv, FrontTypeOK
  <2>6. FrontTold'
    <3> SUFFICES ASSUME NEW r \in Subject, r \notin lost'
                 PROVE  (shown[r] >= announced[r] \/ r \in rung \/ Coming(r))'
      BY DEF FrontTold
    <3>1. CASE kind # "stream" \/ Among(r, kept)
      BY <2>2, <2>3, <3>1 DEF Coming
    <3>2. CASE kind = "stream" /\ ~Among(r, kept)
      <4>1. r # s /\ r \notin lost /\ (full => r # Head(ticks))
        BY <2>2, <2>3, <3>2
      <4>2. shown[r] >= announced[r] \/ r \in rung \/ Coming(r)
        BY <1>5, <4>1 DEF FrontInv, FrontTold
      <4>3. ~Coming(r)
        BY <2>2, <3>2, <4>1 DEF Coming, Among
      <4> QED
        BY <1>3, <2>3, <4>1, <4>2, <4>3
    <3> QED
      BY <3>1, <3>2
  <2> QED
    BY <1>1, <1>2, <1>3, <1>5, <2>2, <2>3, <2>5, <2>6 DEF FrontInv
<1> QED
  BY <1>4, <1>5

LEMMA ReceiveTickInv == FrontInv /\ ReceiveTick => FrontInv'
<1> SUFFICES ASSUME FrontInv, ReceiveTick PROVE FrontInv'
  OBVIOUS
<1>1. /\ ticks \in Seq(Subject) /\ ticks # <<>> /\ ticks' = Tail(ticks)
      /\ UNCHANGED <<kind, current, announced, owed, lagged, listener, open, shown, lost>>
  BY DEF FrontInv, FrontTypeOK, ReceiveTick
<1>2. ticks' \in Seq(Subject) /\ Head(ticks) \in Subject
  BY <1>1
<1>3. \A j \in 1 .. Len(ticks) : ticks[j] = Head(ticks) \/ Among(ticks[j], ticks')
  <2>1. ASSUME NEW j \in 1 .. Len(ticks), ticks[j] # Head(ticks)
        PROVE  Among(ticks[j], ticks')
    <3>1. /\ j - 1 \in 1 .. Len(Tail(ticks)) /\ Tail(ticks)[j - 1] = ticks[j]
      BY <1>1, <2>1
    <3> QED
      BY <1>1, <3>1 DEF Among
  <2> QED
    BY <2>1
<1>4. /\ rung' = rung \cup (IF kind = "stream" THEN {Head(ticks)} ELSE Subject)
      /\ listener = "on" /\ ~lagged
  BY DEF ReceiveTick
<1>5. FrontTypeOK'
  BY <1>1, <1>2, <1>4 DEF FrontInv, FrontTypeOK
<1>6. FrontTold'
  <2> SUFFICES ASSUME NEW r \in Subject \ lost
               PROVE  (shown[r] >= announced[r] \/ r \in rung \/ Coming(r))'
    BY <1>1 DEF FrontTold
  <2>1. shown[r] >= announced[r] \/ r \in rung \/ Coming(r)
    BY <1>4 DEF FrontInv, FrontTold
  <2>2. Coming(r) => r \in rung' \/ Coming(r)'
    BY <1>1, <1>3, <1>4 DEF Coming, Among
  <2> QED
    BY <1>1, <1>4, <2>1, <2>2
<1> QED
  BY <1>1, <1>4, <1>5, <1>6 DEF FrontInv

\* A listener reads everything when it begins, and nothing is lost with the end of the
\* channel, which comes after the last tick.
LEMMA FrontNextInv == FrontInv /\ [FrontNext]_frontVars => FrontInv'
<1> SUFFICES ASSUME FrontInv, [FrontNext]_frontVars PROVE FrontInv'
  OBVIOUS
<1>1. FrontNext \/ UNCHANGED frontVars
  OBVIOUS
<1>2. ASSUME NEW c \in Changer, NEW s \in Subject, ChangeState(c, s) PROVE FrontInv'
  BY <1>2, FrontChangeInv
<1>3. ASSUME NEW c \in Changer, NEW s \in Subject, SendTick(c, s) PROVE FrontInv'
  BY <1>3, SendInv
<1>9. ASSUME NEW c \in Changer, EndUntold(c) PROVE FrontInv'
  <2>1. owed' \in [Changer -> SUBSET Subject] /\ \A d \in Changer : owed'[d] \subseteq owed[d]
    BY <1>9 DEF FrontInv, FrontTypeOK, EndUntold
  <2>2. FrontTypeOK'
    BY <1>9, <2>1 DEF FrontInv, FrontTypeOK, EndUntold
  <2>3. listener # "none" => FrontTold'
    BY <1>9 DEF FrontInv, FrontTold, EndUntold, Coming
  <2> QED
    BY <1>9, <2>1, <2>2, <2>3 DEF FrontInv, EndUntold
<1>4. ASSUME SetListener PROVE FrontInv'
  BY <1>4 DEF FrontInv, FrontTypeOK, SetListener, FrontTold
<1>5. ASSUME ReceiveTick PROVE FrontInv'
  BY <1>5, ReceiveTickInv
<1>6. ASSUME ReceiveLagged PROVE FrontInv'
  <2>1. FrontTypeOK'
    BY <1>6 DEF FrontInv, FrontTypeOK, ReceiveLagged
  <2>2. FrontTold'
    BY <1>6 DEF FrontInv, FrontTold, ReceiveLagged, Coming
  <2> QED
    BY <1>6, <2>1, <2>2 DEF FrontInv, ReceiveLagged
<1>7. ASSUME NEW s \in Subject, Reread(s) PROVE FrontInv'
  <2>1. FrontTypeOK'
    BY <1>7 DEF FrontInv, FrontTypeOK, Reread
  <2>2. listener # "none" => FrontTold'
    BY <1>7 DEF FrontInv, FrontTypeOK, FrontTold, Reread, Coming
  <2> QED
    BY <1>7, <2>1, <2>2 DEF FrontInv, Reread
<1>8. ASSUME CloseChannel \/ ReceiveClosed \/ UNCHANGED frontVars PROVE FrontInv'
  <2>1. FrontTypeOK'
    BY <1>8 DEF FrontInv, FrontTypeOK, CloseChannel, ReceiveClosed, frontVars
  <2>2. listener # "none" => FrontTold'
    BY <1>8 DEF FrontInv, FrontTold, CloseChannel, ReceiveClosed, frontVars, Coming
  <2> QED
    BY <1>8, <2>1, <2>2 DEF FrontInv, CloseChannel, ReceiveClosed, frontVars
<1> QED
  BY <1>1, <1>2, <1>3, <1>4, <1>5, <1>6, <1>7, <1>8, <1>9 DEF FrontNext

LEMMA FrontHolds == FrontSpec => []FrontInv
BY FrontInitInv, FrontNextInv, PTL DEF FrontSpec

\* The state of a channel of ticks and of its listener is what it is declared to be
\* (Node::build, set_*_listener).
THEOREM FrontTypeCorrect == FrontSpec => []FrontTypeOK
BY FrontHolds, PTL DEF FrontInv

\* Whatever ticks a late listener loses, a front that has followed all its calls shows the
\* node as it was at the last tick or later, but for a session whose last tick was lost.
THEOREM FrontCatchesUp == FrontSpec => []FrontIsCurrent
<1>1. FrontInv => FrontIsCurrent
  <2> SUFFICES ASSUME FrontInv, FrontAtRest, NEW s \in Subject \ lost
               PROVE  shown[s] >= announced[s]
    BY DEF FrontIsCurrent
  <2>1. shown[s] >= announced[s] \/ s \in rung \/ Coming(s)
    BY DEF FrontInv, FrontAtRest, FrontTold
  <2>2. ~Coming(s)
    BY DEF FrontAtRest, Coming, Among
  <2> QED
    BY <2>1, <2>2 DEF FrontAtRest
<1> QED
  BY <1>1, FrontHolds, PTL
================================================================================
