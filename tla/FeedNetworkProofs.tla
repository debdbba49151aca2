--------------------------- MODULE FeedNetworkProofs ---------------------------
(***************************************************************************)
(* Theorems about FeedNetwork, for any nodes, issuers, calls and scenes:   *)
(* what Catalog::apply and the lock on feed_seq are enough for.            *)
(***************************************************************************)
EXTENDS FeedNetwork, WellFoundedInduction, TLAPS

-----------------------------------------------------------------------------
(* What every step preserves *)

\* Both copies of the number of a node are the highest that it signed, unless that one was
\* not written; then they may be behind, and the file more than the memory.
NumbersAgree ==
    \A n \in Node :
        /\ saved[n] <= seq[n] /\ seq[n] <= high[n]
        /\ n \notin unsaved => seq[n] = high[n] /\ saved[n] = high[n]

\* Nobody holds a number that its issuer has not signed.
CatalogsOld ==
    \A n \in Node, i \in Issuer : catalog[n][i] <= high[i] /\ record[n][i] <= high[i]
AirOld == \A f \in air : f.ok => f.seq <= high[f.issuer]
EarsOld == \A n \in Node : ear[n] # NoFeed => ear[n] \in Feed /\ ear[n].seq <= high[ear[n].issuer]
KeepersOld == \A n \in Node : \A k \in keeper[n] : k[2] <= high[k[1]]

\* The feed of a worker that has one is a feed, and signed; only a publication, of its
\* own node, is put and sent, and only if it verifies.
WorkOld(w, top) ==
    /\ w.pc \in {"ask", "preview", "purge"} => w.issuer \in Issuer
    /\ w.pc \in {"own", "put", "send", "apply"} =>
           w.issuer \in Issuer /\ w.seq # 0 /\ w.seq <= top[w.issuer]
    /\ w.pc \in {"put", "send"} => w.ok

TasksOld == \A w \in Worker : WorkOld(task[w], high)

SentOk == \A f \in air \ Noise : f.ok

Inv ==
    /\ FeedTypeOK
    /\ NumbersAgree
    /\ CatalogsOld /\ AirOld /\ EarsOld /\ KeepersOld /\ TasksOld /\ SentOk

USE DEF Catalogs, Feed, Verify, KeyBlocked, numbers

-----------------------------------------------------------------------------
(* Numbers *)

\* A set of numbers below a bound has a greatest one.
LEMMA Greatest ==
    ASSUME NEW S \in SUBSET (0 .. MaxSeq), S # {}
    PROVE  \E q \in S : \A r \in S : r <= q
<1> USE CatalogAssumption
<1> DEFINE gap == {MaxSeq - s : s \in S}
<1>1. gap \subseteq Nat /\ gap # {}
  <2>1. \A s \in S : s \in Nat /\ MaxSeq - s \in Nat
    OBVIOUS
  <2>2. PICK s \in S : TRUE
    OBVIOUS
  <2>3. gap # {}
    BY <2>2
  <2> QED
    BY <2>1, <2>3
<1>2. PICK g \in gap : \A h \in gap : ~ (<<h, g>> \in OpToRel(<, Nat))
  <2> HIDE DEF gap
  <2> QED
    BY <1>1, NatLessThanWellFounded, WFMin
<1>3. PICK q \in S : g = MaxSeq - q
  OBVIOUS
<1>4. \A h \in gap : ~ (h < g)
  BY <1>1, <1>2 DEF OpToRel
<1>5. ASSUME NEW r \in S PROVE r <= q
  <2>1. ~ (MaxSeq - r < MaxSeq - q)
    BY <1>3, <1>4
  <2> QED
    BY <2>1
<1> QED
  BY <1>5

LEMMA NewestType ==
    ASSUME Inv, NEW i \in Issuer, NEW asked \in SUBSET Node
    PROVE  Newest(i, asked) \in 0 .. high[i]
<1> DEFINE found == {record[s][i] : s \in asked} \cup {0}
<1>1. found \in SUBSET (0 .. MaxSeq) /\ found # {}
  BY CatalogAssumption DEF Inv, FeedTypeOK, NodeTypeOK
<1>2. \E q \in found : \A r \in found : r <= q
  <2> HIDE DEF found
  <2> QED
    BY <1>1, Greatest
<1>3. Newest(i, asked) \in found
  BY <1>2 DEF Newest
<1>4. high[i] \in Nat
  BY DEF Inv, FeedTypeOK, NodeTypeOK
<1>5. \A s \in Node : record[s][i] \in Nat /\ record[s][i] <= high[i]
  BY DEF Inv, FeedTypeOK, NodeTypeOK, CatalogsOld
<1> QED
  BY <1>3, <1>4, <1>5

-----------------------------------------------------------------------------
(* The beginning *)

LEMMA HighAtStartType ==
    /\ HighAtStart \in [Issuer -> 0 .. MaxSeq]
    /\ \A f \in Noise : f.ok => f.seq <= HighAtStart[f.issuer]
    /\ \A n \in Node : HighAtStart[n] = 0
<1> USE CatalogAssumption, NetworkAssumption
<1>1. \A i \in Issuer : Sent(i) \in SUBSET (1 .. MaxSeq)
  BY DEF Sent
<1>2. ASSUME NEW i \in Issuer, Sent(i) # {}
      PROVE  HighAtStart[i] \in Sent(i) /\ \A r \in Sent(i) : r <= HighAtStart[i]
  <2>1. \E q \in Sent(i) : \A r \in Sent(i) : r <= q
    BY <1>1, <1>2, Greatest
  <2> QED
    BY <1>2, <2>1 DEF HighAtStart
<1>3. ASSUME NEW i \in Issuer, Sent(i) = {} PROVE HighAtStart[i] = 0
  BY <1>3 DEF HighAtStart
<1>4. \A i \in Issuer : HighAtStart[i] \in 0 .. MaxSeq
  BY <1>1, <1>2, <1>3
<1>5. HighAtStart \in [Issuer -> 0 .. MaxSeq]
  BY <1>4 DEF HighAtStart
<1>6. ASSUME NEW f \in Noise, f.ok PROVE f.seq <= HighAtStart[f.issuer]
  <2>1. f.issuer \in Issuer /\ f.seq \in Sent(f.issuer)
    BY <1>6 DEF Sent
  <2> QED
    BY <1>2, <2>1
<1>7. ASSUME NEW n \in Node PROVE HighAtStart[n] = 0
  <2>1. n \in Issuer /\ Sent(n) = {}
    BY DEF Sent
  <2> QED
    BY <1>3, <2>1
<1> QED
  BY <1>5, <1>6, <1>7

LEMMA IdleType == Idle \in TaskState /\ \A top : WorkOld(Idle, top)
  BY CatalogAssumption DEF Idle, Work, TaskState, WorkOld

LEMMA InvInit == FeedInit => Inv
<1> SUFFICES ASSUME FeedInit PROVE Inv
  OBVIOUS
<1> USE CatalogAssumption, NetworkAssumption, HighAtStartType DEF FeedInit
<1>1. FeedTypeOK
  BY IdleType DEF FeedTypeOK, NodeTypeOK, NoFeeds
<1>2. NumbersAgree /\ CatalogsOld /\ AirOld /\ KeepersOld /\ SentOk
  BY DEF NumbersAgree, CatalogsOld, AirOld, KeepersOld, SentOk, NoFeeds
<1>3. EarsOld
  BY DEF EarsOld
<1>4. TasksOld
  BY IdleType DEF TasksOld
<1> QED
  BY <1>1, <1>2, <1>3, <1>4 DEF Inv

-----------------------------------------------------------------------------
(* Shapes of a step *)

\* A worker that is through is idle or goes on with its list.
LEMMA FinishType ==
    ASSUME Inv, NEW w \in Worker, Finish(w)
    PROVE  /\ task' \in [Worker -> TaskState]
           /\ \A u \in Worker : WorkOld(task'[u], high)
           /\ \A u \in Worker : u # w => task'[u] = task[u]
           /\ task'[w].pc # "apply"
<1> USE CatalogAssumption
<1>1. task \in [Worker -> TaskState] /\ \A u \in Worker : WorkOld(task[u], high)
  BY DEF Inv, FeedTypeOK, TasksOld
<1> DEFINE list == Work("next", NoIssuer, 0, FALSE, task[w].todo)
<1>2. list \in TaskState /\ WorkOld(list, high) /\ list.pc = "next"
  BY <1>1 DEF Work, TaskState, WorkOld
<1>3. task' = [task EXCEPT ![w] = list] \/ task' = [task EXCEPT ![w] = Idle]
  BY DEF Finish
<1>4. Idle.pc = "idle"
  BY DEF Idle, Work
<1> HIDE DEF list
<1> QED
  BY <1>1, <1>2, <1>3, <1>4, IdleType

\* A worker takes up x.
LEMMA MoveType ==
    ASSUME Inv, NEW w \in Worker, NEW x \in TaskState, WorkOld(x, high),
           task' = [task EXCEPT ![w] = x]
    PROVE  /\ task' \in [Worker -> TaskState]
           /\ \A u \in Worker : WorkOld(task'[u], high)
           /\ \A u \in Worker : u # w => task'[u] = task[u]
           /\ task'[w] = x
  BY DEF Inv, FeedTypeOK, TasksOld

\* The feed of a worker that has one.
LEMMA FeedInHand ==
    ASSUME Inv, NEW w \in Worker, task[w].pc \in {"own", "put", "send", "apply"}
    PROVE  /\ FeedOf(w) \in Feed /\ FeedOf(w).seq <= high[FeedOf(w).issuer]
           /\ FeedOf(w).issuer = task[w].issuer
           /\ task[w].pc \in {"put", "send"} => FeedOf(w).ok
<1>1. task[w] \in TaskState /\ WorkOld(task[w], high)
  BY DEF Inv, FeedTypeOK, TasksOld
<1>2. task[w].issuer \in Issuer /\ task[w].seq \in 1 .. MaxSeq
  BY <1>1, CatalogAssumption DEF TaskState, WorkOld
<1> QED
  BY <1>1, <1>2 DEF FeedOf, TaskState, WorkOld

LEMMA NodeOfType == \A w \in Worker : NodeOf(w) \in Node
  BY NetworkAssumption DEF NodeOf, Worker

\* A step that only moves workers.
LEMMA OnlyTasks ==
    ASSUME Inv, UNCHANGED <<nodeVars, record, air, ear, keeper, may>>,
           ops' \in 0 .. MaxOps,
           task' \in [Worker -> TaskState], \A u \in Worker : WorkOld(task'[u], high)
    PROVE  Inv'
<1> USE DEF nodeVars
<1>1. FeedTypeOK'
  BY DEF Inv, FeedTypeOK, NodeTypeOK
<1>2. NumbersAgree' /\ CatalogsOld' /\ AirOld' /\ KeepersOld' /\ SentOk'
  BY DEF Inv, NumbersAgree, CatalogsOld, AirOld, KeepersOld, SentOk
<1>3. EarsOld' /\ TasksOld'
  BY DEF Inv, EarsOld, TasksOld
<1> QED
  BY <1>1, <1>2, <1>3 DEF Inv

\* A catalog only takes a number above the one it has, for that issuer alone.
LEMMA ApplyStep ==
    ASSUME NEW cat \in Catalogs, NEW followed, NEW f \in Feed
    PROVE  \/ Apply(cat, followed, f) = cat
           \/ /\ Apply(cat, followed, f) = [cat EXCEPT ![f.issuer] = f.seq]
              /\ cat[f.issuer] < f.seq
<1>1. CASE Admits(cat, followed, f)
  <2>1. cat[f.issuer] < f.seq
    BY <1>1, CatalogAssumption DEF Admits
  <2> QED
    BY <1>1, <2>1 DEF Apply
<1>2. CASE ~ Admits(cat, followed, f)
  BY <1>2 DEF Apply
<1> QED
  BY <1>1, <1>2

\* Whoever applies a signed feed still holds signed numbers only.
LEMMA LearnType ==
    ASSUME Inv, NEW n \in Node, NEW f \in Feed, f.seq <= high[f.issuer], Learn(n, f)
    PROVE  /\ catalog' \in [Node -> Catalogs]
           /\ \A m \in Node, i \in Issuer : catalog'[m][i] <= high[i]
           /\ \A m \in Node, i \in Issuer :
                 m # n \/ i # f.issuer => catalog'[m][i] = catalog[m][i]
<1>1. catalog \in [Node -> Catalogs] /\ \A m \in Node, i \in Issuer : catalog[m][i] <= high[i]
  BY DEF Inv, FeedTypeOK, NodeTypeOK, CatalogsOld
<1>2. \/ catalog' = [catalog EXCEPT ![n] = catalog[n]]
      \/ catalog' = [catalog EXCEPT ![n] = [catalog[n] EXCEPT ![f.issuer] = f.seq]]
  BY <1>1, ApplyStep DEF Learn
<1>3. f.issuer \in Issuer /\ f.seq \in 0 .. MaxSeq
  BY CatalogAssumption
<1> DEFINE new == [catalog[n] EXCEPT ![f.issuer] = f.seq]
<1>4. CASE catalog' = [catalog EXCEPT ![n] = catalog[n]]
  <2>1. catalog' = catalog
    BY <1>1, <1>4
  <2> QED
    BY <1>1, <2>1
<1>5. CASE catalog' = [catalog EXCEPT ![n] = new]
  <2>1. catalog[n] \in Catalogs
    BY <1>1
  <2>2. new \in Catalogs
    BY <2>1, <1>3
  <2>3. \A i \in Issuer : new[i] <= high[i] /\ (i # f.issuer => new[i] = catalog[n][i])
    BY <1>1, <2>1, <1>3
  <2> HIDE DEF new
  <2>4. \A m \in Node : catalog'[m] = IF m = n THEN new ELSE catalog[m]
    BY <1>1, <1>5
  <2>5. catalog' \in [Node -> Catalogs]
    BY <1>1, <1>5, <2>2
  <2> QED
    BY <1>1, <2>3, <2>4, <2>5
<1> QED
  BY <1>2, <1>4, <1>5

\* A step that moves workers and applies a signed feed.
LEMMA OnlyLearns ==
    ASSUME Inv, NEW n \in Node, NEW f \in Feed, f.seq <= high[f.issuer], Learn(n, f),
           UNCHANGED <<numbers, subs, blocked, record, air, keeper, may, ops>>,
           task' \in [Worker -> TaskState], \A u \in Worker : WorkOld(task'[u], high),
           ear' = ear \/ \E m \in Node : ear' = [ear EXCEPT ![m] = NoFeed]
    PROVE  Inv'
<1>1. FeedTypeOK'
  BY LearnType DEF Inv, FeedTypeOK, NodeTypeOK
<1>2. NumbersAgree' /\ AirOld' /\ KeepersOld' /\ SentOk'
  BY DEF Inv, NumbersAgree, AirOld, KeepersOld, SentOk
<1>3. CatalogsOld'
  BY LearnType DEF Inv, CatalogsOld
<1>4. EarsOld' /\ TasksOld'
  BY DEF Inv, EarsOld, TasksOld, FeedTypeOK
<1> QED
  BY <1>1, <1>2, <1>3, <1>4 DEF Inv

\* A put of a signed feed leaves signed numbers in the records.
LEMMA PutType ==
    ASSUME Inv, NEW n \in Node, NEW f, f.issuer \in Issuer, f.seq \in 1 .. MaxSeq,
           f.seq <= high[f.issuer], NEW reached \in SUBSET Node, Put(n, f, reached)
    PROVE  /\ record' \in [Node -> Catalogs]
           /\ \A m \in Node, i \in Issuer : record'[m][i] <= high[i]
<1>1. record \in [Node -> Catalogs] /\ \A m \in Node, i \in Issuer : record[m][i] <= high[i]
  BY DEF Inv, FeedTypeOK, NodeTypeOK, CatalogsOld
<1>2. \A m \in Node : record'[m] \in {record[m], [record[m] EXCEPT ![f.issuer] = f.seq]}
  BY DEF Put
<1>3. \A m \in Node : record'[m] \in Catalogs
  BY <1>1, <1>2, CatalogAssumption
<1>4. record' = [m \in Node |-> record'[m]]
  BY DEF Put
<1>5. record' \in [Node -> Catalogs]
  BY <1>3, <1>4
<1>6. ASSUME NEW m \in Node, NEW i \in Issuer PROVE record'[m][i] <= high[i]
  <2>1. record[m] \in Catalogs
    BY <1>1
  <2>2. record'[m][i] = record[m][i] \/ (i = f.issuer /\ record'[m][i] = f.seq)
    BY <1>2, <2>1
  <2> QED
    BY <1>1, <2>2
<1> QED
  BY <1>5, <1>6

\* A step that moves workers or the maintenance loop, and puts.
LEMMA OnlyPuts ==
    ASSUME Inv, UNCHANGED <<nodeVars, air, ear, may>>, ops' \in 0 .. MaxOps,
           record' \in [Node -> Catalogs],
           \A m \in Node, i \in Issuer : record'[m][i] <= high[i],
           task' \in [Worker -> TaskState], \A u \in Worker : WorkOld(task'[u], high),
           keeper' \in [Node -> SUBSET (Issuer \X (1 .. MaxSeq))],
           \A n \in Node : \A k \in keeper'[n] : k[2] <= high[k[1]]
    PROVE  Inv'
<1> USE DEF nodeVars
<1>1. FeedTypeOK'
  BY DEF Inv, FeedTypeOK, NodeTypeOK
<1>2. NumbersAgree' /\ CatalogsOld' /\ AirOld' /\ KeepersOld' /\ SentOk'
  BY DEF Inv, NumbersAgree, CatalogsOld, AirOld, KeepersOld, SentOk
<1>3. EarsOld' /\ TasksOld'
  BY DEF Inv, EarsOld, TasksOld
<1> QED
  BY <1>1, <1>2, <1>3 DEF Inv

-----------------------------------------------------------------------------
(* One lemma per group of actions *)

LEMMA OccursType ==
    ASSUME Inv, NEW op, NEW w, NEW i, Occurs(op, w, i)
    PROVE  ops' \in 0 .. MaxOps
  BY NetworkAssumption DEF Inv, FeedTypeOK, Occurs

LEMMA GotoType ==
    ASSUME Inv, NEW w \in Worker,
           NEW pc \in {"put", "send"}, Goto(w, pc),
           task[w].pc \in {"own", "put", "send"}, task[w].ok
    PROVE  task' \in [Worker -> TaskState] /\ \A u \in Worker : WorkOld(task'[u], high)
<1> DEFINE x == [task[w] EXCEPT !.pc = pc]
<1>1. task[w] \in TaskState /\ WorkOld(task[w], high)
  BY DEF Inv, FeedTypeOK, TasksOld
<1>2. x \in TaskState /\ WorkOld(x, high)
  BY <1>1 DEF TaskState, WorkOld
<1>3. task' = [task EXCEPT ![w] = x]
  BY DEF Goto
<1> HIDE DEF x
<1> QED
  BY <1>2, <1>3, MoveType

\* What a worker may take up.
LEMMA WorkType ==
    ASSUME NEW pc \in {"next", "ask", "preview", "purge"}, NEW i \in Issuer \cup {NoIssuer},
           pc # "next" => i \in Issuer, NEW todo \in SUBSET Issuer
    PROVE  Work(pc, i, 0, FALSE, todo) \in TaskState /\ \A top : WorkOld(Work(pc, i, 0, FALSE, todo), top)
  BY CatalogAssumption DEF Work, TaskState, WorkOld

\* What a publication does to the numbers, whether or not the new one is written.
LEMMA NumberTaken ==
    ASSUME Inv, NEW t \in Call, Publish(t, Home[t]) \/ PublishUnwritten(t, Home[t])
    PROVE  LET n == Home[t]
           IN  /\ seq[n] + 1 \in 1 .. MaxSeq /\ seq' = [seq EXCEPT ![n] = seq[n] + 1]
               /\ saved' \in [Node -> 0 .. MaxSeq] /\ unsaved' \subseteq Node
               /\ \/ /\ seq[n] + 1 > high[n] /\ again' = again
                     /\ high' = [high EXCEPT ![n] = seq[n] + 1]
                  \/ /\ seq[n] + 1 <= high[n] /\ high' = high /\ n \in unsaved
                     /\ again' = [again EXCEPT ![n] = @ + 1]
               /\ unsaved' \in {unsaved, unsaved \ {n}, unsaved \cup {n}}
               /\ NumbersAgree'
<1> USE CatalogAssumption, NetworkAssumption
<1> DEFINE n == Home[t]
           q == seq[n] + 1
<1>1. n \in Node /\ n \in Issuer /\ TakeNumber(t, n)
  BY DEF Publish, PublishUnwritten
<1>2. /\ high \in [Issuer -> 0 .. MaxSeq] /\ seq \in [Node -> 0 .. MaxSeq]
      /\ saved \in [Node -> 0 .. MaxSeq] /\ unsaved \subseteq Node
  BY DEF Inv, FeedTypeOK, NodeTypeOK
<1>3. /\ saved[n] <= seq[n] /\ seq[n] <= high[n]
      /\ n \notin unsaved => seq[n] = high[n] /\ saved[n] = high[n]
  BY <1>1 DEF Inv, NumbersAgree
<1>4. q \in 1 .. MaxSeq /\ seq' = [seq EXCEPT ![n] = q] /\ seq'[n] = q
  BY <1>1, <1>2 DEF TakeNumber
<1>5. \/ q > high[n] /\ again' = again /\ high' = [high EXCEPT ![n] = q]
      \/ /\ q <= high[n] /\ high' = high /\ n \in unsaved
         /\ again' = [again EXCEPT ![n] = @ + 1]
  BY <1>1, <1>2, <1>3, <1>4 DEF TakeNumber
<1>6. PICK r \in 0 .. MaxSeq :
          /\ saved' = [saved EXCEPT ![n] = r] /\ r <= q
          /\ \/ r = q /\ unsaved' = IF q < high[n] THEN unsaved ELSE unsaved \ {n}
             \/ unsaved' = unsaved \cup {n}
  <2>1. CASE Publish(t, n)
    <3>1. q \in 0 .. MaxSeq /\ q <= q /\ saved' = [saved EXCEPT ![n] = q]
      BY <1>4, <2>1 DEF Publish
    <3>2. unsaved' = IF q < high[n] THEN unsaved ELSE unsaved \ {n}
      BY <1>4, <2>1 DEF Publish
    <3> HIDE DEF q
    <3> QED
      BY <3>1, <3>2
  <2>2. CASE PublishUnwritten(t, n)
    <3>1. PICK r \in {saved[n]} \cup CutShort(q) : saved' = [saved EXCEPT ![n] = r]
      BY <1>4, <2>2 DEF PublishUnwritten
    <3>2. r \in 0 .. MaxSeq /\ r <= q
      BY <1>1, <1>2, <1>3, <1>4, <3>1 DEF CutShort
    <3> QED
      BY <2>2, <3>1, <3>2 DEF PublishUnwritten
  <2> QED
    BY <2>1, <2>2
<1>7. ASSUME NEW m \in Node
      PROVE  (/\ saved[m] <= seq[m] /\ seq[m] <= high[m]
              /\ m \notin unsaved => seq[m] = high[m] /\ saved[m] = high[m])'
  <2>1. CASE m = n
    <3>1. saved'[m] = r /\ seq'[m] = q /\ high[n] \in Nat
      BY <1>1, <1>2, <1>4, <1>6, <2>1
    <3>2. q <= high'[m] /\ (q >= high[n] => high'[m] = q)
      BY <1>1, <1>2, <1>4, <1>5, <2>1
    <3> HIDE DEF q
    <3>3. m \notin unsaved' => r = q /\ q >= high[n]
      BY <1>4, <1>5, <1>6, <2>1, <3>1
    <3> QED
      BY <1>6, <3>1, <3>2, <3>3
  <2>2. CASE m # n
    <3>1. saved'[m] = saved[m] /\ seq'[m] = seq[m] /\ high'[m] = high[m]
      BY <1>2, <1>4, <1>5, <1>6, <2>2
    <3>2. m \notin unsaved' => m \notin unsaved
      BY <1>6, <2>2
    <3> QED
      BY <3>1, <3>2 DEF Inv, NumbersAgree
  <2> QED
    BY <2>1, <2>2
<1>8. NumbersAgree'
  BY <1>7 DEF NumbersAgree
<1>9. saved' \in [Node -> 0 .. MaxSeq] /\ unsaved' \subseteq Node
  BY <1>1, <1>2, <1>6
<1>10. unsaved' \in {unsaved, unsaved \ {n}, unsaved \cup {n}}
  BY <1>6
<1> QED
  BY <1>4, <1>5, <1>8, <1>9, <1>10

LEMMA PublishKeeps ==
    ASSUME Inv, NEW t \in Call, Publish(t, Home[t]) \/ PublishUnwritten(t, Home[t])
    PROVE  Inv'
<1> USE CatalogAssumption, NetworkAssumption
<1> DEFINE n == Home[t]
<1>0. n \in Node /\ n \in Issuer /\ t \in Worker /\ TakeNumber(t, n)
  BY DEF Worker, Publish, PublishUnwritten
<1>1. high \in [Issuer -> 0 .. MaxSeq] /\ again \in [Issuer -> Nat]
  BY DEF Inv, FeedTypeOK, NodeTypeOK
<1>2. seq[n] + 1 \in 1 .. MaxSeq
  BY NumberTaken
<1>3. /\ seq' = [seq EXCEPT ![n] = seq[n] + 1]
      /\ saved' \in [Node -> 0 .. MaxSeq] /\ unsaved' \subseteq Node /\ NumbersAgree'
  BY NumberTaken
<1>4. /\ high' \in [Issuer -> 0 .. MaxSeq] /\ again' \in [Issuer -> Nat]
      /\ high'[n] >= seq[n] + 1 /\ \A i \in Issuer : high[i] <= high'[i]
  <2>1. CASE /\ seq[n] + 1 > high[n] /\ again' = again
             /\ high' = [high EXCEPT ![n] = seq[n] + 1]
    BY <1>0, <1>1, <1>2, <2>1
  <2>2. CASE /\ seq[n] + 1 <= high[n] /\ high' = high
             /\ again' = [again EXCEPT ![n] = @ + 1]
    BY <1>0, <1>1, <2>2
  <2> QED
    BY <2>1, <2>2, NumberTaken
<1>5. PICK ok \in BOOLEAN : Begin(t, Work("own", n, seq[n] + 1, ok, {}))
  BY <1>0, <1>3 DEF TakeNumber, Inv, FeedTypeOK, NodeTypeOK
<1> DEFINE x == Work("own", n, seq[n] + 1, ok, {})
<1>6. x \in TaskState
  BY <1>0, <1>2 DEF Work, TaskState
<1>7. WorkOld(x, high')
  BY <1>0, <1>2, <1>4 DEF Work, WorkOld
<1>8. task' = [task EXCEPT ![t] = x]
  BY <1>5 DEF Begin
<1>9. task \in [Worker -> TaskState] /\ \A u \in Worker : WorkOld(task[u], high)
  BY DEF Inv, FeedTypeOK, TasksOld
<1>10. \A u \in Worker : WorkOld(task[u], high')
  BY <1>1, <1>4, <1>9 DEF WorkOld, TaskState
<1>11. UNCHANGED <<catalog, subs, blocked, record, air, ear, keeper, may>>
  BY <1>0 DEF TakeNumber
<1>12. TasksOld' /\ task' \in [Worker -> TaskState]
  <2> HIDE DEF x
  <2> QED
    BY <1>0, <1>6, <1>7, <1>8, <1>9, <1>10 DEF TasksOld
<1>13. NodeTypeOK'
  BY <1>0, <1>2, <1>3, <1>4, <1>11 DEF Inv, FeedTypeOK, NodeTypeOK
<1>14. FeedTypeOK'
  <2>1. ops' \in 0 .. MaxOps
    BY OccursType DEF Publish, PublishUnwritten
  <2> QED
    BY <2>1, <1>11, <1>12, <1>13 DEF Inv, FeedTypeOK
<1>15. NumbersAgree'
  BY <1>3
<1>16. CatalogsOld'
  <2>1. \A m \in Node, i \in Issuer : catalog[m][i] \in Nat /\ record[m][i] \in Nat
    BY DEF Inv, FeedTypeOK, NodeTypeOK
  <2> QED
    BY <1>1, <1>4, <1>11, <2>1 DEF Inv, CatalogsOld
<1>17. AirOld'
  <2>1. \A f \in air : f.issuer \in Issuer /\ f.seq \in Nat
    BY DEF Inv, FeedTypeOK, NodeTypeOK
  <2> QED
    BY <1>1, <1>4, <1>11, <2>1 DEF Inv, AirOld
<1>18. EarsOld'
  <2>1. \A m \in Node : ear[m] # NoFeed => ear[m].issuer \in Issuer /\ ear[m].seq \in Nat
    BY DEF Inv, EarsOld
  <2> QED
    BY <1>1, <1>4, <1>11, <2>1 DEF Inv, EarsOld
<1>19. KeepersOld'
  <2>1. \A m \in Node : \A k \in keeper[m] : k[1] \in Issuer /\ k[2] \in Nat
    BY DEF Inv, FeedTypeOK
  <2> QED
    BY <1>1, <1>4, <1>11, <2>1 DEF Inv, KeepersOld
<1>20. SentOk'
  BY <1>11 DEF Inv, SentOk
<1> QED
  BY <1>12, <1>14, <1>15, <1>16, <1>17, <1>18, <1>19, <1>20 DEF Inv

LEMMA OwnKeeps ==
    ASSUME Inv, NEW t \in Call, ApplyOwn(t) \/ PutOwn(t) \/ SendOwn(t)
    PROVE  Inv'
<1> USE NetworkAssumption
<1>1. t \in Worker /\ NodeOf(t) \in Node
  BY NodeOfType DEF Worker
<1>2. ops \in 0 .. MaxOps
  BY DEF Inv, FeedTypeOK
<1>3. CASE ApplyOwn(t) /\ ~ Verify(FeedOf(t))
  BY <1>1, <1>2, <1>3, FinishType, OnlyTasks DEF ApplyOwn, nodeVars
<1>4. CASE ApplyOwn(t) /\ Verify(FeedOf(t))
  <2>1. Goto(t, "put") /\ task[t].ok /\ task[t].pc = "own"
    BY <1>4 DEF ApplyOwn, FeedOf
  <2>2. task' \in [Worker -> TaskState] /\ \A u \in Worker : WorkOld(task'[u], high)
    BY <1>1, <2>1, GotoType
  <2>3. FeedOf(t) \in Feed /\ FeedOf(t).seq <= high[FeedOf(t).issuer]
    BY <1>1, <2>1, FeedInHand
  <2> QED
    BY <1>1, <1>4, <2>2, <2>3, OnlyLearns DEF ApplyOwn
<1>5. CASE PutOwn(t)
  <2>1. PICK reached \in SUBSET Node : Put(NodeOf(t), FeedOf(t), reached)
    BY <1>5 DEF PutOwn
  <2>2. FeedOf(t) \in Feed /\ FeedOf(t).seq <= high[FeedOf(t).issuer] /\ FeedOf(t).ok
    BY <1>1, <1>5, FeedInHand DEF PutOwn
  <2>3. record' \in [Node -> Catalogs] /\ \A m \in Node, i \in Issuer : record'[m][i] <= high[i]
    BY <1>1, <2>1, <2>2, PutType
  <2>4. task' \in [Worker -> TaskState] /\ \A u \in Worker : WorkOld(task'[u], high)
    BY <1>1, <1>5, <2>2, GotoType DEF PutOwn, FeedOf
  <2> QED
    BY <1>2, <1>5, <2>3, <2>4, OnlyPuts DEF PutOwn, Inv, FeedTypeOK, KeepersOld
<1>6. CASE SendOwn(t)
  <2>1. FeedOf(t) \in Feed /\ FeedOf(t).seq <= high[FeedOf(t).issuer] /\ FeedOf(t).ok
    BY <1>1, <1>6, FeedInHand DEF SendOwn
  <2>2. task' \in [Worker -> TaskState] /\ \A u \in Worker : WorkOld(task'[u], high)
    BY <1>1, <1>6, FinishType DEF SendOwn
  <2>3. /\ air' = air \cup {FeedOf(t)}
        /\ UNCHANGED <<numbers, catalog, subs, blocked, record, ear, keeper, may, ops>>
    BY <1>6 DEF SendOwn, nodeVars
  <2>4. FeedTypeOK'
    BY <2>1, <2>2, <2>3 DEF Inv, FeedTypeOK, NodeTypeOK
  <2>5. AirOld' /\ SentOk'
    BY <2>1, <2>3 DEF Inv, AirOld, SentOk
  <2>6. NumbersAgree' /\ CatalogsOld' /\ EarsOld' /\ KeepersOld' /\ TasksOld'
    BY <2>2, <2>3 DEF Inv, NumbersAgree, CatalogsOld, EarsOld, KeepersOld, TasksOld
  <2> QED
    BY <2>4, <2>5, <2>6 DEF Inv
<1> QED
  BY <1>3, <1>4, <1>5, <1>6

LEMMA CallKeeps ==
    ASSUME Inv, NEW t \in Call, NEW i \in Issuer,
           \/ SearchTag(t, Home[t]) \/ ShowPreview(t)
           \/ Fetch(t, Home[t], i) \/ ResolveChannel(t, Home[t], i)
    PROVE  Inv'
<1> USE NetworkAssumption DEF nodeVars
<1>1. t \in Worker
  BY DEF Worker
<1>2. CASE SearchTag(t, Home[t])
  <2>1. PICK found \in SUBSET Issuer : Begin(t, Work("next", NoIssuer, 0, FALSE, found))
    BY <1>2 DEF SearchTag
  <2>2. task' \in [Worker -> TaskState] /\ \A u \in Worker : WorkOld(task'[u], high)
    BY <1>1, <2>1, MoveType, WorkType DEF Begin
  <2> QED
    BY <1>2, <2>2, OccursType, OnlyTasks DEF SearchTag
<1>3. CASE ShowPreview(t)
  BY <1>1, <1>3, FinishType, OnlyTasks DEF ShowPreview, Inv, FeedTypeOK
<1>4. CASE Fetch(t, Home[t], i)
  <2>1. task' \in [Worker -> TaskState] /\ \A u \in Worker : WorkOld(task'[u], high)
    BY <1>1, <1>4, MoveType, WorkType DEF Fetch, Begin
  <2> QED
    BY <1>4, <2>1, OccursType, OnlyTasks DEF Fetch
<1>5. CASE ResolveChannel(t, Home[t], i)
  <2>1. PICK pc \in {"preview", "ask"} : Begin(t, Work(pc, i, 0, FALSE, {}))
    BY <1>5 DEF ResolveChannel
  <2>2. task' \in [Worker -> TaskState] /\ \A u \in Worker : WorkOld(task'[u], high)
    BY <1>1, <2>1, MoveType, WorkType DEF Begin
  <2> QED
    BY <1>5, <2>2, OccursType, OnlyTasks DEF ResolveChannel
<1> QED
  BY <1>2, <1>3, <1>4, <1>5

\* Subscriptions and bans change no number; a purge takes one away.
LEMMA BanKeeps ==
    ASSUME Inv, NEW t \in Call, NEW i \in Issuer,
           Subscribe(t, Home[t], i) \/ Bar(t, Home[t], i) \/ Purge(t)
    PROVE  Inv'
<1> USE NetworkAssumption
<1>1. t \in Worker /\ NodeOf(t) \in Node /\ Home[t] \in Node
  BY NodeOfType DEF Worker
<1>2. task' \in [Worker -> TaskState] /\ \A u \in Worker : WorkOld(task'[u], high)
  <2>1. CASE Subscribe(t, Home[t], i)
    BY <1>1, <2>1, MoveType, WorkType DEF Subscribe, Begin
  <2>2. CASE Bar(t, Home[t], i)
    BY <1>1, <2>2, MoveType, WorkType DEF Bar, Begin
  <2>3. CASE Purge(t)
    BY <1>1, <2>3, FinishType DEF Purge
  <2> QED
    BY <2>1, <2>2, <2>3
<1>3. UNCHANGED <<numbers, record, air, ear, keeper, may>>
  BY DEF Subscribe, Bar, Purge
<1>4. ops' \in 0 .. MaxOps
  BY OccursType DEF Subscribe, Bar, Purge, Inv, FeedTypeOK
<1>5. subs' \in [Node -> SUBSET Issuer] /\ blocked' \in [Node -> SUBSET Issuer]
  <2>1. subs \in [Node -> SUBSET Issuer] /\ blocked \in [Node -> SUBSET Issuer]
    BY DEF Inv, FeedTypeOK, NodeTypeOK
  <2>2. CASE Subscribe(t, Home[t], i)
    BY <1>1, <2>1, <2>2 DEF Subscribe
  <2>3. CASE Bar(t, Home[t], i)
    BY <1>1, <2>1, <2>3 DEF Bar
  <2>4. CASE Purge(t)
    BY <2>1, <2>4 DEF Purge
  <2> QED
    BY <2>2, <2>3, <2>4
<1>6. catalog' \in [Node -> Catalogs] /\ \A m \in Node, j \in Issuer : catalog'[m][j] <= high[j]
  <2>1. catalog \in [Node -> Catalogs] /\ \A m \in Node, j \in Issuer : catalog[m][j] <= high[j]
    BY DEF Inv, FeedTypeOK, NodeTypeOK, CatalogsOld
  <2>2. CASE UNCHANGED catalog
    BY <2>1, <2>2
  <2>3. CASE Purge(t)
    <3> DEFINE new == [catalog[NodeOf(t)] EXCEPT ![task[t].issuer] = 0]
    <3>1. catalog' = [catalog EXCEPT ![NodeOf(t)] = new]
      BY <2>3 DEF Purge, RemoveIssuer
    <3>2. catalog[NodeOf(t)] \in Catalogs
      BY <1>1, <2>1
    <3>3. new \in Catalogs
      <4>1. 0 \in 0 .. MaxSeq
        BY CatalogAssumption
      <4>2. \A c \in Catalogs : \A j : [c EXCEPT ![j] = 0] \in Catalogs
        BY <4>1
      <4> QED
        BY <3>2, <4>2
    <3>4. \A j \in Issuer : high[j] \in Nat
      BY DEF Inv, FeedTypeOK, NodeTypeOK
    <3>5. \A j \in Issuer : new[j] <= high[j]
      BY <1>1, <2>1, <3>2, <3>4
    <3> HIDE DEF new
    <3> QED
      BY <1>1, <2>1, <3>1, <3>3, <3>5
  <2> QED
    BY <2>2, <2>3 DEF Subscribe, Bar
<1>7. FeedTypeOK'
  BY <1>2, <1>3, <1>4, <1>5, <1>6 DEF Inv, FeedTypeOK, NodeTypeOK
<1>8. NumbersAgree' /\ CatalogsOld' /\ AirOld' /\ EarsOld' /\ KeepersOld' /\ SentOk'
  BY <1>3, <1>6 DEF Inv, NumbersAgree, CatalogsOld, AirOld, EarsOld, KeepersOld, SentOk
<1>9. TasksOld'
  BY <1>2, <1>3 DEF TasksOld
<1> QED
  BY <1>7, <1>8, <1>9 DEF Inv

LEMMA FetchKeeps == ASSUME Inv, NEW w \in Worker, FetchStep(w) PROVE Inv'
<1> USE NetworkAssumption DEF nodeVars
<1>1. NodeOf(w) \in Node /\ task[w] \in TaskState /\ WorkOld(task[w], high) /\ ops \in 0 .. MaxOps
  BY NodeOfType DEF Inv, FeedTypeOK, TasksOld
<1>2. ASSUME NEW asked \in SUBSET Node, Answered(w, asked)
      PROVE  task' \in [Worker -> TaskState] /\ \A u \in Worker : WorkOld(task'[u], high)
  <2> DEFINE i == task[w].issuer
             q == Newest(i, asked)
             x == Work("apply", i, q, TRUE, task[w].todo)
  <2>1. i \in Issuer
    BY <1>1, <1>2 DEF Answered, WorkOld
  <2>2. q \in 0 .. high[i] /\ high[i] \in 0 .. MaxSeq
    BY <2>1, NewestType DEF Inv, FeedTypeOK, NodeTypeOK
  <2>3. CASE Finish(w)
    BY <2>3, FinishType
  <2>4. CASE q # 0 /\ task' = [task EXCEPT ![w] = x]
    <3>1. x \in TaskState /\ WorkOld(x, high)
      <4> HIDE DEF i, q
      <4> QED
        BY <1>1, <2>1, <2>2, <2>4, CatalogAssumption DEF Work, TaskState, WorkOld, i
    <3> QED
      BY <2>4, <3>1, MoveType
  <2> QED
    BY <1>2, <2>3, <2>4 DEF Answered
<1>3. CASE FetchNext(w)
  <2>1. task' \in [Worker -> TaskState] /\ \A u \in Worker : WorkOld(task'[u], high)
    <3>1. task[w].todo \in SUBSET Issuer
      BY <1>1 DEF TaskState
    <3>2. CASE task' = [task EXCEPT ![w] = Idle]
      BY <3>2, IdleType, MoveType
    <3>3. ASSUME NEW i \in task[w].todo,
                 task' = [task EXCEPT ![w] = Work("ask", i, 0, FALSE, task[w].todo \ {i})]
          PROVE  task' \in [Worker -> TaskState] /\ \A u \in Worker : WorkOld(task'[u], high)
      <4> DEFINE x == Work("ask", i, 0, FALSE, task[w].todo \ {i})
      <4>1. x \in TaskState /\ WorkOld(x, high)
        BY <3>1, WorkType
      <4> QED
        BY <3>3, <4>1, MoveType
    <3> QED
      BY <1>3, <3>2, <3>3 DEF FetchNext
  <2> QED
    BY <1>1, <1>3, <2>1, OnlyTasks DEF FetchNext
<1>4. CASE Answer(w)
  BY <1>1, <1>2, <1>4, OnlyTasks DEF Answer
<1>5. CASE AnswerPartly(w)
  BY <1>2, <1>5, OccursType, OnlyTasks DEF AnswerPartly
<1>6. CASE ApplyFetched(w)
  <2>1. FeedOf(w) \in Feed /\ FeedOf(w).seq <= high[FeedOf(w).issuer]
    BY <1>6, FeedInHand DEF ApplyFetched
  <2> QED
    BY <1>1, <1>6, <2>1, FinishType, OnlyLearns DEF ApplyFetched
<1> QED
  BY <1>3, <1>4, <1>5, <1>6 DEF FetchStep

LEMMA GossipKeeps ==
    ASSUME Inv, NEW n \in Node, Hear(n) \/ ApplyHeard(n)
    PROVE  Inv'
<1>1. task \in [Worker -> TaskState] /\ \A u \in Worker : WorkOld(task[u], high)
  BY DEF Inv, FeedTypeOK, TasksOld
<1>2. CASE Hear(n)
  <2>1. PICK f \in air : f.ok /\ ear' = [ear EXCEPT ![n] = f]
    BY <1>2 DEF Hear
  <2>2. f \in Feed /\ f.seq <= high[f.issuer]
    BY <2>1 DEF Inv, FeedTypeOK, NodeTypeOK, AirOld
  <2>3. UNCHANGED <<numbers, catalog, subs, blocked, record, air, task, keeper, may, ops>>
    BY <1>2 DEF Hear, nodeVars
  <2>4. FeedTypeOK'
    BY <2>1, <2>2, <2>3 DEF Inv, FeedTypeOK, NodeTypeOK
  <2>5. EarsOld'
    BY <2>1, <2>2, <2>3 DEF Inv, EarsOld, FeedTypeOK
  <2>6. NumbersAgree' /\ CatalogsOld' /\ AirOld' /\ KeepersOld' /\ TasksOld' /\ SentOk'
    BY <2>3 DEF Inv, NumbersAgree, CatalogsOld, AirOld, KeepersOld, TasksOld, SentOk
  <2> QED
    BY <2>4, <2>5, <2>6 DEF Inv
<1>3. CASE ApplyHeard(n)
  <2>1. ear[n] \in Feed /\ ear[n].seq <= high[ear[n].issuer]
    BY <1>3 DEF ApplyHeard, Inv, EarsOld
  <2> QED
    BY <1>1, <1>3, <2>1, OnlyLearns DEF ApplyHeard
<1> QED
  BY <1>2, <1>3

LEMMA LoopKeeps ==
    ASSUME Inv, NEW n \in Node, FollowPass(n) \/ KeepPass(n) \/ KeepPut(n)
    PROVE  Inv'
<1> USE NetworkAssumption
<1>1. /\ task \in [Worker -> TaskState] /\ \A u \in Worker : WorkOld(task[u], high)
      /\ keeper \in [Node -> SUBSET (Issuer \X (1 .. MaxSeq))]
      /\ \A m \in Node : \A k \in keeper[m] : k[2] <= high[k[1]]
      /\ ops \in 0 .. MaxOps
  BY DEF Inv, FeedTypeOK, TasksOld, KeepersOld
<1>2. CASE FollowPass(n)
  <2>1. n \in Worker /\ subs[n] \in SUBSET Issuer
    BY DEF Worker, Inv, FeedTypeOK, NodeTypeOK
  <2>2. task' \in [Worker -> TaskState] /\ \A u \in Worker : WorkOld(task'[u], high)
    BY <1>2, <2>1, MoveType, WorkType DEF FollowPass, Begin
  <2> QED
    BY <1>1, <1>2, <2>2, OnlyTasks DEF FollowPass
<1>3. CASE KeepPass(n)
  <2> DEFINE todo == {<<i, catalog[n][i]>> : i \in Republished(n)}
  <2>1. \A i \in Republished(n) : i \in Issuer /\ catalog[n][i] \in 1 .. MaxSeq /\ catalog[n][i] <= high[i]
    BY CatalogAssumption DEF Republished, Known, Inv, FeedTypeOK, NodeTypeOK, CatalogsOld
  <2>2. todo \in SUBSET (Issuer \X (1 .. MaxSeq)) /\ \A k \in todo : k[2] <= high[k[1]]
    BY <2>1
  <2>3. keeper' = [keeper EXCEPT ![n] = todo] /\ UNCHANGED <<nodeVars, record, air, task, ear, may, ops>>
    BY <1>3 DEF KeepPass
  <2>4. /\ keeper' \in [Node -> SUBSET (Issuer \X (1 .. MaxSeq))]
        /\ \A m \in Node : \A k \in keeper'[m] : k[2] <= high[k[1]]
    <3> HIDE DEF todo
    <3> QED
      BY <1>1, <2>2, <2>3
  <2>5. record \in [Node -> Catalogs] /\ \A m \in Node, i \in Issuer : record[m][i] <= high[i]
    BY DEF Inv, FeedTypeOK, NodeTypeOK, CatalogsOld
  <2> HIDE DEF todo
  <2> QED
    BY <1>1, <2>3, <2>4, <2>5, OnlyPuts
<1>4. CASE KeepPut(n)
  <2>1. PICK k \in keeper[n], reached \in SUBSET Node :
            /\ Put(n, [issuer |-> k[1], seq |-> k[2], ok |-> TRUE], reached)
            /\ keeper' = [keeper EXCEPT ![n] = keeper[n] \ {k}]
    BY <1>4 DEF KeepPut
  <2> DEFINE f == [issuer |-> k[1], seq |-> k[2], ok |-> TRUE]
  <2>2. f.issuer \in Issuer /\ f.seq \in 1 .. MaxSeq /\ f.seq <= high[f.issuer]
    BY <1>1
  <2>3. record' \in [Node -> Catalogs] /\ \A m \in Node, i \in Issuer : record'[m][i] <= high[i]
    <3> HIDE DEF f
    <3> QED
      BY <2>1, <2>2, PutType DEF f
  <2>4. /\ keeper' \in [Node -> SUBSET (Issuer \X (1 .. MaxSeq))]
        /\ \A m \in Node : \A l \in keeper'[m] : l[2] <= high[l[1]]
    BY <1>1, <2>1
  <2>5. UNCHANGED <<nodeVars, air, task, ear, may, ops>>
    BY <1>4 DEF KeepPut
  <2> QED
    BY <1>1, <2>3, <2>4, <2>5, OnlyPuts
<1> QED
  BY <1>2, <1>3, <1>4

\* A feed that is sent again, or whose record expires.
LEMMA RecordKeeps ==
    ASSUME Inv, NEW n \in Node, NEW i \in Issuer, Replay(n, i) \/ Expire(n, i)
    PROVE  Inv'
<1>1. record \in [Node -> Catalogs] /\ \A m \in Node, j \in Issuer : record[m][j] <= high[j]
  BY DEF Inv, FeedTypeOK, NodeTypeOK, CatalogsOld
<1>2. high[i] \in Nat
  BY DEF Inv, FeedTypeOK, NodeTypeOK
<1>3. PICK q \in 0 .. MaxSeq : q <= high[i] /\ record' = [record EXCEPT ![n][i] = q]
  <2>1. CASE Replay(n, i)
    <3>1. PICK f \in air : f.issuer = i /\ f.ok /\ record' = [record EXCEPT ![n][i] = f.seq]
      BY <2>1 DEF Replay
    <3>2. f.seq \in 0 .. MaxSeq /\ f.seq <= high[i]
      BY <3>1, CatalogAssumption DEF Inv, FeedTypeOK, NodeTypeOK, AirOld
    <3> QED
      BY <3>1, <3>2
  <2>2. CASE Expire(n, i)
    <3>1. record' = [record EXCEPT ![n][i] = 0]
      BY <2>2 DEF Expire
    <3>2. 0 \in 0 .. MaxSeq /\ 0 <= high[i]
      BY <1>2, CatalogAssumption
    <3> QED
      BY <3>1, <3>2
  <2> QED
    BY <2>1, <2>2
<1> DEFINE new == [record[n] EXCEPT ![i] = q]
<1>4. record' = [record EXCEPT ![n] = new]
  BY <1>3
<1>5. new \in Catalogs /\ \A j \in Issuer : new[j] <= high[j]
  BY <1>1, <1>3
<1>6. record' \in [Node -> Catalogs] /\ \A m \in Node, j \in Issuer : record'[m][j] <= high[j]
  <2> HIDE DEF new
  <2> QED
    BY <1>1, <1>4, <1>5
<1>7. UNCHANGED <<nodeVars, air, task, ear, keeper, may>>
  BY DEF Replay, Expire
<1>8. ops' \in 0 .. MaxOps
  BY OccursType DEF Replay, Expire
<1> QED
  BY <1>6, <1>7, <1>8, OnlyPuts DEF Inv, FeedTypeOK, TasksOld, KeepersOld

LEMMA ListKeeps ==
    ASSUME Inv, NEW n \in Node, NEW i \in Issuer, Unsubscribe(n, i) \/ Unblock(n, i)
    PROVE  Inv'
<1>1. UNCHANGED <<numbers, catalog, record, air, task, ear, keeper, may>>
  BY DEF Unsubscribe, Unblock
<1>2. subs' \in [Node -> SUBSET Issuer] /\ blocked' \in [Node -> SUBSET Issuer]
  <2>1. subs \in [Node -> SUBSET Issuer] /\ blocked \in [Node -> SUBSET Issuer]
    BY DEF Inv, FeedTypeOK, NodeTypeOK
  <2>2. CASE Unsubscribe(n, i)
    BY <2>1, <2>2 DEF Unsubscribe
  <2>3. CASE Unblock(n, i)
    BY <2>1, <2>3 DEF Unblock
  <2> QED
    BY <2>2, <2>3
<1>3. ops' \in 0 .. MaxOps
  BY OccursType DEF Unsubscribe, Unblock
<1>4. FeedTypeOK'
  BY <1>1, <1>2, <1>3 DEF Inv, FeedTypeOK, NodeTypeOK
<1>5. /\ NumbersAgree' /\ CatalogsOld' /\ AirOld' /\ EarsOld' /\ KeepersOld'
      /\ TasksOld' /\ SentOk'
  BY <1>1 DEF Inv, NumbersAgree, CatalogsOld, AirOld, EarsOld, KeepersOld, TasksOld, SentOk
<1> QED
  BY <1>4, <1>5 DEF Inv

\* The file holds the highest number, if it could be written, and then a restart forgets
\* none.
LEMMA RestartKeeps == ASSUME Inv, NEW n \in Node, Restart(n) PROVE Inv'
<1> USE CatalogAssumption
<1>1. /\ seq' = [seq EXCEPT ![n] = saved[n]]
      /\ catalog' = [catalog EXCEPT ![n] = NoFeeds] /\ record' = [record EXCEPT ![n] = NoFeeds]
      /\ ear' = [ear EXCEPT ![n] = NoFeed] /\ keeper' = [keeper EXCEPT ![n] = {}]
      /\ UNCHANGED <<saved, high, again, unsaved, subs, blocked, air, may>>
  BY DEF Restart
<1>2. \A u \in Worker : task'[u] \in {Idle, task[u]}
  BY DEF Restart
<1>3. task' \in [Worker -> TaskState] /\ \A u \in Worker : WorkOld(task'[u], high)
  <2>1. \A u \in Worker : task'[u] \in TaskState /\ WorkOld(task'[u], high)
    BY <1>2, IdleType DEF Inv, FeedTypeOK, TasksOld
  <2>2. task' = [u \in Worker |-> task'[u]]
    BY DEF Restart
  <2> QED
    BY <2>1, <2>2
<1>4. ops' \in 0 .. MaxOps
  BY OccursType DEF Restart
<1>5. NoFeeds \in Catalogs /\ \A i \in Issuer : NoFeeds[i] = 0
  BY DEF NoFeeds
<1>6. \A i \in Issuer : high[i] \in Nat
  BY DEF Inv, FeedTypeOK, NodeTypeOK
<1>7. NodeTypeOK'
  BY <1>1, <1>5 DEF Inv, FeedTypeOK, NodeTypeOK
<1>8. FeedTypeOK'
  BY <1>1, <1>3, <1>4, <1>7 DEF Inv, FeedTypeOK
<1>9. NumbersAgree'
  <2>1. ASSUME NEW m \in Node
        PROVE  /\ seq'[m] \in {seq[m], saved[m]} /\ (m = n => seq'[m] = saved[m])
               /\ seq[m] \in Nat /\ saved[m] \in Nat /\ high[m] \in Nat
    BY <1>1, NetworkAssumption DEF Inv, FeedTypeOK, NodeTypeOK
  <2>2. \A m \in Node : /\ saved[m] <= seq[m] /\ seq[m] <= high[m]
                        /\ m \notin unsaved => seq[m] = high[m] /\ saved[m] = high[m]
    BY DEF Inv, NumbersAgree
  <2> QED
    BY <1>1, <2>1, <2>2 DEF NumbersAgree
<1>10. CatalogsOld'
  BY <1>1, <1>5, <1>6 DEF Inv, FeedTypeOK, NodeTypeOK, CatalogsOld
<1>11. AirOld' /\ SentOk' /\ TasksOld'
  BY <1>1, <1>3 DEF Inv, AirOld, SentOk, TasksOld
<1>12. EarsOld' /\ KeepersOld'
  BY <1>1 DEF Inv, FeedTypeOK, EarsOld, KeepersOld
<1> QED
  BY <1>8, <1>9, <1>10, <1>11, <1>12 DEF Inv

LEMMA InvNext == Inv /\ [FeedNext]_vars => Inv'
<1> SUFFICES ASSUME Inv, [FeedNext]_vars PROVE Inv'
  OBVIOUS
<1> USE NetworkAssumption
<1>1. ASSUME NEW t \in Call, CallStep(t) PROVE Inv'
  BY <1>1, OwnKeeps, PublishKeeps, CallKeeps, BanKeeps DEF CallStep
<1>2. ASSUME NEW w \in Worker, FetchStep(w) PROVE Inv'
  BY <1>2, FetchKeeps
<1>3. ASSUME NEW n \in Node, NodeStep(n) PROVE Inv'
  BY <1>3, GossipKeeps, LoopKeeps, RecordKeeps, ListKeeps, RestartKeeps DEF NodeStep
<1>4. CASE UNCHANGED vars
  <2>1. UNCHANGED <<nodeVars, record, air, task, ear, keeper, may, ops>>
    BY <1>4 DEF vars
  <2> QED
    BY <2>1, OnlyTasks DEF Inv, FeedTypeOK, TasksOld
<1> QED
  BY <1>1, <1>2, <1>3, <1>4 DEF FeedNext

LEMMA InvHolds == FeedSpec => []Inv
<1> QED
  BY InvInit, InvNext, PTL DEF FeedSpec

-----------------------------------------------------------------------------
(* Types and publications *)

\* FeedNetwork keeps its types, whatever scene it plays.
THEOREM FeedTypeCorrect == FeedSpec => []FeedTypeOK
<1>1. Inv => FeedTypeOK
  BY DEF Inv
<1> QED
  BY <1>1, InvHolds, PTL

\* No node sends a publication that the others would reject, though its number is
\* taken before the bounds are looked at (publish_feed_with).
THEOREM PublicationsVerify == FeedSpec => []SentIsAccepted
<1>1. Inv => SentIsAccepted
  BY DEF Inv, SentIsAccepted, SentOk, TasksOld, WorkOld, Worker
<1> QED
  BY <1>1, InvHolds, PTL

-----------------------------------------------------------------------------
(* The refinement of NewestFeed *)

LEMMA RegisterInit == FeedInit => Register!Init
  BY HighAtStartType, CatalogAssumption DEF FeedInit, Register!Init, NoFeeds

\* Applying a signed feed is learning it, or nothing.
LEMMA RegisterLearn ==
    ASSUME Inv, NEW n \in Node, NEW f \in Feed, f.seq <= high[f.issuer], Learn(n, f),
           UNCHANGED numbers
    PROVE  Register!Learn(n, f.issuer) \/ UNCHANGED catalog
<1>1. catalog \in [Node -> Catalogs] /\ catalog[n] \in Catalogs
  BY DEF Inv, FeedTypeOK, NodeTypeOK
<1>2. CASE Apply(catalog[n], subs[n], f) = catalog[n]
  BY <1>1, <1>2 DEF Learn
<1>3. CASE /\ Apply(catalog[n], subs[n], f) = [catalog[n] EXCEPT ![f.issuer] = f.seq]
           /\ catalog[n][f.issuer] < f.seq
  <2> DEFINE new == [catalog[n] EXCEPT ![f.issuer] = f.seq]
  <2>1. catalog' = [catalog EXCEPT ![n] = new]
    BY <1>3 DEF Learn
  <2>2. new[f.issuer] = f.seq
    BY <1>1
  <2>3. catalog'[n][f.issuer] = f.seq
    <3> HIDE DEF new
    <3> QED
      BY <1>1, <2>1, <2>2
  <2>4. catalog' = [catalog EXCEPT ![n][f.issuer] = catalog'[n][f.issuer]]
    BY <1>3, <2>3 DEF Learn
  <2> QED
    BY <1>3, <2>3, <2>4 DEF Register!Learn
<1> QED
  BY <1>1, <1>2, <1>3, ApplyStep

\* Signing, learning and forgetting are all that happens to numbers and catalogs.
LEMMA RegisterNext == Inv /\ [FeedNext]_vars => [Register!Next]_(Register!vars)
<1> SUFFICES ASSUME Inv, [FeedNext]_vars
             PROVE  Register!Next \/ UNCHANGED <<high, again, unsaved, catalog>>
  BY DEF Register!vars
<1> USE NetworkAssumption
<1>1. \A w \in Worker : NodeOf(w) \in Node
  BY NodeOfType
<1>2. ASSUME NEW t \in Call, CallStep(t) PROVE Register!Next \/ UNCHANGED <<high, again, unsaved, catalog>>
  <2>1. t \in Worker /\ Home[t] \in Node /\ Home[t] \in Issuer
    BY DEF Worker
  <2>2. CASE ApplyOwn(t)
    <3>1. FeedOf(t) \in Feed /\ FeedOf(t).seq <= high[FeedOf(t).issuer]
      BY <2>1, <2>2, FeedInHand DEF ApplyOwn
    <3>2. UNCHANGED numbers /\ (Learn(NodeOf(t), FeedOf(t)) \/ UNCHANGED catalog)
      BY <2>2 DEF ApplyOwn
    <3> QED
      BY <1>1, <2>1, <3>1, <3>2, RegisterLearn DEF Register!Next
  <2>3. CASE Publish(t, Home[t]) \/ PublishUnwritten(t, Home[t])
    <3> DEFINE n == Home[t]
    <3>1. high \in [Issuer -> Nat] /\ seq[n] \in Nat
      BY <2>1 DEF Inv, FeedTypeOK, NodeTypeOK
    <3>2. UNCHANGED catalog /\ unsaved' \in {unsaved, unsaved \ {n}, unsaved \cup {n}}
      BY <2>3, NumberTaken DEF Publish, PublishUnwritten, TakeNumber
    <3>3. CASE /\ seq[n] + 1 > high[n] /\ again' = again
               /\ high' = [high EXCEPT ![n] = seq[n] + 1]
      <4>1. high'[n] = seq[n] + 1
        BY <2>1, <3>1, <3>3
      <4>2. Register!Sign(n)
        BY <3>2, <3>3, <4>1 DEF Register!Sign, Register!Save
      <4> QED
        BY <2>1, <4>2 DEF Register!Next
    <3>4. CASE /\ high' = high /\ n \in unsaved
               /\ again' = [again EXCEPT ![n] = @ + 1]
      <4>1. Register!SignAgain(n)
        BY <3>2, <3>4 DEF Register!SignAgain, Register!Save
      <4> QED
        BY <2>1, <4>1 DEF Register!Next
    <3> QED
      BY <2>3, <3>3, <3>4, NumberTaken
  <2>4. CASE Purge(t)
    <3> DEFINE n == NodeOf(t)
               I == {task[t].issuer}
    <3>1. task[t].issuer \in Issuer
      BY <2>1, <2>4 DEF Purge, Inv, TasksOld, WorkOld
    <3>2. catalog[n] \in [Issuer -> 0 .. MaxSeq]
      BY <1>1, <2>1 DEF Inv, FeedTypeOK, NodeTypeOK
    <3>3. RemoveIssuer(catalog[n], task[t].issuer) =
              [i \in Issuer |-> IF i \in I THEN 0 ELSE catalog[n][i]]
      BY <3>1, <3>2 DEF RemoveIssuer
    <3>4. Register!Forget(n, I)
      BY <2>4, <3>3 DEF Purge, Register!Forget
    <3> QED
      BY <1>1, <2>1, <3>1, <3>4 DEF Register!Next
  <2>5. CASE ~ (ApplyOwn(t) \/ Publish(t, Home[t]) \/ PublishUnwritten(t, Home[t]) \/ Purge(t))
    BY <1>2, <2>5 DEF CallStep, PutOwn, SendOwn, SearchTag, ShowPreview, Fetch,
                      ResolveChannel, Subscribe, Bar, nodeVars
  <2> QED
    BY <2>2, <2>3, <2>4, <2>5
<1>3. ASSUME NEW w \in Worker, FetchStep(w) PROVE Register!Next \/ UNCHANGED <<high, again, unsaved, catalog>>
  <2>1. CASE ApplyFetched(w)
    <3>1. FeedOf(w) \in Feed /\ FeedOf(w).seq <= high[FeedOf(w).issuer]
      BY <2>1, FeedInHand DEF ApplyFetched
    <3>2. UNCHANGED numbers /\ Learn(NodeOf(w), FeedOf(w))
      BY <2>1 DEF ApplyFetched
    <3> QED
      BY <1>1, <3>1, <3>2, RegisterLearn DEF Register!Next
  <2>2. CASE ~ ApplyFetched(w)
    BY <1>3, <2>2 DEF FetchStep, FetchNext, Answer, AnswerPartly, nodeVars
  <2> QED
    BY <2>1, <2>2
<1>4. ASSUME NEW n \in Node, NodeStep(n) PROVE Register!Next \/ UNCHANGED <<high, again, unsaved, catalog>>
  <2>1. CASE ApplyHeard(n)
    <3>1. ear[n] \in Feed /\ ear[n].seq <= high[ear[n].issuer]
      BY <2>1 DEF ApplyHeard, Inv, EarsOld
    <3>2. UNCHANGED numbers /\ Learn(n, ear[n])
      BY <2>1 DEF ApplyHeard
    <3> QED
      BY <3>1, <3>2, RegisterLearn DEF Register!Next
  <2>2. CASE Restart(n)
    <3>1. NoFeeds = [i \in Issuer |-> IF i \in Issuer THEN 0 ELSE catalog[n][i]]
      BY DEF NoFeeds
    <3>2. Register!Forget(n, Issuer)
      BY <2>2, <3>1 DEF Restart, Register!Forget
    <3> QED
      BY <3>2 DEF Register!Next
  <2>3. CASE ~ (ApplyHeard(n) \/ Restart(n))
    BY <1>4, <2>3 DEF NodeStep, Hear, FollowPass, KeepPass, KeepPut, Unsubscribe, Unblock,
                      Replay, Expire, nodeVars
  <2> QED
    BY <2>1, <2>2, <2>3
<1>5. CASE UNCHANGED vars
  BY <1>5 DEF vars, nodeVars
<1> QED
  BY <1>2, <1>3, <1>4, <1>5 DEF FeedNext

\* Over gossip and records in any order and over restarts, no catalog goes back to an older
\* feed or shows a number that was not signed, and an issuer takes a number again only
\* where its highest one could not be written (publish_feed_with, Catalog::apply).
THEOREM CatalogsOnlyAdvance == FeedSpec => ImplementsNewest
<1> QED
  BY InvHolds, RegisterInit, RegisterNext, PTL DEF FeedSpec, ImplementsNewest, Register!Spec

-----------------------------------------------------------------------------
(* Bans *)

\* What a worker publishes is under the name of its own node.
OwnName == \A w \in Worker : task[w].pc = "own" => task[w].issuer = NodeOf(w)

\* A worker that takes up a feed has looked at the bans, or publishes.
LEMMA TakenUp ==
    ASSUME Inv, [FeedNext]_vars
    PROVE  \A w \in Worker :
               \/ task'[w] = task[w]
               \/ /\ task'[w].pc = "own" => task'[w].issuer = NodeOf(w)
                  /\ task'[w].pc = "apply" => task'[w].issuer \notin blocked[NodeOf(w)]
<1> USE NetworkAssumption
<1> DEFINE Fine(w, x) == /\ x.pc = "own" => x.issuer = NodeOf(w)
                         /\ x.pc = "apply" => x.issuer \notin blocked[NodeOf(w)]
           AllFine == \A u \in Worker : task'[u] = task[u] \/ Fine(u, task'[u])
<1>1. task \in [Worker -> TaskState]
  BY DEF Inv, FeedTypeOK
<1>2. ASSUME NEW w \in Worker, NEW x, task' = [task EXCEPT ![w] = x], Fine(w, x)
      PROVE  AllFine
  BY <1>1, <1>2
<1>3. ASSUME NEW w \in Worker, Finish(w)
      PROVE  AllFine
  <2>1. \/ task' = [task EXCEPT ![w] = Work("next", NoIssuer, 0, FALSE, task[w].todo)]
        \/ task' = [task EXCEPT ![w] = Idle]
    BY <1>3 DEF Finish
  <2>2. Fine(w, Work("next", NoIssuer, 0, FALSE, task[w].todo)) /\ Fine(w, Idle)
    BY DEF Idle, Work
  <2> HIDE DEF Fine
  <2> QED
    BY <1>2, <2>1, <2>2
<1>4. ASSUME NEW w \in Worker, NEW pc \in {"next", "ask", "preview", "purge"}, NEW i, NEW ok, NEW todo,
             task' = [task EXCEPT ![w] = Work(pc, i, 0, ok, todo)]
      PROVE  AllFine
  <2>1. Fine(w, Work(pc, i, 0, ok, todo))
    BY DEF Work
  <2> HIDE DEF Fine
  <2> QED
    BY <1>2, <1>4, <2>1
<1>5. ASSUME NEW t \in Call, CallStep(t)
      PROVE  AllFine
  <2>1. t \in Worker /\ NodeOf(t) = Home[t]
    BY DEF Worker, NodeOf
  <2>2. CASE ApplyOwn(t) \/ PutOwn(t) \/ SendOwn(t) \/ Purge(t) \/ ShowPreview(t)
    <3>1. CASE Finish(t)
      <4> HIDE DEF Fine
      <4> QED
        BY <1>3, <2>1, <3>1
    <3>2. CASE Goto(t, "put") \/ Goto(t, "send")
      <4>1. PICK pc \in {"put", "send"} : task' = [task EXCEPT ![t] = [task[t] EXCEPT !.pc = pc]]
        BY <3>2 DEF Goto
      <4>2. task[t] \in TaskState
        BY <1>1, <2>1
      <4>3. Fine(t, [task[t] EXCEPT !.pc = pc])
        BY <4>2 DEF TaskState
      <4> HIDE DEF Fine
      <4> QED
        BY <1>2, <2>1, <4>1, <4>3
    <3> QED
      BY <2>2, <3>1, <3>2 DEF ApplyOwn, PutOwn, SendOwn, Purge, ShowPreview
  <2>3. CASE Publish(t, Home[t]) \/ PublishUnwritten(t, Home[t])
    <3>1. PICK q, ok : task' = [task EXCEPT ![t] = Work("own", Home[t], q, ok, {})]
      BY <2>3 DEF Publish, PublishUnwritten, TakeNumber, Begin
    <3>2. Fine(t, Work("own", Home[t], q, ok, {}))
      BY <2>1 DEF Work
    <3> HIDE DEF Fine
    <3> QED
      BY <1>2, <2>1, <3>1, <3>2
  <2>4. CASE \/ SearchTag(t, Home[t])
             \/ \E i \in Issuer : \/ Fetch(t, Home[t], i) \/ ResolveChannel(t, Home[t], i)
                                  \/ Subscribe(t, Home[t], i) \/ Bar(t, Home[t], i)
    <3>1. PICK pc \in {"next", "ask", "preview", "purge"}, i \in Issuer \cup {NoIssuer},
              todo \in SUBSET Issuer :
              task' = [task EXCEPT ![t] = Work(pc, i, 0, FALSE, todo)]
      BY <2>4 DEF SearchTag, Fetch, ResolveChannel, Subscribe, Bar, Begin
    <3> HIDE DEF Fine
    <3> QED
      BY <1>4, <2>1, <3>1
  <2> QED
    BY <1>5, <2>2, <2>3, <2>4 DEF CallStep
<1>6. ASSUME NEW w \in Worker, FetchStep(w)
      PROVE  AllFine
  <2>1. CASE Finish(w)
    <3> HIDE DEF Fine
    <3> QED
      BY <1>3, <2>1
  <2>2. CASE FetchNext(w)
    <3>1. CASE task' = [task EXCEPT ![w] = Idle]
      <4>1. Fine(w, Idle)
        BY DEF Idle, Work
      <4> HIDE DEF Fine
      <4> QED
        BY <1>2, <3>1, <4>1
    <3>2. CASE task' # [task EXCEPT ![w] = Idle]
      <4>1. PICK i, todo : task' = [task EXCEPT ![w] = Work("ask", i, 0, FALSE, todo)]
        BY <2>2, <3>2 DEF FetchNext
      <4> HIDE DEF Fine
      <4> QED
        BY <1>4, <4>1
    <3> QED
      BY <3>1, <3>2
  <2>3. ASSUME NEW asked, Answered(w, asked), ~ Finish(w)
        PROVE  AllFine
    <3>1. PICK q : /\ task[w].issuer \notin blocked[NodeOf(w)]
                   /\ task' = [task EXCEPT ![w] = Work("apply", task[w].issuer, q, TRUE, task[w].todo)]
      BY <2>3 DEF Answered
    <3>2. Fine(w, Work("apply", task[w].issuer, q, TRUE, task[w].todo))
      BY <3>1 DEF Work
    <3> HIDE DEF Fine
    <3> QED
      BY <1>2, <3>1, <3>2
  <2> HIDE DEF Fine
  <2> QED
    BY <1>6, <2>1, <2>2, <2>3 DEF FetchStep, Answer, AnswerPartly, ApplyFetched
<1>7. ASSUME NEW n \in Node, NodeStep(n)
      PROVE  AllFine
  <2>1. n \in Worker
    BY DEF Worker
  <2>2. CASE FollowPass(n)
    <3>1. task' = [task EXCEPT ![n] = Work("next", NoIssuer, 0, FALSE, subs[n])]
      BY <2>2 DEF FollowPass, Begin
    <3> HIDE DEF Fine
    <3> QED
      BY <1>4, <2>1, <3>1
  <2>3. CASE Restart(n)
    <3>1. Idle.pc = "idle"
      BY DEF Idle, Work
    <3>2. \A u \in Worker : task'[u] \in {task[u], Idle}
      BY <2>3 DEF Restart
    <3> QED
      BY <3>1, <3>2
  <2>4. CASE UNCHANGED task
    BY <2>4
  <2> HIDE DEF Fine
  <2> QED
    BY <1>7, <2>2, <2>3, <2>4 DEF NodeStep, Hear, ApplyHeard, KeepPass, KeepPut, Unsubscribe,
                                  Unblock, Replay, Expire
<1>8. AllFine
  <2>1. FeedNext \/ UNCHANGED vars
    OBVIOUS
  <2>2. CASE UNCHANGED vars
    BY <2>2 DEF vars
  <2> HIDE DEF Fine, AllFine
  <2>3. CASE \E t \in Call : CallStep(t)
    BY <2>3, <1>5
  <2>4. CASE \E w \in Worker : FetchStep(w)
    BY <2>4, <1>6
  <2>5. CASE \E n \in Node : NodeStep(n)
    BY <2>5, <1>7
  <2> QED
    BY <2>1, <2>2, <2>3, <2>4, <2>5 DEF FeedNext
<1> QED
  BY <1>8

LEMMA OwnNameInit == FeedInit => OwnName
  BY DEF FeedInit, OwnName, Idle, Work

LEMMA OwnNameNext == Inv /\ OwnName /\ [FeedNext]_vars => OwnName'
<1> SUFFICES ASSUME Inv, OwnName, [FeedNext]_vars, NEW w \in Worker, task'[w].pc = "own"
             PROVE  task'[w].issuer = NodeOf(w)
  BY DEF OwnName, NodeOf
<1> QED
  BY TakenUp DEF OwnName

LEMMA OwnNameHolds == FeedSpec => []OwnName
<1> QED
  BY InvHolds, OwnNameInit, OwnNameNext, PTL DEF FeedSpec

\* A catalog changes for an issuer by what the event loop or a worker of the node has in
\* hand of it, or forgets it.
LEMMA CatalogStep ==
    ASSUME Inv, OwnName, [FeedNext]_vars, NEW n \in Node, NEW i \in Issuer
    PROVE  \/ catalog'[n][i] \in {0, catalog[n][i]}
           \/ ear[n].issuer = i
           \/ n = i
           \/ \E w \in Worker : NodeOf(w) = n /\ task[w].issuer = i /\ task[w].pc = "apply"
<1> USE NetworkAssumption
<1> DEFINE Goal == \/ catalog'[n][i] \in {0, catalog[n][i]}
                   \/ ear[n].issuer = i
                   \/ n = i
                   \/ \E w \in Worker : NodeOf(w) = n /\ task[w].issuer = i /\ task[w].pc = "apply"
<1>1. catalog \in [Node -> Catalogs] /\ \A w \in Worker : NodeOf(w) \in Node
  BY NodeOfType DEF Inv, FeedTypeOK, NodeTypeOK
<1>2. CASE UNCHANGED catalog
  BY <1>2
<1>3. ASSUME NEW w \in Worker, task[w].pc \in {"own", "apply"}, Learn(NodeOf(w), FeedOf(w)), UNCHANGED high
      PROVE  Goal
  <2>1. FeedOf(w) \in Feed /\ FeedOf(w).seq <= high[FeedOf(w).issuer] /\ FeedOf(w).issuer = task[w].issuer
    BY <1>3, FeedInHand
  <2>2. NodeOf(w) # n \/ task[w].issuer # i => catalog'[n][i] = catalog[n][i]
    BY <1>1, <1>3, <2>1, LearnType
  <2>3. task[w].pc = "own" => task[w].issuer = NodeOf(w)
    BY DEF OwnName
  <2> QED
    BY <1>3, <2>2, <2>3
<1>4. ASSUME NEW t \in Call, CallStep(t) PROVE Goal
  <2>1. t \in Worker
    BY DEF Worker
  <2>2. CASE ApplyOwn(t)
    BY <1>2, <1>3, <2>1, <2>2 DEF ApplyOwn
  <2>3. CASE Purge(t)
    <3>1. catalog' = [catalog EXCEPT ![NodeOf(t)] = [catalog[NodeOf(t)] EXCEPT ![task[t].issuer] = 0]]
      BY <2>3 DEF Purge, RemoveIssuer
    <3>2. catalog[NodeOf(t)] \in Catalogs
      BY <1>1, <2>1
    <3> QED
      BY <1>1, <3>1, <3>2
  <2>4. CASE ~ (ApplyOwn(t) \/ Purge(t))
    BY <1>2, <1>4, <2>4 DEF CallStep, PutOwn, SendOwn, Publish, PublishUnwritten,
                            TakeNumber, SearchTag, ShowPreview, Fetch,
                            ResolveChannel, Subscribe, Bar, nodeVars
  <2> QED
    BY <2>2, <2>3, <2>4
<1>5. ASSUME NEW w \in Worker, FetchStep(w) PROVE Goal
  <2>1. CASE ApplyFetched(w)
    BY <1>3, <2>1 DEF ApplyFetched
  <2>2. CASE ~ ApplyFetched(w)
    BY <1>2, <1>5, <2>2 DEF FetchStep, FetchNext, Answer, AnswerPartly, nodeVars
  <2> QED
    BY <2>1, <2>2
<1>6. ASSUME NEW m \in Node, NodeStep(m) PROVE Goal
  <2>1. CASE ApplyHeard(m)
    <3>1. ear[m] \in Feed /\ ear[m].seq <= high[ear[m].issuer]
      BY <2>1 DEF ApplyHeard, Inv, EarsOld
    <3>2. m # n \/ ear[m].issuer # i => catalog'[n][i] = catalog[n][i]
      BY <2>1, <3>1, LearnType DEF ApplyHeard
    <3> QED
      BY <3>2
  <2>2. CASE Restart(m)
    BY <1>1, <2>2 DEF Restart, NoFeeds
  <2>3. CASE ~ (ApplyHeard(m) \/ Restart(m))
    BY <1>2, <1>6, <2>3 DEF NodeStep, Hear, FollowPass, KeepPass, KeepPut, Unsubscribe, Unblock,
                            Replay, Expire, nodeVars
  <2> QED
    BY <2>1, <2>2, <2>3
<1>7. Goal
  <2>1. FeedNext \/ UNCHANGED vars
    OBVIOUS
  <2>2. CASE UNCHANGED vars
    BY <1>2, <2>2 DEF vars, nodeVars
  <2> HIDE DEF Goal
  <2>3. CASE FeedNext
    BY <1>4, <1>5, <1>6, <2>3 DEF FeedNext
  <2> QED
    BY <2>1, <2>2, <2>3
<1> QED
  BY <1>7

\* The event loop only takes up the feeds of issuers that are not barred.
LEMMA EarStep ==
    ASSUME Inv, [FeedNext]_vars, NEW n \in Node
    PROVE  ear'[n] \in {NoFeed, ear[n]} \/ ear'[n].issuer \notin blocked[n]
<1>1. ear \in [Node -> Feed \cup {NoFeed}]
  BY DEF Inv, FeedTypeOK
<1>2. ASSUME NEW m \in Node, Hear(m) \/ ApplyHeard(m) \/ Restart(m)
      PROVE  ear'[n] \in {NoFeed, ear[n]} \/ ear'[n].issuer \notin blocked[n]
  BY <1>1, <1>2 DEF Hear, ApplyHeard, Restart
<1>3. CASE UNCHANGED ear
  BY <1>3
<1>4. UNCHANGED ear \/ \E m \in Node : Hear(m) \/ ApplyHeard(m) \/ Restart(m)
  <2>1. FeedNext \/ UNCHANGED vars
    OBVIOUS
  <2>2. CASE UNCHANGED vars
    BY <2>2 DEF vars
  <2>3. ASSUME NEW t \in Call, CallStep(t) PROVE UNCHANGED ear
    BY <2>3 DEF CallStep, ApplyOwn, PutOwn, SendOwn, Purge, Publish, PublishUnwritten,
                            TakeNumber, SearchTag, ShowPreview,
                Fetch, ResolveChannel, Subscribe, Bar
  <2>4. ASSUME NEW w \in Worker, FetchStep(w) PROVE UNCHANGED ear
    BY <2>4 DEF FetchStep, FetchNext, Answer, AnswerPartly, ApplyFetched
  <2>5. ASSUME NEW m \in Node, NodeStep(m)
        PROVE  UNCHANGED ear \/ Hear(m) \/ ApplyHeard(m) \/ Restart(m)
    BY <2>5 DEF NodeStep, FollowPass, KeepPass, KeepPut, Unsubscribe, Unblock, Replay, Expire
  <2> QED
    BY <2>1, <2>2, <2>3, <2>4, <2>5 DEF FeedNext
<1> QED
  BY <1>2, <1>3, <1>4

LEMMA ShutStays ==
    ASSUME Inv, OwnName, [FeedNext]_vars, NEW n \in Node, NEW i \in Issuer \ {n},
           Shut(n, i), i \in blocked'[n]
    PROVE  Shut(n, i)'
<1> USE DEF Shut
<1>1. NoIssuer # i
  BY NetworkAssumption
<1>2. ear'[n].issuer # i
  BY <1>1, EarStep DEF NoFeed
<1>3. catalog'[n][i] = 0
  BY CatalogStep
<1>4. \A w \in Worker : NodeOf(w) = n /\ task'[w].issuer = i => task'[w].pc # "apply"
  BY TakenUp
<1> QED
  BY <1>2, <1>3, <1>4 DEF NodeOf

\* Once the checks of before a ban are through, nothing of the issuer comes back until
\* it is unblocked, whatever is heard, fetched or put again and over restarts.
THEOREM BansHold == FeedSpec => BannedStaysOut
<1>1. Inv /\ OwnName /\ [FeedNext]_vars =>
          [\A n \in Node : \A i \in Issuer \ {n} :
               Shut(n, i) => Shut(n, i)' \/ i \notin blocked'[n]]_vars
  BY ShutStays
<1> QED
  BY <1>1, InvHolds, OwnNameHolds, PTL DEF FeedSpec, BannedStaysOut
================================================================================
