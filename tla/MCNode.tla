-------------------------------- MODULE MCNode --------------------------------
(***************************************************************************)
(* What Node::build starts and what it keeps on disk, in four parts that   *)
(* share no state: the denylists (part "lists"), the calls, the event loop *)
(* and the background loops (part "calls"), the settings (part "settings") *)
(* and the listeners of a front (part "front").  A behavior is one of a    *)
(* part.                                                                   *)
(***************************************************************************)
EXTENDS MCDenylist, NodeLife, Settings, Listeners

CONSTANTS u1, u2, follow, keeping, nobody, p1, c1, c2, v, w

VARIABLE part

nodeVars == <<vars, lifeVars, settingsVars, frontVars, part>>

FoundOrNot == FirstLists \cup {NoLists}

\* Where the calls are not looked at, the node has stopped: nothing of it goes on.
Stopped ==
    /\ handles = {} /\ started = TRUE /\ spawned = 1 /\ calls = 0
    /\ loopAt = [l \in Background |-> "over"]
    /\ call = [a \in Actor |-> NoCall] /\ queue = <<>>
    /\ pending = [i \in Id |-> NoEntry] /\ libp2p = [i \in Id |-> NoWork]
    /\ running = FALSE

\* Nor are lists stored where the lists are not looked at.
NodeInit ==
    /\ part \in {"lists", "calls", "settings", "front"}
    /\ Init /\ (part = "lists" <=> record # [s \in Storer |-> NoLists])
    /\ IF part = "calls" THEN LifeInit ELSE Stopped
    /\ SettingsInit
    /\ FrontInit /\ (part # "front" => kind = "catalog")

NodeNext ==
    /\ UNCHANGED part
    /\ \/ part = "lists" /\ Next /\ UNCHANGED <<lifeVars, settingsVars, frontVars>>
       \/ part = "calls" /\ LifeNext /\ UNCHANGED <<vars, settingsVars, frontVars>>
       \/ part = "settings" /\ SettingsNext /\ UNCHANGED <<vars, lifeVars, frontVars>>
       \/ part = "front" /\ FrontNext /\ UNCHANGED <<vars, lifeVars, settingsVars>>

\* Fairness of Denylist, in its part.
ListsFairness ==
    /\ \A t \in Worker : WF_vars(part = "lists" /\ Step(t))
    /\ WF_vars(part = "lists" /\ FollowPass) /\ WF_vars(part = "lists" /\ FollowNext)
    /\ \A e \in Editor :
          SF_vars(part = "lists" /\ task[Loop].editor = e /\ Answer(Loop, Storer))

NodeSpec == NodeInit /\ [][NodeNext]_nodeVars /\ ListsFairness /\ LifeFairness
===============================================================================
