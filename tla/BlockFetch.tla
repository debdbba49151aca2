------------------------------ MODULE BlockFetch ------------------------------
(***************************************************************************)
(* How one segment of a session is fetched: Fetcher::get_with and what it  *)
(* calls (p2p.rs), with the cold backend as the last resort (coldstore/).  *)
(* Each segment in flight has a tokio task of its own; a step is what a    *)
(* task does between two await points.                                     *)
(*                                                                         *)
(*   start   the moderation, then the store, are asked                     *)
(*   root    the providers of the manifest are asked for the block         *)
(*   own     those who announce the block itself                           *)
(*   cold    the archive                                                   *)
(*   bytes, refused, failed     the task has ended and waits to be joined  *)
(***************************************************************************)
EXTENDS SegmentScheduler, Blockstore

CONSTANTS
    Policies,       \* the policies a session may have
    Listable,       \* segments that a denylist may come to name
    Reachable,      \* segments that a provider, or the store, always delivers
    ColdEnabled,    \* a cold backend is configured and enabled
    InitialStores,  \* what the store may hold when the session opens
    MaxFaults       \* bound on listings, removals and panics

ASSUME FetchAssumption ==
    /\ Policies \subseteq {"Seed", "Stream"} /\ ColdEnabled \in BOOLEAN
    /\ Listable \subseteq Index /\ Reachable \subseteq Index
    /\ InitialStores \subseteq [Index -> Held]
    /\ MaxFaults \in Nat

VARIABLES
    policy,         \* StorePolicy: what is fetched is put, or only handed over
    task,           \* the task of each segment
    repairing,      \* tasks that found a rotten block (repairing_corruption)
    stored,         \* the blockstore
    listed,         \* segments that a denylist in force names
    gone,           \* history: blocks that something else has removed
    barred,         \* history: segments listed before a task had passed the check
    faults

nodeVars == <<policy, listed, gone, barred, faults>>
fetchVars == <<task, repairing, stored, nodeVars>>

Running == {"start", "root", "own", "cold"}
Ended == {"bytes", "refused", "failed"}
Live == {i \in Index : task[i] # "none"}

FetchTypeOK ==
    /\ policy \in Policies
    /\ task \in [Index -> {"none"} \cup Running \cup Ended]
    /\ repairing \subseteq Index
    /\ stored \in [Index -> Held]
    /\ listed \subseteq Index /\ gone \subseteq Index /\ barred \subseteq Index
    /\ faults \in Nat

FetchInit ==
    /\ policy \in Policies
    /\ task = [i \in Index |-> "none"]
    /\ repairing = {}
    /\ stored \in InitialStores
    /\ listed = {}
    /\ gone = {} /\ barred = {}
    /\ faults = 0

-----------------------------------------------------------------------------

Goto(i, phase) == task' = [task EXCEPT ![i] = phase]

\* The checkpoint of the moderation, then what is in the store.
BeginFetch(i) ==
    /\ task[i] = "start"
    /\ Goto(i, IF i \in listed THEN "refused"
               ELSE IF Verifies(stored, i) THEN "bytes" ELSE "root")
    /\ repairing' = IF i \notin listed /\ Has(stored, i) /\ ~Verifies(stored, i)
                    THEN repairing \cup {i} ELSE repairing \ {i}
    /\ UNCHANGED <<stored, nodeVars>>

\* A block that verifies has come from the network.  It is put if the session seeds,
\* or if it replaces one that was rotten; a segment is never announced.
Receive(i) ==
    /\ stored' = IF policy = "Seed" \/ i \in repairing THEN Put(stored, i) ELSE stored
    /\ Goto(i, "bytes")
    /\ UNCHANGED <<repairing, nodeVars>>

\* first_valid_block_inner: the providers answer together, the first valid block wins.
ReceiveFromPeer(i) == task[i] \in {"root", "own"} /\ Receive(i)

RootExhausted(i) ==
    /\ task[i] = "root" /\ i \notin Reachable
    /\ Goto(i, "own")
    /\ UNCHANGED <<repairing, stored, nodeVars>>

\* NoProviders: nobody else announces the block.  Only then is the archive asked.
NoProviders(i) ==
    /\ task[i] = "own"
    /\ Goto(i, IF ColdEnabled THEN "cold" ELSE "failed")
    /\ UNCHANGED <<repairing, stored, nodeVars>>

\* BlockNotFound, a query that ends in an error, a block that cannot be written.
FetchFails(i) ==
    /\ task[i] \in {"root", "own", "cold"} /\ i \notin Reachable
    /\ Goto(i, "failed")
    /\ UNCHANGED <<repairing, stored, nodeVars>>

\* Mutant: the moderation is not asked again.
ReceiveArchived(i) ==
    /\ task[i] = "cold"
    /\ stored' = IF policy = "Seed" THEN Put(stored, i) ELSE stored
    /\ Goto(i, "bytes")
    /\ UNCHANGED <<repairing, nodeVars>>

\* cold_fallback_inner: the moderation is asked again, and what comes is verified
\* here as well; what does not verify is a failure.  A block is only put by a
\* session that seeds.
ReceiveCold(i) ==
    /\ task[i] = "cold"
    /\ IF i \in listed
       THEN Goto(i, "refused") /\ UNCHANGED stored
       ELSE /\ stored' = IF policy = "Seed" THEN Put(stored, i) ELSE stored
            /\ Goto(i, "bytes")
    /\ UNCHANGED <<repairing, nodeVars>>

TaskStep(i) ==
    \/ BeginFetch(i)
    \/ ReceiveFromPeer(i) \/ RootExhausted(i) \/ NoProviders(i) \/ FetchFails(i)
    \/ ReceiveCold(i)

-----------------------------------------------------------------------------
(* The rest of the node *)

Fault == faults < MaxFaults /\ faults' = faults + 1

\* A denylist that names the segment comes into force.
List(i) ==
    /\ Fault
    /\ i \in Listable \ listed /\ listed' = listed \cup {i}
    /\ barred' = IF status[i] # "Present" /\ task[i] \in {"none", "start", "cold"}
                 THEN barred \cup {i} ELSE barred
    /\ UNCHANGED <<policy, task, repairing, stored, gone>>

\* An eviction, a purge, or another session that closes, removes the block.
RemoveBlock(i) ==
    /\ Fault
    /\ Has(stored, i)
    /\ stored' = Erase(stored, i)
    /\ gone' = gone \cup {i}
    /\ UNCHANGED <<policy, task, repairing, listed, barred>>
===============================================================================
