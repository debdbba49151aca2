----------------------------- MODULE StreamSession -----------------------------
(***************************************************************************)
(* One streaming session, from open_stream to close_stream: its fetch loop *)
(* (stream/mod.rs), the tasks that the loop spawns, and the requests of    *)
(* the player that its local HTTP server answers (stream/server.rs).       *)
(*                                                                         *)
(* What a session leaves in the store when it is closed, and who indexes   *)
(* it, is in Viewing; here it is played.                                   *)
(***************************************************************************)
EXTENDS BlockFetch

CONSTANTS
    Reader,         \* connections of the player
    MaxAsks         \* bound on its requests

ASSUME ReaderAssumption == IsFiniteSet(Reader) /\ MaxAsks \in Nat

VARIABLES
    file,           \* segments written in the directory of the session
    loop,           \* fetch_loop: where it is, and the segment it deals with
    wake,           \* the permit of Notify that a request leaves to the loop
    reader,         \* the requests: where each is, and the segment it is for
    changed,        \* requests for which the watch channel holds a change unseen
    asks

sessionVars == <<file, loop, wake>>
readerVars == <<reader, changed, asks>>
vars == <<schedVars, fetchVars, sessionVars, readerVars>>

\* Where a request is between two awaits.  An answer ends it; only a 403 is remembered.
Pending == {"read", "look", "serve", "wait"}

SessionTypeOK ==
    /\ file \subseteq Index
    /\ loop \in [pc: {"claim", "select", "write", "notify", "over"}, seg: Index]
    /\ wake \in BOOLEAN
    /\ reader \in [Reader -> [pc: {"idle", "403"} \cup Pending, seg: Index]]
    /\ changed \subseteq Reader
    /\ asks \in Nat

Idle == [pc |-> "idle", seg |-> 0]

TypeOK == SchedTypeOK /\ FetchTypeOK /\ SessionTypeOK

\* A fetch_loop that looks for work first; no connection yet.
Init ==
    /\ SchedInit /\ FetchInit
    /\ file = {}
    /\ loop = [pc |-> "claim", seg |-> 0]
    /\ wake = FALSE
    /\ reader = [r \in Reader |-> Idle]
    /\ changed = {}
    /\ asks = 0

Open == loop.pc # "over"
LoopAt(pc) == loop.pc = pc
LoopGoto(pc) == loop' = [pc |-> pc, seg |-> 0]

-----------------------------------------------------------------------------
(* fetch_loop: it claims all it may, then waits for one of three events *)

Spawn ==
    /\ task' = [i \in Index |-> IF status'[i] = "InFlight" /\ status[i] # "InFlight"
                                THEN "start" ELSE task[i]]
    /\ UNCHANGED <<repairing, stored, nodeVars>>

Claim ==
    /\ LoopAt("claim")
    /\ TakeWanted \/ TakeAhead
    /\ Spawn
    /\ UNCHANGED <<sessionVars, readerVars>>

ClaimNothing ==
    /\ LoopAt("claim")
    /\ TakeNothing
    /\ LoopGoto("select")
    /\ UNCHANGED <<fetchVars, file, wake, readerVars>>

Joined(i) ==
    /\ Goto(i, "none")
    /\ UNCHANGED <<repairing, stored, nodeVars>>

\* Bytes are in the store already, or the loop writes them to a file first.
JoinBytes(i) ==
    /\ LoopAt("select") /\ task[i] = "bytes"
    /\ IF policy = "Seed"
       THEN Joined(i) /\ MarkPresent(i) /\ LoopGoto("notify")
       ELSE loop' = [pc |-> "write", seg |-> i] /\ UNCHANGED <<schedVars, fetchVars>>
    /\ UNCHANGED <<file, wake, readerVars>>

\* Mutant: the segment is marked whether the write went well or not.
MarkAnyway ==
    /\ LoopAt("write") /\ Joined(loop.seg) /\ MarkPresent(loop.seg)
    /\ file' \in {file, file \cup {loop.seg}}
    /\ LoopGoto("notify")
    /\ UNCHANGED <<wake, readerVars>>

WriteFile ==
    /\ LoopAt("write") /\ Joined(loop.seg) /\ MarkPresent(loop.seg)
    /\ file' = file \cup {loop.seg}
    /\ LoopGoto("notify")
    /\ UNCHANGED <<wake, readerVars>>

WriteFails ==
    /\ LoopAt("write") /\ loop.seg \notin Reachable
    /\ Joined(loop.seg) /\ MarkFailed(loop.seg)
    /\ LoopGoto("notify")
    /\ UNCHANGED <<file, wake, readerVars>>

JoinFailed(i) ==
    /\ LoopAt("select") /\ task[i] \in {"refused", "failed"}
    /\ Joined(i)
    /\ IF task[i] = "refused" THEN MarkRefused(i) ELSE MarkFailed(i)
    /\ LoopGoto("notify")
    /\ UNCHANGED <<file, wake, readerVars>>

\* Mutant: the loop does not know which segment the task was for.
ForgetPanicked(i) ==
    /\ LoopAt("select") /\ task[i] \in Running
    /\ faults < MaxFaults /\ faults' = faults + 1
    /\ Goto(i, "none")
    /\ LoopGoto("select")
    /\ UNCHANGED <<schedVars, repairing, stored, policy, listed, gone, barred, file, wake, readerVars>>

\* A task that panics is found by its identity (task_index), and its segment fails.
JoinPanicked(i) ==
    /\ LoopAt("select") /\ task[i] \in Running
    /\ Fault
    /\ Goto(i, "none") /\ MarkFailed(i)
    /\ LoopGoto("notify")
    /\ UNCHANGED <<repairing, stored, policy, listed, gone, barred, file, wake, readerVars>>

\* Mutant: the readers are not told.
NotifyNobody ==
    /\ LoopAt("notify")
    /\ LoopGoto("claim")
    /\ UNCHANGED <<schedVars, fetchVars, file, wake, readerVars>>

\* notify_changed, to every request that has subscribed.
Notify ==
    /\ LoopAt("notify")
    /\ changed' = {r \in Reader : reader[r].pc \in Pending}
    /\ LoopGoto("claim")
    /\ UNCHANGED <<schedVars, fetchVars, file, wake, reader, asks>>

Woken ==
    /\ LoopAt("select") /\ wake
    /\ wake' = FALSE
    /\ LoopGoto("claim")
    /\ UNCHANGED <<schedVars, fetchVars, file, readerVars>>

\* Mutant: the loop only waits for tasks and requests.
NoTimer == FALSE /\ UNCHANGED vars

\* RETRY_DELAY went by with no task to join and no request.
RetryTimer ==
    /\ LoopAt("select") /\ ~wake /\ \A i \in Index : task[i] \notin Ended
    /\ LoopGoto("claim")
    /\ UNCHANGED <<schedVars, fetchVars, file, wake, readerVars>>

LoopStep ==
    \/ Claim \/ ClaimNothing
    \/ \E i \in Index : JoinBytes(i) \/ JoinFailed(i)
    \/ WriteFile \/ WriteFails
    \/ Notify \/ Woken \/ RetryTimer

-----------------------------------------------------------------------------
(* A request for a segment: handle and SessionState::segment *)

\* local_bytes: a block in the store hides the file, even one that does not verify.
Readable(i) == IF Has(stored, i) THEN Verifies(stored, i) ELSE i \in file

ReaderAt(r, pc) == reader[r].pc = pc
ReaderGoto(r, pc) == reader' = [reader EXCEPT ![r].pc = pc]

\* 200, 500 or 503: the player may ask for it again.
Answered(r) == reader' = [reader EXCEPT ![r] = Idle]

Free == {r \in Reader : reader[r].pc \notin Pending}

\* The subscription to changes and the request to the scheduler, in this order.  The
\* connections are alike: a request takes one that is free.
Ask(i) ==
    /\ Open /\ asks < MaxAsks /\ asks' = asks + 1
    /\ Free # {}
    /\ LET r == CHOOSE r \in Free : TRUE
       IN  /\ reader' = [reader EXCEPT ![r] = [pc |-> "read", seg |-> i]]
           /\ changed' = changed \ {r}
    /\ Request(i)
    /\ UNCHANGED <<fetchVars, sessionVars>>

ReadLocal(r) ==
    /\ ReaderAt(r, "read")
    /\ IF Readable(reader[r].seg)
       THEN Answered(r) /\ UNCHANGED wake
       ELSE ReaderGoto(r, "look") /\ wake' = TRUE
    /\ UNCHANGED <<schedVars, fetchVars, file, loop, changed, asks>>

\* Mutant: a frozen session turns away every segment that is not there.
LookOnce(r) ==
    /\ ReaderAt(r, "look")
    /\ ReaderGoto(r, IF status[reader[r].seg] = "Present" THEN "serve"
                     ELSE IF frozen THEN "403" ELSE "wait")
    /\ UNCHANGED <<schedVars, fetchVars, sessionVars, changed, asks>>

\* Under the lock: what became of the segment.  One that is in flight may still
\* arrive after the session is frozen; one that is not never will.
Look(r) ==
    /\ ReaderAt(r, "look")
    /\ LET s == status[reader[r].seg]
       IN  ReaderGoto(r, CASE s = "Present"  -> "serve"
                           [] s = "Refused"  -> "403"
                           [] s = "InFlight" -> "wait"
                           [] OTHER          -> IF frozen THEN "403" ELSE "wait")
    /\ UNCHANGED <<schedVars, fetchVars, sessionVars, changed, asks>>

\* 200, or 500 if it cannot be read.
Serve(r) ==
    /\ ReaderAt(r, "serve")
    /\ Answered(r)
    /\ UNCHANGED <<schedVars, fetchVars, sessionVars, changed, asks>>

SeeChange(r) ==
    /\ ReaderAt(r, "wait") /\ r \in changed
    /\ ReaderGoto(r, "look")
    /\ changed' = changed \ {r}
    /\ UNCHANGED <<schedVars, fetchVars, sessionVars, asks>>

\* STREAM_REQUEST_TIMEOUT
Timeout(r) ==
    /\ reader[r].pc \in {"read", "serve", "wait"}
    /\ Answered(r)
    /\ UNCHANGED <<schedVars, fetchVars, sessionVars, changed, asks>>

ReaderStep(r) == ReadLocal(r) \/ Look(r) \/ Serve(r) \/ SeeChange(r)

-----------------------------------------------------------------------------

\* close_stream: the loop and its tasks are aborted, the connections cut, the
\* directory removed; nothing of the session is left to be asked.
Close ==
    /\ Open
    /\ LoopGoto("over")
    /\ status' = [i \in Index |-> "Absent"]
    /\ head' = 0 /\ wanted' = <<>> /\ frozen' = TRUE
    /\ task' = [i \in Index |-> "none"] /\ repairing' = {}
    /\ file' = {} /\ wake' = FALSE
    /\ reader' = [r \in Reader |-> IF reader[r].pc \in Pending
                                   THEN Idle ELSE reader[r]]
    /\ changed' = {}
    /\ UNCHANGED <<stored, nodeVars, asks>>

Environment ==
    \/ /\ Open
       /\ \E i \in Index : List(i) \/ RemoveBlock(i)
       /\ UNCHANGED <<schedVars, sessionVars, readerVars>>
    \/ \E i \in Index : JoinPanicked(i)
    \/ Close

TaskSteps == \E i \in Index : TaskStep(i) /\ UNCHANGED <<schedVars, sessionVars, readerVars>>
Cooling == \E i \in Index : CoolDown(i) /\ UNCHANGED <<fetchVars, sessionVars, readerVars>>

Next ==
    \/ LoopStep
    \/ TaskSteps
    \/ Cooling
    \/ \E r \in Reader : ReaderStep(r) \/ Timeout(r)
    \/ \E i \in Index : Ask(i)
    \/ Environment

Spec == Init /\ [][Next]_vars

\* The runtime polls what is ready, a query ends, and time passes.  The player need not
\* ask, and a request need not time out.
Fairness ==
    /\ WF_vars(LoopStep)
    /\ \A i \in Index :
          /\ WF_vars(TaskStep(i) /\ UNCHANGED <<schedVars, sessionVars, readerVars>>)
          /\ WF_vars(CoolDown(i) /\ UNCHANGED <<fetchVars, sessionVars, readerVars>>)
    /\ \A r \in Reader : WF_vars(ReaderStep(r))

FairSpec == Spec /\ Fairness

-----------------------------------------------------------------------------
(* Safety *)

\* A segment is in flight for the scheduler exactly as long as it has a task that the
\* loop will join, whether that ends in bytes, a refusal, a failure or a panic: no
\* slot of MAX_INFLIGHT is lost, and no segment is left InFlight for ever.
SlotsAreTasks == InFlight = Live

\* A request that sleeps on the watch channel with nothing new to see has something to
\* wait for: the loop is about to tell it, or its segment may still come.
NobodyWaitsInVain ==
    \A r \in Reader : ReaderAt(r, "wait") /\ r \notin changed =>
        \/ LoopAt("notify")
        \/ status[reader[r].seg] = "InFlight"
        \/ status[reader[r].seg] \in {"Absent", "Cooling", "Failed"} /\ ~frozen

\* A 403 is final: the segment it was for is not, and will not be, there.
ForbiddenIsFinal ==
    \A r \in Reader : ReaderAt(r, "403") => frozen /\ reader[r].seg \notin Live /\
                                            status[reader[r].seg] # "Present"

\* What is marked present can be read, so that the player gets no 500 for it, unless
\* its block was removed under the session, or the archive delivered what the store
\* holds rotten: cold_fallback_inner does not repair a block, and a rotten block
\* hides the file of the session.
PresentIsReadable ==
    \A i \in Index : status[i] = "Present" =>
        Readable(i) \/ i \in gone \/ stored[i] = "rotten"

\* A segment that a denylist names before it was fetched, or before the archive was
\* asked for it, never becomes part of the session (CHECKPOINT MODERATION #2).
ListedNeverArrives == \A i \in barred : status[i] # "Present"

-----------------------------------------------------------------------------
(* Behaviour over several steps *)

\* The promise of Delivery, where a download is a task and not a mark of the scheduler.
Downloads == INSTANCE Delivery WITH
    Segment <- Index,
    busy    <- Live,
    got     <- {i \in Index : status[i] = "Present"},
    stopped <- frozen

ImplementsDelivery == Downloads!Spec

\* The segment at the playhead does not stay away for ever if somebody serves it: its
\* failures are tried again after RETRY_DELAY, with no request to wake the loop, and
\* what is fetched ahead gives its slot back.
PlayheadArrives ==
    \A i \in Reachable :
        []<>(head # i \/ status[i] = "Present" \/ frozen \/ ~Open)

\* What a request put on the list of the wanted segments is fetched, however full the
\* pool of MAX_INFLIGHT is.
DemandIsTaken == \A i \in Index : []<>(~Contains(wanted, i) \/ frozen \/ ~Open)
===============================================================================
