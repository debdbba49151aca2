------------------------------ MODULE StreamProofs ------------------------------
(***************************************************************************)
(* Theorems about StreamSession, for any manifest, window, number of slots *)
(* and readers, and any contents of the store.                             *)
(***************************************************************************)
EXTENDS RangeHeader, DataLemmas

-----------------------------------------------------------------------------
(* What every step preserves *)

\* The types that the rest depends on: wanted and the playhead are left out.
StateTypes ==
    /\ status \in [Index -> Status] /\ frozen \in BOOLEAN
    /\ FetchTypeOK
    /\ file \subseteq Index /\ changed \subseteq Reader
    /\ loop \in [pc: {"claim", "select", "write", "notify", "over"}, seg: Index]
    /\ reader \in [Reader -> [pc: {"idle", "403"} \cup Pending, seg: Index]]

\* A file is written of a segment whose task has its bytes.
WriteHasBytes == LoopAt("write") => task[loop.seg] = "bytes" /\ policy = "Stream"

\* A refusal freezes the session.
RefusedFreezes == \A i \in Index : status[i] = "Refused" => frozen

\* What a session that seeds has fetched, it has put.
SeededIsStored ==
    \A i \in Index : policy = "Seed" /\ task[i] = "bytes" => stored[i] = "good" \/ i \in gone

\* A segment that is barred is listed, and its task will find it so.
BarredIsSeen ==
    \A i \in barred : i \in listed /\ task[i] \in {"none", "start", "cold", "refused", "failed"}

Inv ==
    /\ StateTypes
    /\ SlotsAreTasks
    /\ WriteHasBytes /\ RefusedFreezes /\ SeededIsStored /\ BarredIsSeen
    /\ PresentIsReadable /\ ListedNeverArrives

USE DEF Open, LoopAt, LoopGoto, ReaderAt, ReaderGoto

-----------------------------------------------------------------------------
(* The beginning *)

LEMMA IndexHasFirst == 0 \in Index
  BY TotalAssumption DEF Index

LEMMA InvInit == Init => Inv
<1> SUFFICES ASSUME Init PROVE Inv
  OBVIOUS
<1> USE IndexHasFirst, FetchAssumption DEF Init, SchedInit, FetchInit
<1>1. StateTypes
  BY DEF StateTypes, FetchTypeOK, Status, Idle, Held
<1>2. SlotsAreTasks
  BY DEF SlotsAreTasks, InFlight, Live
<1>3. WriteHasBytes /\ RefusedFreezes /\ SeededIsStored /\ BarredIsSeen
  BY DEF WriteHasBytes, RefusedFreezes, SeededIsStored, BarredIsSeen
<1>4. PresentIsReadable /\ ListedNeverArrives
  BY DEF PresentIsReadable, ListedNeverArrives
<1> QED
  BY <1>1, <1>2, <1>3, <1>4 DEF Inv

-----------------------------------------------------------------------------
(* The loop *)

\* A claim takes up a segment that nobody fetches; what is no segment changes nothing.
LEMMA ClaimStep ==
    ASSUME Inv, Claim
    PROVE  /\ UNCHANGED <<frozen, repairing, stored, nodeVars, sessionVars, readerVars>>
           /\ ~ frozen /\ LoopAt("claim")
           /\ \/ UNCHANGED <<status, task>>
              \/ \E i \in Index : /\ status[i] \in {"Absent", "Failed"}
                                  /\ status' = [status EXCEPT ![i] = "InFlight"]
                                  /\ task' = [task EXCEPT ![i] = "start"]
<1>1. PICK x : Eligible(x) /\ status' = [status EXCEPT ![x] = "InFlight"]
  <2>1. CASE TakeWanted
    <3>1. PICK p \in Least(EligibleWanted) : Take(wanted[p])
      BY <2>1 DEF TakeWanted
    <3> QED
      BY <3>1 DEF Least, EligibleWanted, Take
  <2>2. CASE TakeAhead
    <3>1. PICK i \in Least(Ahead) : Take(i)
      BY <2>2 DEF TakeAhead
    <3> QED
      BY <3>1 DEF Least, Ahead, Take
  <2> QED
    BY <2>1, <2>2 DEF Claim
<1>2. /\ status \in [Index -> Status] /\ task \in [Index -> {"none"} \cup Running \cup Ended]
  BY DEF Inv, StateTypes, FetchTypeOK
<1>3. /\ UNCHANGED <<frozen, repairing, stored, nodeVars, sessionVars, readerVars>>
      /\ ~ frozen /\ LoopAt("claim")
  BY DEF Claim, TakeWanted, TakeAhead, Spawn
<1>4. task' = [i \in Index |-> IF status'[i] = "InFlight" /\ status[i] # "InFlight"
                               THEN "start" ELSE task[i]]
  BY DEF Claim, Spawn
<1>5. CASE x \in Index
  <2>1. status[x] \in {"Absent", "Failed"}
    BY <1>1 DEF Eligible
  <2>2. \A i \in Index : status'[i] = IF i = x THEN "InFlight" ELSE status[i]
    BY <1>1, <1>2
  <2>3. task' = [task EXCEPT ![x] = "start"]
    BY <1>2, <1>4, <2>1, <2>2
  <2> QED
    BY <1>1, <1>3, <1>5, <2>1, <2>3
<1>6. CASE x \notin Index
  <2>1. status' = status
    BY <1>1, <1>2, <1>6
  <2>2. task' = task
    BY <1>2, <1>4, <2>1
  <2> QED
    BY <1>3, <2>1, <2>2
<1> QED
  BY <1>5, <1>6

LEMMA ClaimKeeps == ASSUME Inv, Claim PROVE Inv'
<1> USE DEF nodeVars, sessionVars, readerVars
<1>0. UNCHANGED <<frozen, repairing, stored, policy, listed, gone, barred, file, loop, reader, changed, faults>>
  BY ClaimStep
<1>1. CASE UNCHANGED <<status, task>>
  <2>1. StateTypes'
    BY <1>0, <1>1 DEF Inv, StateTypes, FetchTypeOK
  <2>2. SlotsAreTasks' /\ WriteHasBytes' /\ RefusedFreezes' /\ SeededIsStored' /\ BarredIsSeen'
    BY <1>0, <1>1 DEF Inv, SlotsAreTasks, InFlight, Live, WriteHasBytes, RefusedFreezes,
                      SeededIsStored, BarredIsSeen
  <2>3. PresentIsReadable' /\ ListedNeverArrives'
    BY <1>0, <1>1 DEF Inv, PresentIsReadable, Readable, ListedNeverArrives
  <2> QED
    BY <2>1, <2>2, <2>3 DEF Inv
<1>2. ASSUME NEW i \in Index, status[i] \in {"Absent", "Failed"},
             status' = [status EXCEPT ![i] = "InFlight"], task' = [task EXCEPT ![i] = "start"]
      PROVE  Inv'
  <2>1. StateTypes'
    BY <1>0, <1>2 DEF Inv, StateTypes, FetchTypeOK, Status, Running
  <2>2. /\ status \in [Index -> Status] /\ task \in [Index -> {"none"} \cup Running \cup Ended]
        /\ barred \subseteq Index
    BY DEF Inv, StateTypes, FetchTypeOK
  <2>3. \A j \in Index : /\ status'[j] = IF j = i THEN "InFlight" ELSE status[j]
                         /\ task'[j] = IF j = i THEN "start" ELSE task[j]
    BY <1>2, <2>2
  <2>4. SlotsAreTasks'
    BY <2>3 DEF Inv, SlotsAreTasks, InFlight, Live
  <2>5. WriteHasBytes'
    BY <1>0, ClaimStep DEF WriteHasBytes
  <2>6. RefusedFreezes' /\ SeededIsStored'
    BY <1>0, <2>3 DEF Inv, RefusedFreezes, SeededIsStored
  <2>7. BarredIsSeen' /\ ListedNeverArrives'
    BY <1>0, <2>2, <2>3 DEF Inv, BarredIsSeen, ListedNeverArrives
  <2>8. PresentIsReadable'
    BY <1>0, <2>3 DEF Inv, PresentIsReadable, Readable
  <2> QED
    BY <2>1, <2>4, <2>5, <2>6, <2>7, <2>8 DEF Inv
<1> QED
  BY <1>1, <1>2, ClaimStep

\* A task is joined and its segment marked s.
LEMMA MarkKeeps ==
    ASSUME Inv, NEW i \in Index, i \in Live, NEW s \in {"Present", "Refused", "Cooling"},
           status' = [status EXCEPT ![i] = s], task' = [task EXCEPT ![i] = "none"],
           frozen' = (frozen \/ s = "Refused"),
           s = "Present" => task[i] = "bytes",
           UNCHANGED <<repairing, stored, policy, listed, gone, barred, reader, changed>>,
           faults' \in Nat, file' \in SUBSET Index, file \subseteq file',
           s = "Present" /\ policy = "Stream" => i \in file',
           loop' = [pc |-> "notify", seg |-> 0]
    PROVE  Inv'
<1>1. StateTypes'
  BY IndexHasFirst DEF Inv, StateTypes, FetchTypeOK, Status
<1>2. /\ status \in [Index -> Status] /\ task \in [Index -> {"none"} \cup Running \cup Ended]
      /\ barred \subseteq Index /\ policy \in {"Seed", "Stream"} /\ stored \in [Index -> Held]
  BY FetchAssumption DEF Inv, StateTypes, FetchTypeOK
<1>3. \A j \in Index : /\ status'[j] = IF j = i THEN s ELSE status[j]
                       /\ task'[j] = IF j = i THEN "none" ELSE task[j]
  BY <1>2
<1>4. SlotsAreTasks'
  BY <1>3 DEF Inv, SlotsAreTasks, InFlight, Live
<1>5. WriteHasBytes'
  BY DEF WriteHasBytes
<1>6. RefusedFreezes' /\ SeededIsStored'
  <2>1. \A j \in Index : status[j] = "Refused" => frozen
    BY DEF Inv, RefusedFreezes
  <2>2. \A j \in Index : status'[j] = "Refused" => frozen'
    BY <1>3, <2>1
  <2>3. SeededIsStored'
    BY <1>3 DEF Inv, SeededIsStored
  <2> QED
    BY <2>2, <2>3 DEF RefusedFreezes
<1>7. BarredIsSeen' /\ ListedNeverArrives'
  BY <1>2, <1>3 DEF Inv, BarredIsSeen, ListedNeverArrives
<1>8. PresentIsReadable'
  <2>1. \A j \in Index : Readable(j) => Readable(j)'
    BY DEF Readable
  <2>2. s = "Present" => Readable(i)' \/ i \in gone \/ stored[i] = "rotten"
    <3>1. CASE policy = "Seed"
      BY <1>2, <3>1 DEF Inv, SeededIsStored, Readable, Has, Verifies
    <3>2. CASE policy = "Stream"
      BY <1>2, <3>2 DEF Readable, Has, Verifies, Held
    <3> QED
      BY <1>2, <3>1, <3>2
  <2> QED
    BY <1>3, <2>1, <2>2 DEF Inv, PresentIsReadable
<1> QED
  BY <1>1, <1>4, <1>5, <1>6, <1>7, <1>8 DEF Inv

\* The other steps of the loop move it, or leave it as it is.
LEMMA LoopMoves ==
    ASSUME Inv,
           UNCHANGED <<status, frozen, task, repairing, stored, policy, listed, gone, barred, faults, file, reader>>,
           changed' \in SUBSET Reader, loop'.seg \in Index,
           loop' = [pc |-> loop'.pc, seg |-> loop'.seg],
           loop'.pc \in {"claim", "select", "notify", "write"},
           loop'.pc = "write" => task[loop'.seg] = "bytes" /\ policy = "Stream"
    PROVE  Inv'
<1>1. StateTypes'
  BY DEF Inv, StateTypes, FetchTypeOK
<1>2. SlotsAreTasks' /\ WriteHasBytes' /\ RefusedFreezes' /\ SeededIsStored' /\ BarredIsSeen'
  BY DEF Inv, SlotsAreTasks, InFlight, Live, WriteHasBytes, RefusedFreezes,
         SeededIsStored, BarredIsSeen
<1>3. PresentIsReadable' /\ ListedNeverArrives'
  BY DEF Inv, PresentIsReadable, Readable, ListedNeverArrives
<1> QED
  BY <1>1, <1>2, <1>3 DEF Inv

\* Every join is of a task that has ended, and marks its segment.
LEMMA JoinKeeps ==
    ASSUME Inv, NEW i \in Index, JoinBytes(i) \/ JoinFailed(i) \/ JoinPanicked(i)
    PROVE  Inv'
<1> USE DEF nodeVars, readerVars, sessionVars
<1>1. /\ policy \in {"Seed", "Stream"} /\ faults \in Nat /\ file \in SUBSET Index
      /\ changed \in SUBSET Reader /\ frozen \in BOOLEAN
  BY FetchAssumption DEF Inv, StateTypes, FetchTypeOK
<1>2. CASE JoinBytes(i) /\ policy = "Seed"
  <2>1. i \in Live /\ task[i] = "bytes"
    BY <1>2 DEF JoinBytes, Live
  <2>2. /\ status' = [status EXCEPT ![i] = "Present"] /\ task' = [task EXCEPT ![i] = "none"]
        /\ frozen' = frozen /\ loop' = [pc |-> "notify", seg |-> 0]
        /\ UNCHANGED <<repairing, stored, policy, listed, gone, barred, faults, reader, changed, file>>
    BY <1>2 DEF JoinBytes, Joined, Goto, MarkPresent
  <2> QED
    BY <1>1, <1>2, <2>1, <2>2, MarkKeeps
<1>3. CASE JoinBytes(i) /\ policy # "Seed"
  <2>1. /\ loop' = [pc |-> "write", seg |-> i] /\ task[i] = "bytes" /\ policy = "Stream"
        /\ UNCHANGED <<status, frozen, task, repairing, stored, policy, listed, gone, barred, faults, file,
                       reader, changed>>
    BY <1>1, <1>3 DEF JoinBytes, schedVars, fetchVars
  <2> QED
    BY <1>1, <2>1, LoopMoves
<1>4. CASE JoinFailed(i)
  <2>1. i \in Live
    BY <1>4 DEF JoinFailed, Live
  <2>2. PICK s \in {"Refused", "Cooling"} :
            /\ status' = [status EXCEPT ![i] = s] /\ frozen' = (frozen \/ s = "Refused")
    BY <1>1, <1>4 DEF JoinFailed, MarkRefused, MarkFailed
  <2>3. /\ task' = [task EXCEPT ![i] = "none"] /\ loop' = [pc |-> "notify", seg |-> 0]
        /\ UNCHANGED <<repairing, stored, policy, listed, gone, barred, faults, reader, changed, file>>
    BY <1>4 DEF JoinFailed, Joined, Goto
  <2> QED
    BY <1>1, <2>1, <2>2, <2>3, MarkKeeps
<1>5. CASE JoinPanicked(i)
  <2>1. i \in Live
    BY <1>5 DEF JoinPanicked, Live, Running
  <2>2. /\ status' = [status EXCEPT ![i] = "Cooling"] /\ task' = [task EXCEPT ![i] = "none"]
        /\ frozen' = frozen /\ loop' = [pc |-> "notify", seg |-> 0] /\ faults' \in Nat
        /\ UNCHANGED <<repairing, stored, policy, listed, gone, barred, reader, changed, file>>
    BY <1>1, <1>5 DEF JoinPanicked, Fault, Goto, MarkFailed
  <2> QED
    BY <1>1, <2>1, <2>2, MarkKeeps
<1> QED
  BY <1>2, <1>3, <1>4, <1>5

LEMMA WriteKeeps == ASSUME Inv, WriteFile \/ WriteFails PROVE Inv'
<1> USE DEF nodeVars, readerVars
<1>1. /\ loop.seg \in Index /\ faults \in Nat /\ file \in SUBSET Index
      /\ task[loop.seg] = "bytes" /\ frozen \in BOOLEAN
  BY DEF Inv, StateTypes, FetchTypeOK, WriteHasBytes, WriteFile, WriteFails
<1>2. loop.seg \in Live
  BY <1>1 DEF Live
<1>3. /\ task' = [task EXCEPT ![loop.seg] = "none"] /\ loop' = [pc |-> "notify", seg |-> 0]
      /\ UNCHANGED <<repairing, stored, policy, listed, gone, barred, faults, reader, changed>>
  BY DEF WriteFile, WriteFails, Joined, Goto
<1>4. CASE WriteFile
  BY <1>1, <1>2, <1>3, <1>4, MarkKeeps DEF WriteFile, MarkPresent
<1>5. CASE WriteFails
  BY <1>1, <1>2, <1>3, <1>5, MarkKeeps DEF WriteFails, MarkFailed
<1> QED
  BY <1>4, <1>5

LEMMA LoopKeeps == ASSUME Inv, LoopStep PROVE Inv'
<1> USE DEF schedVars, fetchVars, nodeVars, readerVars, sessionVars
<1>1. CASE ClaimNothing \/ Notify \/ Woken \/ RetryTimer
  <2>1. PICK pc \in {"claim", "select"} : loop' = [pc |-> pc, seg |-> 0]
    BY <1>1 DEF ClaimNothing, Notify, Woken, RetryTimer
  <2>2. UNCHANGED <<status, frozen, task, repairing, stored, policy, listed, gone, barred, faults, file, reader>>
    BY <1>1 DEF ClaimNothing, Notify, Woken, RetryTimer, TakeNothing
  <2>3. changed' \in SUBSET Reader
    BY <1>1 DEF ClaimNothing, Notify, Woken, RetryTimer, Inv, StateTypes
  <2> QED
    BY <2>1, <2>2, <2>3, IndexHasFirst, LoopMoves
<1> QED
  BY <1>1, ClaimKeeps, JoinKeeps, WriteKeeps DEF LoopStep

-----------------------------------------------------------------------------
(* The tasks *)

\* A task that goes on holds its slot; what it may change of the store is its own block.
LEMMA TaskGoes ==
    ASSUME Inv, NEW i \in Index, TaskStep(i)
    PROVE  /\ UNCHANGED nodeVars
           /\ repairing' \subseteq Index
           /\ stored' \in {stored, [stored EXCEPT ![i] = "good"]}
           /\ task[i] \in Running
           /\ \E pc \in (Running \cup Ended) \ {"start"} :
                 /\ task' = [task EXCEPT ![i] = pc]
                 /\ pc = "bytes" /\ policy = "Seed" => stored'[i] = "good"
                 /\ task[i] = "start" /\ i \in listed => pc = "refused"
                 /\ task[i] = "cold" /\ i \in listed => pc \in {"refused", "failed"}
<1> USE DEF Running, Ended, Goto
<1>1. /\ stored \in [Index -> Held] /\ repairing \subseteq Index
      /\ task \in [Index -> {"none"} \cup Running \cup Ended]
  BY DEF Inv, StateTypes, FetchTypeOK
<1>2. CASE BeginFetch(i)
  <2>1. /\ task[i] = "start" /\ repairing' \subseteq Index
        /\ UNCHANGED <<stored, nodeVars>>
    BY <1>1, <1>2 DEF BeginFetch
  <2>2. CASE i \in listed
    BY <1>2, <2>1, <2>2 DEF BeginFetch
  <2>3. CASE i \notin listed /\ Verifies(stored, i)
    BY <1>2, <2>1, <2>3 DEF BeginFetch, Verifies
  <2>4. CASE i \notin listed /\ ~ Verifies(stored, i)
    BY <1>2, <2>1, <2>4 DEF BeginFetch
  <2> QED
    BY <2>2, <2>3, <2>4
<1>3. CASE ReceiveFromPeer(i)
  BY <1>1, <1>3 DEF ReceiveFromPeer, Receive, Put, nodeVars
<1>4. CASE RootExhausted(i) \/ NoProviders(i) \/ FetchFails(i)
  BY <1>1, <1>4 DEF RootExhausted, NoProviders, FetchFails, nodeVars
<1>5. CASE ReceiveCold(i)
  BY <1>1, <1>5 DEF ReceiveCold, Put, nodeVars
<1> QED
  BY <1>2, <1>3, <1>4, <1>5 DEF TaskStep

LEMMA TaskKeeps ==
    ASSUME Inv, NEW i \in Index, TaskStep(i), UNCHANGED <<schedVars, sessionVars, readerVars>>
    PROVE  Inv'
<1> USE DEF nodeVars, schedVars, sessionVars, readerVars
<1>1. PICK pc \in (Running \cup Ended) \ {"start"} :
          /\ task' = [task EXCEPT ![i] = pc]
          /\ pc = "bytes" /\ policy = "Seed" => stored'[i] = "good"
          /\ task[i] = "start" /\ i \in listed => pc = "refused"
          /\ task[i] = "cold" /\ i \in listed => pc \in {"refused", "failed"}
  BY TaskGoes
<1>2. /\ UNCHANGED <<policy, listed, gone, barred, faults, status, frozen, file, loop, reader, changed>>
      /\ repairing' \subseteq Index /\ task[i] \in Running
      /\ stored' \in {stored, [stored EXCEPT ![i] = "good"]}
  BY TaskGoes
<1>3. /\ task \in [Index -> {"none"} \cup Running \cup Ended] /\ stored \in [Index -> Held]
      /\ barred \subseteq Index
  BY DEF Inv, StateTypes, FetchTypeOK
<1>4. \A j \in Index : /\ task'[j] = IF j = i THEN pc ELSE task[j]
                       /\ stored'[j] = stored[j] \/ stored'[j] = "good"
                       /\ j # i => stored'[j] = stored[j]
  BY <1>1, <1>2, <1>3
<1>5. StateTypes'
  <2>1. stored' \in [Index -> Held]
    BY <1>2, <1>3 DEF Held
  <2> QED
    BY <1>1, <1>2, <2>1 DEF Inv, StateTypes, FetchTypeOK
<1>6. SlotsAreTasks'
  BY <1>2, <1>4 DEF Inv, SlotsAreTasks, InFlight, Live, Running, Ended
<1>7. WriteHasBytes' /\ RefusedFreezes'
  BY <1>2, <1>4 DEF Inv, StateTypes, WriteHasBytes, RefusedFreezes, Running
<1>8. SeededIsStored'
  BY <1>1, <1>2, <1>4 DEF Inv, SeededIsStored
<1>9. BarredIsSeen'
  BY <1>1, <1>2, <1>3, <1>4 DEF Inv, BarredIsSeen, Running
<1>10. PresentIsReadable' /\ ListedNeverArrives'
  BY <1>2, <1>4 DEF Inv, PresentIsReadable, Readable, Has, Verifies, ListedNeverArrives
<1> QED
  BY <1>5, <1>6, <1>7, <1>8, <1>9, <1>10 DEF Inv

LEMMA CoolKeeps ==
    ASSUME Inv, NEW i \in Index, CoolDown(i), UNCHANGED <<fetchVars, sessionVars, readerVars>>
    PROVE  Inv'
<1> USE DEF fetchVars, nodeVars, sessionVars, readerVars
<1>1. /\ status[i] = "Cooling" /\ status' = [status EXCEPT ![i] = "Failed"]
      /\ UNCHANGED <<frozen, task, repairing, stored, policy, listed, gone, barred, faults, file,
                     loop, reader, changed>>
  BY DEF CoolDown
<1>2. status \in [Index -> Status] /\ barred \subseteq Index
  BY DEF Inv, StateTypes, FetchTypeOK
<1>3. \A j \in Index : status'[j] = IF j = i THEN "Failed" ELSE status[j]
  BY <1>1, <1>2
<1>4. StateTypes'
  BY <1>1 DEF Inv, StateTypes, FetchTypeOK, Status
<1>5. SlotsAreTasks'
  BY <1>1, <1>3 DEF Inv, SlotsAreTasks, InFlight, Live
<1>6. WriteHasBytes' /\ SeededIsStored' /\ BarredIsSeen'
  BY <1>1 DEF Inv, WriteHasBytes, SeededIsStored, BarredIsSeen
<1>7. RefusedFreezes' /\ ListedNeverArrives' /\ PresentIsReadable'
  BY <1>1, <1>2, <1>3 DEF Inv, RefusedFreezes, ListedNeverArrives, PresentIsReadable, Readable
<1> QED
  BY <1>4, <1>5, <1>6, <1>7 DEF Inv

-----------------------------------------------------------------------------
(* The readers and the rest of the node *)

\* What a reader does moves readers only.
LEMMA ReadersMove ==
    ASSUME Inv,
           UNCHANGED <<status, frozen, task, repairing, stored, policy, listed, gone, barred, faults, file, loop>>,
           changed' \in SUBSET Reader,
           reader' \in [Reader -> [pc: {"idle", "403"} \cup Pending, seg: Index]]
    PROVE  Inv'
<1>1. StateTypes'
  BY DEF Inv, StateTypes, FetchTypeOK
<1>2. SlotsAreTasks' /\ WriteHasBytes' /\ RefusedFreezes' /\ SeededIsStored' /\ BarredIsSeen'
  BY DEF Inv, SlotsAreTasks, InFlight, Live, WriteHasBytes, RefusedFreezes,
         SeededIsStored, BarredIsSeen
<1>3. PresentIsReadable' /\ ListedNeverArrives'
  BY DEF Inv, PresentIsReadable, Readable, ListedNeverArrives
<1> QED
  BY <1>1, <1>2, <1>3 DEF Inv

LEMMA ReaderKeeps ==
    ASSUME Inv, \/ \E r \in Reader : ReaderStep(r) \/ Timeout(r)
                \/ \E i \in Index : Ask(i)
    PROVE  Inv'
<1> USE DEF fetchVars, schedVars, nodeVars, sessionVars
<1>1. /\ reader \in [Reader -> [pc: {"idle", "403"} \cup Pending, seg: Index]]
      /\ changed \in SUBSET Reader /\ Idle \in [pc: {"idle", "403"} \cup Pending, seg: Index]
  BY IndexHasFirst DEF Inv, StateTypes, Idle
<1>2. ASSUME NEW r \in Reader, ReaderStep(r) \/ Timeout(r) PROVE Inv'
  <2>1. UNCHANGED <<status, frozen, task, repairing, stored, policy, listed, gone, barred, faults, file, loop>>
    BY <1>2 DEF ReaderStep, ReadLocal, Look, Serve, SeeChange, Timeout
  <2>2. changed' \in SUBSET Reader
    BY <1>1, <1>2 DEF ReaderStep, ReadLocal, Look, Serve, SeeChange, Timeout
  <2>3. \/ reader' = [reader EXCEPT ![r] = Idle]
        \/ \E pc \in {"403"} \cup Pending : reader' = [reader EXCEPT ![r].pc = pc]
    BY <1>2 DEF ReaderStep, ReadLocal, Look, Serve, SeeChange, Timeout, Answered, Pending
  <2>4. reader' \in [Reader -> [pc: {"idle", "403"} \cup Pending, seg: Index]]
    BY <1>1, <2>3
  <2> QED
    BY <2>1, <2>2, <2>4, ReadersMove
<1>3. ASSUME NEW i \in Index, Ask(i) PROVE Inv'
  <2>1. PICK r \in Reader : /\ reader' = [reader EXCEPT ![r] = [pc |-> "read", seg |-> i]]
                            /\ changed' = changed \ {r}
    <3>1. Free # {} /\ Free \subseteq Reader
      BY <1>3 DEF Ask, Free
    <3> QED
      BY <1>3, <3>1 DEF Ask
  <2>2. reader' \in [Reader -> [pc: {"idle", "403"} \cup Pending, seg: Index]]
    BY <1>1, <2>1 DEF Pending
  <2> QED
    BY <1>1, <1>3, <2>1, <2>2, ReadersMove DEF Ask, Request
<1> QED
  BY <1>2, <1>3

LEMMA ListKeeps ==
    ASSUME Inv, NEW i \in Index, List(i), UNCHANGED <<schedVars, sessionVars, readerVars>>
    PROVE  Inv'
<1> USE DEF schedVars, sessionVars, readerVars
<1>1. /\ listed' = listed \cup {i} /\ faults' = faults + 1
      /\ UNCHANGED <<status, frozen, task, repairing, stored, policy, gone, file, loop, reader, changed>>
  BY DEF List, Fault
<1>2. \/ barred' = barred
      \/ barred' = barred \cup {i} /\ status[i] # "Present" /\ task[i] \in {"none", "start", "cold"}
  BY DEF List
<1>3. StateTypes'
  BY <1>1, <1>2 DEF Inv, StateTypes, FetchTypeOK
<1>4. SlotsAreTasks' /\ WriteHasBytes' /\ RefusedFreezes' /\ SeededIsStored' /\ PresentIsReadable'
  BY <1>1 DEF Inv, SlotsAreTasks, InFlight, Live, WriteHasBytes, RefusedFreezes,
              SeededIsStored, PresentIsReadable, Readable
<1>5. BarredIsSeen' /\ ListedNeverArrives'
  BY <1>1, <1>2 DEF Inv, BarredIsSeen, ListedNeverArrives
<1> QED
  BY <1>3, <1>4, <1>5 DEF Inv

LEMMA RemoveKeeps ==
    ASSUME Inv, NEW i \in Index, RemoveBlock(i), UNCHANGED <<schedVars, sessionVars, readerVars>>
    PROVE  Inv'
<1> USE DEF schedVars, sessionVars, readerVars
<1>1. /\ stored' = [stored EXCEPT ![i] = "none"] /\ gone' = gone \cup {i} /\ faults' = faults + 1
      /\ UNCHANGED <<status, frozen, task, repairing, policy, listed, barred, file, loop, reader, changed>>
  BY DEF RemoveBlock, Fault, Erase
<1>2. stored \in [Index -> Held]
  BY DEF Inv, StateTypes, FetchTypeOK
<1>3. \A j \in Index : stored'[j] = IF j = i THEN "none" ELSE stored[j]
  BY <1>1, <1>2
<1>4. StateTypes'
  BY <1>1 DEF Inv, StateTypes, FetchTypeOK, Held
<1>5. SlotsAreTasks' /\ WriteHasBytes' /\ RefusedFreezes' /\ BarredIsSeen' /\ ListedNeverArrives'
  BY <1>1 DEF Inv, SlotsAreTasks, InFlight, Live, WriteHasBytes, RefusedFreezes, BarredIsSeen,
              ListedNeverArrives
<1>6. SeededIsStored' /\ PresentIsReadable'
  BY <1>1, <1>3 DEF Inv, SeededIsStored, PresentIsReadable, Readable, Has, Verifies
<1> QED
  BY <1>4, <1>5, <1>6 DEF Inv

LEMMA CloseKeeps == ASSUME Inv, Close PROVE Inv'
<1> USE DEF nodeVars
<1>1. /\ status' = [i \in Index |-> "Absent"] /\ frozen' = TRUE
      /\ task' = [i \in Index |-> "none"] /\ repairing' = {} /\ file' = {} /\ changed' = {}
      /\ loop' = [pc |-> "over", seg |-> 0]
      /\ UNCHANGED <<stored, policy, listed, gone, barred, faults>>
  BY DEF Close
<1>2. reader' \in [Reader -> [pc: {"idle", "403"} \cup Pending, seg: Index]]
  BY IndexHasFirst DEF Close, Inv, StateTypes, Idle
<1>3. StateTypes'
  BY <1>1, <1>2, IndexHasFirst DEF Inv, StateTypes, FetchTypeOK, Status
<1>4. SlotsAreTasks' /\ WriteHasBytes' /\ RefusedFreezes' /\ SeededIsStored'
  BY <1>1 DEF SlotsAreTasks, InFlight, Live, WriteHasBytes, RefusedFreezes, SeededIsStored
<1>5. BarredIsSeen' /\ ListedNeverArrives' /\ PresentIsReadable'
  BY <1>1 DEF Inv, StateTypes, FetchTypeOK, BarredIsSeen, ListedNeverArrives, PresentIsReadable
<1> QED
  BY <1>3, <1>4, <1>5 DEF Inv

LEMMA InvNext == Inv /\ [Next]_vars => Inv'
<1> SUFFICES ASSUME Inv, [Next]_vars PROVE Inv'
  OBVIOUS
<1>1. CASE TaskSteps
  BY <1>1, TaskKeeps DEF TaskSteps
<1>2. CASE Cooling
  BY <1>2, CoolKeeps DEF Cooling
<1>3. CASE Environment
  BY <1>3, ListKeeps, RemoveKeeps, JoinKeeps, CloseKeeps DEF Environment
<1>4. CASE UNCHANGED vars
  <2>1. UNCHANGED <<status, frozen, task, repairing, stored, policy, listed, gone, barred, faults, file, loop,
                    reader, changed>>
    BY <1>4 DEF vars, schedVars, fetchVars, nodeVars, sessionVars, readerVars
  <2> QED
    BY <2>1, ReadersMove DEF Inv, StateTypes
<1> QED
  BY <1>1, <1>2, <1>3, <1>4, LoopKeeps, ReaderKeeps DEF Next

LEMMA InvHolds == Spec => []Inv
<1> QED
  BY InvInit, InvNext, PTL DEF Spec

-----------------------------------------------------------------------------
(* Slots, blocks and moderation *)

\* The scheduler counts a slot exactly as long as the loop has a task to join for it:
\* none is lost when a task fails, is refused or panics.
THEOREM NoSlotIsLost == Spec => []SlotsAreTasks
<1>1. Inv => SlotsAreTasks
  BY DEF Inv
<1> QED
  BY <1>1, InvHolds, PTL

\* What is marked present can be read, but for the two exceptions that the property names.
THEOREM PresentCanBeServed == Spec => []PresentIsReadable
<1>1. Inv => PresentIsReadable
  BY DEF Inv
<1> QED
  BY <1>1, InvHolds, PTL

\* A segment that is listed before its last check never becomes part of the session.
THEOREM ListedStaysOut == Spec => []ListedNeverArrives
<1>1. Inv => ListedNeverArrives
  BY DEF Inv
<1> QED
  BY <1>1, InvHolds, PTL

-----------------------------------------------------------------------------
(* What every step does to the slots *)

\* A step begins one download, ends one, ends all with the session, or touches none.
LEMMA SlotStep ==
    ASSUME Inv, [Next]_vars
    PROVE  \/ UNCHANGED <<status, frozen>>
           \/ \E i \in Index : /\ status[i] \in {"Absent", "Failed"} /\ ~ frozen /\ UNCHANGED frozen
                               /\ status' = [status EXCEPT ![i] = "InFlight"]
           \/ \E i \in Index, s \in {"Present", "Refused", "Cooling"} :
                  /\ status[i] = "InFlight" /\ frozen' = (frozen \/ s = "Refused")
                  /\ status' = [status EXCEPT ![i] = s] /\ LoopAt("notify")'
                  /\ UNCHANGED <<reader, changed>>
           \/ \E i \in Index : /\ status[i] = "Cooling" /\ UNCHANGED <<frozen, loop, reader, changed>>
                               /\ status' = [status EXCEPT ![i] = "Failed"]
           \/ Close
<1> USE DEF schedVars, sessionVars, readerVars
<1>1. frozen \in BOOLEAN /\ \A i \in Live \cap Index : status[i] = "InFlight"
  BY DEF Inv, StateTypes, SlotsAreTasks, InFlight
<1>2. CASE Claim
  BY <1>2, ClaimStep
<1>3. ASSUME NEW i \in Index, JoinBytes(i) \/ JoinFailed(i) \/ JoinPanicked(i), status' # status
      PROVE  \E s \in {"Present", "Refused", "Cooling"} :
                 /\ status[i] = "InFlight" /\ frozen' = (frozen \/ s = "Refused")
                 /\ status' = [status EXCEPT ![i] = s] /\ LoopAt("notify")'
                 /\ UNCHANGED <<reader, changed>>
  <2>1. status[i] = "InFlight"
    BY <1>1, <1>3 DEF JoinBytes, JoinFailed, JoinPanicked, Live, Running
  <2>2. UNCHANGED <<reader, changed>> /\ LoopAt("notify")'
    BY <1>3 DEF JoinBytes, JoinFailed, JoinPanicked
  <2>3. \E s \in {"Present", "Refused", "Cooling"} :
            frozen' = (frozen \/ s = "Refused") /\ status' = [status EXCEPT ![i] = s]
    BY <1>1, <1>3 DEF JoinBytes, JoinFailed, JoinPanicked, MarkPresent, MarkRefused, MarkFailed
  <2> QED
    BY <2>1, <2>2, <2>3
<1>4. CASE WriteFile \/ WriteFails
  <2>1. loop.seg \in Index /\ status[loop.seg] = "InFlight"
    BY <1>1, <1>4 DEF Inv, StateTypes, WriteHasBytes, WriteFile, WriteFails, Live
  <2>2. UNCHANGED <<reader, changed>> /\ LoopAt("notify")'
    BY <1>4 DEF WriteFile, WriteFails
  <2>3. \E s \in {"Present", "Refused", "Cooling"} :
            frozen' = (frozen \/ s = "Refused") /\ status' = [status EXCEPT ![loop.seg] = s]
    BY <1>1, <1>4 DEF WriteFile, WriteFails, MarkPresent, MarkFailed
  <2> QED
    BY <2>1, <2>2, <2>3
<1>5. ASSUME NEW i \in Index, JoinBytes(i) \/ JoinFailed(i) \/ JoinPanicked(i), status' = status
      PROVE  UNCHANGED <<status, frozen>>
  <2>1. CASE JoinBytes(i)
    BY <1>5, <2>1 DEF JoinBytes, MarkPresent
  <2>2. CASE JoinFailed(i) \/ JoinPanicked(i)
    <3>1. status[i] = "InFlight" /\ status \in [Index -> Status]
      BY <1>1, <2>2 DEF JoinFailed, JoinPanicked, Live, Running, Inv, StateTypes
    <3>2. status'[i] \in {"Refused", "Cooling"}
      BY <2>2, <3>1 DEF JoinFailed, JoinPanicked, MarkRefused, MarkFailed
    <3> QED
      BY <1>5, <3>1, <3>2
  <2> QED
    BY <1>5, <2>1, <2>2
<1>6. CASE ClaimNothing \/ Notify \/ Woken \/ RetryTimer
  BY <1>6 DEF ClaimNothing, TakeNothing, Notify, Woken, RetryTimer
<1>7. CASE TaskSteps
  BY <1>7 DEF TaskSteps
<1>8. CASE Cooling
  BY <1>8 DEF Cooling, CoolDown
<1>9. CASE \/ \E r \in Reader : ReaderStep(r) \/ Timeout(r)
           \/ \E i \in Index : Ask(i)
  BY <1>9 DEF ReaderStep, ReadLocal, Look, Serve, SeeChange, Timeout, Ask, Request
<1>10. CASE Environment /\ ~ Close
  BY <1>3, <1>5, <1>10 DEF Environment
<1>11. CASE UNCHANGED vars
  BY <1>11 DEF vars
<1>12. CASE LoopStep
  BY <1>2, <1>3, <1>4, <1>5, <1>6, <1>12 DEF LoopStep
<1> QED
  BY <1>7, <1>8, <1>9, <1>10, <1>11, <1>12 DEF Next

LEMMA DeliveryInit == Init => Downloads!Init
  BY DEF Init, SchedInit, FetchInit, Downloads!Init, Live

\* Beginning, succeeding, failing and refusing are all that happens to a segment.
LEMMA DeliveryNext == Inv /\ Inv' /\ [Next]_vars => [Downloads!Next]_(Downloads!vars)
<1> SUFFICES ASSUME Inv, Inv', [Next]_vars
             PROVE  Downloads!Next \/ UNCHANGED <<InFlight, {i \in Index : status[i] = "Present"}, frozen>>
  BY DEF Downloads!vars, Inv, SlotsAreTasks
<1> DEFINE got == {i \in Index : status[i] = "Present"}
<1>1. /\ status \in [Index -> Status] /\ frozen \in BOOLEAN
      /\ Live = InFlight /\ Live' = InFlight'
  BY DEF Inv, StateTypes, SlotsAreTasks
<1>2. CASE UNCHANGED <<status, frozen>>
  BY <1>2 DEF InFlight
<1>3. ASSUME NEW i \in Index, status[i] \in {"Absent", "Failed"}, ~ frozen, UNCHANGED frozen,
             status' = [status EXCEPT ![i] = "InFlight"]
      PROVE  Downloads!Begin(i)
  <2>1. \A j \in Index : status'[j] = IF j = i THEN "InFlight" ELSE status[j]
    BY <1>1, <1>3
  <2>2. InFlight' = InFlight \cup {i} /\ got' = got /\ i \notin InFlight \cup got
    BY <1>3, <2>1 DEF InFlight
  <2> QED
    BY <1>1, <1>3, <2>2 DEF Downloads!Begin
<1>4. ASSUME NEW i \in Index, NEW s \in {"Present", "Refused", "Cooling"}, status[i] = "InFlight",
             frozen' = (frozen \/ s = "Refused"), status' = [status EXCEPT ![i] = s]
      PROVE  Downloads!Succeed(i) \/ Downloads!Refuse(i) \/ Downloads!Fail(i)
  <2>1. \A j \in Index : status'[j] = IF j = i THEN s ELSE status[j]
    BY <1>1, <1>4
  <2>2. InFlight' = InFlight \ {i} /\ i \in InFlight
    BY <1>4, <2>1 DEF InFlight
  <2>3. CASE s = "Present"
    <3>1. got' = got \cup {i}
      BY <2>1, <2>3
    <3> QED
      BY <1>1, <1>4, <2>2, <2>3, <3>1 DEF Downloads!Succeed
  <2>4. CASE s # "Present"
    <3>1. got' = got
      BY <1>4, <2>1, <2>4
    <3>2. CASE s = "Refused"
      BY <1>1, <1>4, <2>2, <3>1, <3>2 DEF Downloads!Refuse
    <3>3. CASE s = "Cooling"
      BY <1>1, <1>4, <2>2, <3>1, <3>3 DEF Downloads!Fail
    <3> QED
      BY <2>4, <3>2, <3>3
  <2> QED
    BY <2>3, <2>4
<1>5. ASSUME NEW i \in Index, status[i] = "Cooling", UNCHANGED frozen,
             status' = [status EXCEPT ![i] = "Failed"]
      PROVE  UNCHANGED <<InFlight, got, frozen>>
  <2>1. \A j \in Index : status'[j] = IF j = i THEN "Failed" ELSE status[j]
    BY <1>1, <1>5
  <2> QED
    BY <1>5, <2>1 DEF InFlight
<1>6. CASE Close
  <2>1. InFlight' = {} /\ got' = {} /\ frozen' = TRUE
    BY <1>6 DEF Close, InFlight
  <2> QED
    BY <1>1, <2>1 DEF Downloads!Stop, Downloads!Next
<1>7. ASSUME NEW i \in Index,
             Downloads!Begin(i) \/ Downloads!Succeed(i) \/ Downloads!Refuse(i) \/ Downloads!Fail(i)
      PROVE  Downloads!Next
  BY <1>7 DEF Downloads!Next
<1> QED
  BY <1>2, <1>3, <1>4, <1>5, <1>6, <1>7, SlotStep

\* A session downloads a segment once at a time and never again once it has it, and
\* begins no download after a refusal (Delivery), whatever its readers ask for.
THEOREM SessionDelivers == Spec => ImplementsDelivery
<1> QED
  BY InvHolds, DeliveryInit, DeliveryNext, PTL DEF Spec, ImplementsDelivery, Downloads!Spec

-----------------------------------------------------------------------------
(* What the readers are told *)

LEMMA ReadersInit == Init => ForbiddenIsFinal /\ NobodyWaitsInVain
  BY DEF Init, Idle, ForbiddenIsFinal, NobodyWaitsInVain

\* A reader comes to wait, and to its 403, by looking.
LEMMA ReaderTurns ==
    ASSUME Inv, [Next]_vars, NEW r \in Reader
    PROVE  \/ reader'[r] = reader[r] /\ (r \in changed => r \in changed' \/ reader[r].pc # "wait")
           \/ reader'[r].pc \notin {"wait", "403"}
           \/ Look(r) /\ reader'[r].seg = reader[r].seg
<1> DEFINE Turn == \/ reader'[r] = reader[r] /\ (r \in changed => r \in changed' \/ reader[r].pc # "wait")
                   \/ reader'[r].pc \notin {"wait", "403"}
                   \/ Look(r) /\ reader'[r].seg = reader[r].seg
<1>1. reader \in [Reader -> [pc: {"idle", "403"} \cup Pending, seg: Index]]
  BY DEF Inv, StateTypes
<1>2. ASSUME UNCHANGED readerVars PROVE Turn
  BY <1>2 DEF readerVars
<1>3. ASSUME Notify PROVE Turn
  BY <1>3 DEF Notify, Pending
<1>4. ASSUME NEW q \in Reader, ReaderStep(q) \/ Timeout(q) PROVE Turn
  <2>1. CASE q # r
    <3>1. reader'[r] = reader[r] /\ (r \in changed => r \in changed')
      BY <1>1, <1>4, <2>1 DEF ReaderStep, ReadLocal, Look, Serve, SeeChange, Timeout, Answered
    <3> QED
      BY <3>1
  <2>2. CASE q = r /\ Look(r)
    <3>1. reader'[r].seg = reader[r].seg
      BY <1>1, <2>2 DEF Look
    <3> QED
      BY <2>2, <3>1
  <2>3. CASE q = r /\ ~ Look(r)
    <3>1. reader'[r].pc \in {"idle", "look"}
      BY <1>1, <1>4, <2>3 DEF ReaderStep, ReadLocal, Serve, SeeChange, Timeout, Answered, Idle
    <3> QED
      BY <3>1
  <2> QED
    BY <2>1, <2>2, <2>3
<1>5. ASSUME NEW i \in Index, Ask(i) PROVE Turn
  <2>1. PICK q \in Reader : /\ reader' = [reader EXCEPT ![q] = [pc |-> "read", seg |-> i]]
                            /\ changed' = changed \ {q}
    <3>1. Free # {} /\ Free \subseteq Reader
      BY <1>5 DEF Ask, Free
    <3> QED
      BY <1>5, <3>1 DEF Ask
  <2>2. CASE q = r
    BY <1>1, <2>1, <2>2
  <2>3. CASE q # r
    BY <1>1, <2>1, <2>3
  <2> QED
    BY <2>2, <2>3
<1>6. ASSUME Close PROVE Turn
  <2>1. reader'[r] = IF reader[r].pc \in Pending THEN Idle ELSE reader[r]
    BY <1>6 DEF Close
  <2> QED
    BY <2>1 DEF Idle, Pending
<1>7. ASSUME LoopStep, ~ Notify PROVE Turn
  <2>1. UNCHANGED readerVars
    BY <1>7 DEF LoopStep, Claim, ClaimNothing, JoinBytes, JoinFailed, WriteFile, WriteFails, Woken, RetryTimer
  <2> QED
    BY <1>2, <2>1
<1>8. ASSUME TaskSteps \/ Cooling \/ (Environment /\ ~ Close) PROVE Turn
  <2>1. UNCHANGED readerVars
    BY <1>8 DEF TaskSteps, Cooling, Environment, JoinPanicked
  <2> QED
    BY <1>2, <2>1
<1>9. Turn
  <2>1. Next \/ UNCHANGED vars
    OBVIOUS
  <2>2. CASE UNCHANGED vars
    BY <1>2, <2>2 DEF vars
  <2> HIDE DEF Turn
  <2>3. CASE Next
    BY <1>3, <1>4, <1>5, <1>6, <1>7, <1>8, <2>3 DEF Next
  <2> QED
    BY <2>1, <2>2, <2>3
<1> QED
  BY <1>9

LEMMA ForbiddenNext == Inv /\ Inv' /\ ForbiddenIsFinal /\ [Next]_vars => ForbiddenIsFinal'
<1> SUFFICES ASSUME Inv, Inv', ForbiddenIsFinal, [Next]_vars, NEW r \in Reader, reader'[r].pc = "403"
             PROVE  frozen' /\ reader'[r].seg \notin Live' /\ status'[reader'[r].seg] # "Present"
  BY DEF ForbiddenIsFinal
<1> DEFINE i == reader'[r].seg
<1>1. /\ status \in [Index -> Status] /\ status' \in [Index -> Status] /\ frozen \in BOOLEAN
      /\ Live = InFlight /\ Live' = InFlight' /\ i \in Index
      /\ \A j \in Index : status[j] = "Refused" => frozen
  BY DEF Inv, StateTypes, SlotsAreTasks, RefusedFreezes
<1>2. frozen /\ status[i] \notin {"InFlight", "Present"}
  <2>1. CASE reader'[r] = reader[r]
    BY <1>1, <2>1 DEF ForbiddenIsFinal, InFlight
  <2>2. CASE Look(r) /\ reader'[r].seg = reader[r].seg
    <3>1. reader'[r].pc = CASE status[i] = "Present"  -> "serve"
                            [] status[i] = "Refused"  -> "403"
                            [] status[i] = "InFlight" -> "wait"
                            [] OTHER                  -> IF frozen THEN "403" ELSE "wait"
      BY <2>2 DEF Look, Inv, StateTypes
    <3> QED
      BY <1>1, <3>1
  <2> QED
    BY <2>1, <2>2, ReaderTurns
<1>3. frozen' /\ status'[i] \notin {"InFlight", "Present"}
  <2>1. CASE Close
    BY <1>1, <2>1 DEF Close
  <2> QED
    BY <1>1, <1>2, <2>1, SlotStep
<1> QED
  BY <1>1, <1>3 DEF InFlight

\* A 403 is final: the segment it was for is not there and never comes.
THEOREM RefusalIsFinal == Spec => []ForbiddenIsFinal
<1> QED
  BY InvHolds, ReadersInit, ForbiddenNext, PTL DEF Spec

LEMMA WaitingNext == Inv /\ Inv' /\ NobodyWaitsInVain /\ [Next]_vars => NobodyWaitsInVain'
<1> DEFINE Hope(s, f) == s = "InFlight" \/ (s \in {"Absent", "Cooling", "Failed"} /\ ~ f)
<1> SUFFICES ASSUME Inv, Inv', NobodyWaitsInVain, [Next]_vars, NEW r \in Reader,
                    reader'[r].pc = "wait", r \notin changed', ~ LoopAt("notify")'
             PROVE  Hope(status'[reader'[r].seg], frozen')
  BY DEF NobodyWaitsInVain
<1> DEFINE i == reader'[r].seg
<1>1. /\ status \in [Index -> Status] /\ frozen \in BOOLEAN /\ i \in Index
      /\ \A j \in Index : status[j] = "Refused" => frozen
  BY DEF Inv, StateTypes, RefusedFreezes
<1>2. ~ Close
  BY DEF Close, Idle, Inv, StateTypes, Pending
<1>3. ~ Notify
  BY DEF Notify, Pending
<1>4. ~ LoopAt("notify")
  <2> SUFFICES ASSUME loop.pc = "notify" PROVE loop'.pc = "notify"
    OBVIOUS
  <2>1. Next \/ UNCHANGED vars
    OBVIOUS
  <2>2. CASE UNCHANGED vars
    BY <2>2 DEF vars, sessionVars
  <2>3. CASE LoopStep
    BY <1>3, <2>3 DEF LoopStep, Claim, sessionVars, ClaimNothing, JoinBytes, JoinFailed, WriteFile,
                      WriteFails, Woken, RetryTimer
  <2>4. CASE \/ \E q \in Reader : ReaderStep(q) \/ Timeout(q)
             \/ \E j \in Index : Ask(j)
    BY <2>4 DEF ReaderStep, ReadLocal, Look, Serve, SeeChange, Timeout, Ask, sessionVars
  <2>5. CASE TaskSteps \/ Cooling \/ Environment
    BY <1>2, <2>5 DEF TaskSteps, Cooling, Environment, JoinPanicked, sessionVars
  <2> QED
    BY <2>1, <2>2, <2>3, <2>4, <2>5 DEF Next
<1>5. CASE reader'[r] = reader[r] /\ (r \in changed => r \in changed' \/ reader[r].pc # "wait")
  <2>1. Hope(status[i], frozen)
    BY <1>4, <1>5 DEF NobodyWaitsInVain
  <2> QED
    BY <1>1, <1>2, <2>1, SlotStep
<1>6. CASE Look(r) /\ reader'[r].seg = reader[r].seg
  <2>1. reader'[r].pc = CASE status[i] = "Present"  -> "serve"
                          [] status[i] = "Refused"  -> "403"
                          [] status[i] = "InFlight" -> "wait"
                          [] OTHER                  -> IF frozen THEN "403" ELSE "wait"
    BY <1>6 DEF Look, Inv, StateTypes
  <2>2. Hope(status[i], frozen)
    BY <1>1, <2>1 DEF Status
  <2> QED
    BY <1>6, <2>2 DEF Look, schedVars
<1> QED
  BY <1>5, <1>6, ReaderTurns

\* A request that sleeps with nothing new to see has something to wait for: no change is
\* lost between its look at the segment and its sleep.
THEOREM NoWakeupIsLost == Spec => []NobodyWaitsInVain
<1> QED
  BY InvHolds, ReadersInit, WaitingNext, PTL DEF Spec
-----------------------------------------------------------------------------
(* The Range headers *)

LEMMA IntervalIs ==
    ASSUME NEW start \in Nat, NEW end \in Nat, NEW len \in Nat
    PROVE  /\ start <= end /\ start < len =>
                 /\ Interval(start, end, len) # Unsatisfiable
                 /\ Interval(start, end, len)[1] = start /\ Interval(start, end, len)[2] = end
           /\ ~(start <= end /\ start < len) => Interval(start, end, len) = Unsatisfiable
BY DEF Interval, Unsatisfiable

\* What parse_range finds and what a header asks for, for one header and one length.
Exact(h, len) ==
    IF ParseRange(h, len) = Unsatisfiable THEN Asked(h, len) = {}
    ELSE ParseRange(h, len)[1] .. ParseRange(h, len)[2] = Asked(h, len)

LEMMA IntervalExact ==
    ASSUME NEW h, NEW len \in 0 .. MaxLength, NEW start \in Nat, NEW end \in Nat, end < len,
           ParseRange(h, len) = Interval(start, end, len),
           Asked(h, len) = {p \in 0 .. MaxLength : start <= p /\ p <= end}
    PROVE  Exact(h, len)
<1>1. len \in Nat /\ MaxLength \in Nat
  BY LengthAssumption
<1>2. CASE start <= end
  <2>1. start < len
    BY <1>1, <1>2
  <2>2. /\ ParseRange(h, len) # Unsatisfiable
        /\ ParseRange(h, len)[1] = start /\ ParseRange(h, len)[2] = end
    BY <1>1, <1>2, <2>1, IntervalIs
  <2>3. {p \in 0 .. MaxLength : start <= p /\ p <= end} = start .. end
    BY <1>1
  <2> QED
    BY <2>2, <2>3 DEF Exact
<1>3. CASE ~(start <= end)
  <2>1. ParseRange(h, len) = Unsatisfiable
    BY <1>1, <1>3, IntervalIs
  <2>2. {p \in 0 .. MaxLength : start <= p /\ p <= end} = {}
    BY <1>1, <1>3
  <2> QED
    BY <2>1, <2>2 DEF Exact
<1> QED
  BY <1>2, <1>3

LEMMA EveryHeaderExact ==
    ASSUME NEW h \in Header, NEW len \in 0 .. MaxLength
    PROVE  Exact(h, len)
<1> DEFINE Slice(lo, hi) == {p \in 0 .. MaxLength : lo <= p /\ p <= hi}
<1>1. /\ len \in Nat /\ MaxLength \in Nat /\ None \notin Nat
      /\ h.first \in Nat \cup {None} /\ h.last \in Nat \cup {None}
  BY LengthAssumption DEF Header
<1>2. ASSUME ParseRange(h, len) = Unsatisfiable, Asked(h, len) = {}
      PROVE  Exact(h, len)
  BY <1>2 DEF Exact
<1>3. CASE len = 0
  <2>1. ParseRange(h, len) = Unsatisfiable
    BY <1>1, <1>3 DEF ParseRange
  <2>2. Asked(h, len) = {}
    BY <1>1, <1>3 DEF Asked
  <2> QED
    BY <1>2, <2>1, <2>2
<1>4. CASE len # 0 /\ h.first = None /\ h.last = None
  <2>1. ParseRange(h, len) = Unsatisfiable
    BY <1>4 DEF ParseRange
  <2>2. Asked(h, len) = {}
    BY <1>1, <1>4 DEF Asked
  <2> QED
    BY <1>2, <2>1, <2>2
<1>5. CASE len # 0 /\ h.first = None /\ h.last = 0
  <2>0. h.last # None
    BY <1>1, <1>5
  <2>1. ParseRange(h, len) = Unsatisfiable
    BY <1>1, <1>5, <2>0 DEF ParseRange
  <2>2. Asked(h, len) = {p \in 0 .. MaxLength : p < len /\ p + h.last >= len}
    BY <1>5, <2>0 DEF Asked
  <2>3. Asked(h, len) = {}
    BY <1>1, <1>5, <2>2
  <2> QED
    BY <1>2, <2>1, <2>3
<1>6. CASE len # 0 /\ h.first = None /\ h.last \in Nat /\ h.last # 0
  <2>1. SaturatingSub(len, h.last) \in Nat /\ len - 1 \in Nat /\ len - 1 < len
    BY <1>1, <1>6 DEF SaturatingSub
  <2>2. ParseRange(h, len) = Interval(SaturatingSub(len, h.last), len - 1, len)
    BY <1>1, <1>6 DEF ParseRange
  <2>3. Asked(h, len) = Slice(SaturatingSub(len, h.last), len - 1)
    BY <1>1, <1>6 DEF Asked, SaturatingSub
  <2> QED
    BY <2>1, <2>2, <2>3, IntervalExact
<1>7. CASE len # 0 /\ h.first \in Nat /\ h.last = None
  <2>1. len - 1 \in Nat /\ len - 1 < len
    BY <1>1, <1>7
  <2>2. ParseRange(h, len) = Interval(h.first, len - 1, len)
    BY <1>1, <1>7 DEF ParseRange
  <2>3. Asked(h, len) = Slice(h.first, len - 1)
    BY <1>1, <1>7 DEF Asked
  <2> QED
    BY <1>7, <2>1, <2>2, <2>3, IntervalExact
<1>8. CASE len # 0 /\ h.first \in Nat /\ h.last \in Nat
  <2>1. Smaller(h.last, len - 1) \in Nat /\ Smaller(h.last, len - 1) < len
    BY <1>1, <1>8 DEF Smaller
  <2>2. ParseRange(h, len) = Interval(h.first, Smaller(h.last, len - 1), len)
    BY <1>1, <1>8 DEF ParseRange
  <2>3. Asked(h, len) = Slice(h.first, Smaller(h.last, len - 1))
    BY <1>1, <1>8 DEF Asked, Smaller
  <2> QED
    BY <1>8, <2>1, <2>2, <2>3, IntervalExact
<1> QED
  BY <1>1, <1>3, <1>4, <1>5, <1>6, <1>7, <1>8

\* Whatever the header and the length of the block, an empty one included, a request
\* gets exactly the bytes that its header asks for, and 416 where that is nothing: the
\* slice &bytes[start..=end] never leaves the block (parse_range).
THEOREM SlicesFit == Spec => []SliceIsWhatWasAsked
<1>1. SlicesAreExact
  BY EveryHeaderExact, Zenon DEF SlicesAreExact, Exact
<1>2. SliceIsWhatWasAsked
  BY <1>1 DEF SliceIsWhatWasAsked
<1> QED
  BY <1>2, PTL

-----------------------------------------------------------------------------
(* What readers asked for *)

\* The playhead, and what waits to be fetched for a reader, are segments of the manifest.
QueueTypes == head \in Index /\ wanted \in Seq(Index) /\ asks \in Nat

LEMMA TakenOut ==
    ASSUME NEW q \in Seq(Index), NEW p \in DOMAIN q
    PROVE  RemoveAt(q, p) \in Seq(Index)
<1>1. /\ p \in Int /\ p - 1 \in Int /\ p + 1 \in Int /\ 1 \in Int /\ Len(q) \in Int
      /\ \A k \in 1 .. p - 1 : q[k] \in Index
      /\ \A k \in p + 1 .. Len(q) : q[k] \in Index
  OBVIOUS
<1>2. SubSeq(q, 1, p - 1) \in Seq(Index)
  BY <1>1, SubSeqProperties
<1>3. SubSeq(q, p + 1, Len(q)) \in Seq(Index)
  BY <1>1, SubSeqProperties
<1> HIDE DEF Index
<1> QED
  BY <1>2, <1>3 DEF RemoveAt

LEMMA LeftOver ==
    ASSUME NEW q \in Seq(Index)
    PROVE  \A S : Retained(q, S) \in Seq(Index)
BY RetainedType

\* The loop takes from the queue and never moves the playhead.
LEMMA LoopQueue == ASSUME QueueTypes, LoopStep PROVE QueueTypes'
<1>1. head' = head /\ asks' = asks
  BY DEF LoopStep, Claim, TakeWanted, TakeAhead, ClaimNothing, TakeNothing, JoinBytes, JoinFailed,
         WriteFile, WriteFails, MarkPresent, MarkFailed, MarkRefused, Notify, Woken, RetryTimer,
         schedVars, readerVars
<1>2. NotPresent \in Seq(Index)
  BY LeftOver DEF QueueTypes, NotPresent
<1>3. \A i : Without(wanted, i) \in Seq(Index)
  BY LeftOver DEF QueueTypes, Without
<1>4. CASE TakeWanted
  <2>1. PICK p \in DOMAIN wanted : wanted' = RemoveAt(wanted, p)
    BY <1>4 DEF TakeWanted, Least, EligibleWanted
  <2>2. wanted' \in Seq(Index)
    BY <2>1, TakenOut DEF QueueTypes
  <2> QED
    BY <1>1, <2>2 DEF QueueTypes
<1>5. CASE TakeAhead \/ TakeNothing
  BY <1>1, <1>2, <1>5 DEF TakeAhead, TakeNothing, QueueTypes
<1>6. CASE \E i : MarkPresent(i)
  BY <1>1, <1>3, <1>6 DEF MarkPresent, QueueTypes
<1>7. CASE \E i : MarkFailed(i) \/ MarkRefused(i)
  BY <1>1, <1>7 DEF MarkFailed, MarkRefused, QueueTypes
<1>8. CASE UNCHANGED wanted
  BY <1>1, <1>8 DEF QueueTypes
<1> QED
  BY <1>4, <1>5, <1>6, <1>7, <1>8
     DEF LoopStep, Claim, ClaimNothing, JoinBytes, JoinFailed, WriteFile, WriteFails, Notify,
         Woken, RetryTimer, schedVars

\* A request moves the playhead to its segment, which it puts at the end of the queue.
LEMMA AskQueue == ASSUME QueueTypes, NEW i \in Index, Ask(i) PROVE QueueTypes'
<1>1. head' = i /\ asks' = asks + 1
  BY DEF Ask, Request
<1>2. wanted' = wanted \/ wanted' = Append(wanted, i)
  BY DEF Ask, Request
<1>3. wanted' \in Seq(Index)
  BY <1>2 DEF QueueTypes
<1> QED
  BY <1>1, <1>3 DEF QueueTypes

LEMMA QueueNext == QueueTypes /\ [Next]_vars => QueueTypes'
<1> SUFFICES ASSUME QueueTypes, [Next]_vars PROVE QueueTypes'
  OBVIOUS
<1>1. CASE Close
  <2>1. head' = 0 /\ wanted' = <<>> /\ asks' = asks
    BY <1>1 DEF Close
  <2> QED
    BY <2>1, IndexHasFirst DEF QueueTypes
<1>2. CASE UNCHANGED <<head, wanted, asks>>
  BY <1>2 DEF QueueTypes
<1>3. ASSUME Next, ~LoopStep, ~Close, ~\E i \in Index : Ask(i)
      PROVE  UNCHANGED <<head, wanted, asks>>
  BY <1>3
     DEF Next, TaskSteps, Cooling, CoolDown, Environment, JoinPanicked, MarkFailed, Timeout,
         ReaderStep, ReadLocal, Look, Serve, SeeChange, schedVars, readerVars
<1>4. UNCHANGED vars => UNCHANGED <<head, wanted, asks>>
  BY DEF vars, schedVars, readerVars
<1> QED
  BY <1>1, <1>2, <1>3, <1>4, LoopQueue, AskQueue

\* Every position that the scheduler indexes a vector with is a segment of the manifest,
\* whatever the reader asks for and however often a request is taken up, answered or
\* dropped (states[idx] and durations[idx] of scheduler.rs); so are the tasks, files and
\* requests of the session.
THEOREM SessionTypeCorrect == Spec => []TypeOK
<1>1. Init => QueueTypes
  BY IndexHasFirst DEF Init, SchedInit, QueueTypes
<1>2. Inv /\ QueueTypes /\ wake \in BOOLEAN => TypeOK
  BY DEF Inv, StateTypes, QueueTypes, TypeOK, SchedTypeOK, SessionTypeOK
<1>3. Init => wake \in BOOLEAN
  BY DEF Init
<1>4. wake \in BOOLEAN /\ [Next]_vars => (wake \in BOOLEAN)'
  BY DEF Next, LoopStep, Claim, ClaimNothing, JoinBytes, JoinFailed, WriteFile, WriteFails, Notify,
         Woken, RetryTimer, TaskSteps, Cooling, ReaderStep, ReadLocal, Look, Serve, SeeChange,
         Timeout, Ask, Environment, JoinPanicked, Close, vars, sessionVars
<1> QED
  BY <1>1, <1>2, <1>3, <1>4, QueueNext, InvHolds, PTL DEF Spec
================================================================================
