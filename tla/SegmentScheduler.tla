--------------------------- MODULE SegmentScheduler ---------------------------
(***************************************************************************)
(* The scheduler of a streaming session (stream/scheduler.rs): what its    *)
(* fetch loop downloads next.  Every operation runs under the lock of the  *)
(* session.  The clock is reduced to what eligible() asks of it: a failure *)
(* is "Cooling" until RETRY_DELAY has passed, then "Failed".               *)
(***************************************************************************)
EXTENDS Naturals, FiniteSets, SequencesExt, Lists

CONSTANTS
    Total,          \* number of segments of the manifest
    Duration,       \* Duration[i]: seconds of segment i
    LookaheadSecs,  \* LOOKAHEAD_SECS
    MaxInflight     \* MAX_INFLIGHT

Index == 0 .. Total - 1

ASSUME TotalAssumption == Total \in Nat \ {0} /\ MaxInflight \in Nat \ {0}
ASSUME DurationAssumption == Duration \in [Index -> Nat] /\ LookaheadSecs \in Nat

VARIABLES
    status,         \* states: what is known of each segment
    head,           \* the last segment that a reader asked for
    wanted,         \* segments that readers asked for and nobody fetches, in order
    frozen          \* a segment was refused by the moderation

schedVars == <<status, head, wanted, frozen>>

\* SegmentState; "Refused" is a failure whose cause is Moderated.
Status == {"Absent", "InFlight", "Present", "Cooling", "Failed", "Refused"}

SchedTypeOK ==
    /\ status \in [Index -> Status]
    /\ head \in Index
    /\ wanted \in Seq(Index)
    /\ frozen \in BOOLEAN

SchedInit ==
    /\ status = [i \in Index |-> "Absent"]
    /\ head = 0
    /\ wanted = <<>>
    /\ frozen = FALSE

-----------------------------------------------------------------------------

InFlight == {i \in Index : status[i] = "InFlight"}

Without(seq, i) == Retained(seq, Index \ {i})

\* Mutant: the playhead is moved to what comes next.
RequestNext(i) ==
    /\ head' = i + 1
    /\ wanted' = IF status[i] \in {"Present", "InFlight"} \/ Contains(wanted, i)
                 THEN wanted ELSE Append(wanted, i)
    /\ UNCHANGED <<status, frozen>>

\* request: the playhead moves even for a segment that is there.
Request(i) ==
    /\ head' = i
    /\ wanted' = IF status[i] \in {"Present", "InFlight"} \/ Contains(wanted, i)
                 THEN wanted ELSE Append(wanted, i)
    /\ UNCHANGED <<status, frozen>>

\* Mutant: a segment that failed once is left alone.
NeverAgain(i) == status[i] = "Absent"

\* eligible
Eligible(i) == status[i] \in {"Absent", "Failed"}

\* The least of a set of positions or segments: what next_to_fetch takes.
Least(S) == {p \in S : \A q \in S : p <= q}

EligibleWanted == {p \in DOMAIN wanted : Eligible(wanted[p])}

\* Seconds of playback from the playhead to the start of segment i.
StartsAt[i \in Nat] == IF i = 0 THEN 0 ELSE StartsAt[i - 1] + Duration[i - 1]
Window == {i \in Index : i >= head /\ StartsAt[i] - StartsAt[head] <= LookaheadSecs}

Ahead == {i \in Window : Eligible(i)}

Take(i) == status' = [status EXCEPT ![i] = "InFlight"]

\* Mutant: a frozen session goes on with what a reader asked for.
TakeWantedFrozen ==
    /\ \E p \in Least(EligibleWanted) :
           Take(wanted[p]) /\ wanted' = RemoveAt(wanted, p)
    /\ UNCHANGED <<head, frozen>>

\* next_to_fetch, first rule: what a reader asked for, however much is in flight.
TakeWanted ==
    /\ ~frozen
    /\ \E p \in Least(EligibleWanted) :
           Take(wanted[p]) /\ wanted' = RemoveAt(wanted, p)
    /\ UNCHANGED <<head, frozen>>

NotPresent == Retained(wanted, {i \in Index : status[i] # "Present"})

\* Second rule: the window after the playhead, if a slot is free.
MayPrefetch == Cardinality(InFlight) < MaxInflight /\ Ahead # {}

TakeAhead ==
    /\ ~frozen /\ EligibleWanted = {} /\ MayPrefetch
    /\ \E i \in Least(Ahead) : Take(i)
    /\ wanted' = NotPresent
    /\ UNCHANGED <<head, frozen>>

\* Nothing to fetch.
TakeNothing ==
    /\ frozen \/ (EligibleWanted = {} /\ ~MayPrefetch)
    /\ wanted' = IF frozen THEN wanted ELSE NotPresent
    /\ UNCHANGED <<status, head, frozen>>

MarkPresent(i) ==
    /\ status' = [status EXCEPT ![i] = "Present"]
    /\ wanted' = Without(wanted, i)
    /\ UNCHANGED <<head, frozen>>

\* mark_failed, with the cause Moderated or another.
MarkRefused(i) ==
    /\ status' = [status EXCEPT ![i] = "Refused"]
    /\ frozen' = TRUE
    /\ UNCHANGED <<head, wanted>>

MarkFailed(i) ==
    /\ status' = [status EXCEPT ![i] = "Cooling"]
    /\ UNCHANGED <<head, wanted, frozen>>

\* RETRY_DELAY has passed since segment i failed.
CoolDown(i) ==
    /\ status[i] = "Cooling"
    /\ status' = [status EXCEPT ![i] = "Failed"]
    /\ UNCHANGED <<head, wanted, frozen>>
===============================================================================
