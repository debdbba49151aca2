------------------------------- MODULE Delivery -------------------------------
(***************************************************************************)
(* What a streaming session promises of its downloads, whatever its        *)
(* readers ask for: a segment is downloaded once at a time, and never      *)
(* again once the session has it; what fails may be tried again, until the *)
(* moderation refuses a segment: from then on no download begins.          *)
(***************************************************************************)
CONSTANT Segment

VARIABLES
    busy,           \* segments being downloaded
    got,            \* segments the session has
    stopped         \* the moderation refused one

vars == <<busy, got, stopped>>

Init == busy = {} /\ got = {} /\ stopped = FALSE

Begin(i) ==
    /\ ~stopped /\ i \notin busy \cup got
    /\ busy' = busy \cup {i}
    /\ UNCHANGED <<got, stopped>>

Succeed(i) == i \in busy /\ got' = got \cup {i} /\ busy' = busy \ {i} /\ UNCHANGED stopped
Fail(i) == i \in busy /\ busy' = busy \ {i} /\ UNCHANGED <<got, stopped>>
Refuse(i) == i \in busy /\ busy' = busy \ {i} /\ stopped' = TRUE /\ UNCHANGED got

\* The session is closed: everything it was doing is dropped.
Stop == busy' = {} /\ got' = {} /\ stopped' = TRUE

Next == (\E i \in Segment : Begin(i) \/ Succeed(i) \/ Fail(i) \/ Refuse(i)) \/ Stop

Spec == Init /\ [][Next]_vars
===============================================================================
