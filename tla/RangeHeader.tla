----------------------------- MODULE RangeHeader -----------------------------
(***************************************************************************)
(* What the local server of a session makes of a Range header (parse_range *)
(* and the end of handle, stream/server.rs).  A header is an interval      *)
(* [first, last] of numbers or None; anything that does not parse as one   *)
(* interval is refused like an interval that cannot be satisfied.          *)
(* Blocks are up to MaxLength bytes long.                                  *)
(***************************************************************************)
EXTENDS StreamSession

CONSTANTS None, MaxLength

ASSUME LengthAssumption == MaxLength \in Nat /\ None \notin Nat

\* Numbers as large as a block and one beyond its end.
Header == [first: 0 .. MaxLength + 1 \cup {None}, last: 0 .. MaxLength + 1 \cup {None}]

Smaller(a, b) == IF a <= b THEN a ELSE b

\* usize::saturating_sub
SaturatingSub(a, b) == IF b > a THEN 0 ELSE a - b

Unsatisfiable == <<>>
Interval(start, end, len) ==
    IF start <= end /\ start < len THEN <<start, end>> ELSE Unsatisfiable

\* Mutant: the end of the header is taken as it stands.
ParseUnclamped(h, len) ==
    IF len = 0 THEN Unsatisfiable
    ELSE CASE h.first = None /\ h.last \in {None, 0}    -> Unsatisfiable
           [] h.first = None /\ h.last \notin {None, 0} ->
                  Interval(SaturatingSub(len, h.last), len - 1, len)
           [] h.first # None /\ h.last = None          -> Interval(h.first, len - 1, len)
           [] h.first # None /\ h.last # None          ->
                  Interval(h.first, h.last, len)

\* parse_range
ParseRange(h, len) ==
    IF len = 0 THEN Unsatisfiable
    ELSE CASE h.first = None /\ h.last \in {None, 0}    -> Unsatisfiable
           [] h.first = None /\ h.last \notin {None, 0} ->
                  Interval(SaturatingSub(len, h.last), len - 1, len)
           [] h.first # None /\ h.last = None          -> Interval(h.first, len - 1, len)
           [] h.first # None /\ h.last # None          ->
                  Interval(h.first, Smaller(h.last, len - 1), len)

-----------------------------------------------------------------------------

\* The positions of a block that a header asks for, as RFC 9110 defines them.
Asked(h, len) ==
    {p \in 0 .. MaxLength : p < len /\
        \/ h.first = None /\ h.last # None /\ p + h.last >= len
        \/ h.first # None /\ h.last = None /\ h.first <= p
        \/ h.first # None /\ h.last # None /\ h.first <= p /\ p <= h.last}

\* Against every header and every length of a block, an empty one included.
SlicesAreExact ==
    \A h \in Header, len \in 0 .. MaxLength :
        LET r == ParseRange(h, len)
        IN  IF r = Unsatisfiable THEN Asked(h, len) = {}
            ELSE r[1] .. r[2] = Asked(h, len)

\* A request that is about to be answered gets exactly what its header asks for, cut
\* within the bounds of the block, and 416 where that is nothing (&bytes[start..=end]
\* would panic, and the player would lose its connection).
SliceIsWhatWasAsked == (\E r \in Reader : reader[r].pc \in {"read", "serve"}) => SlicesAreExact
==============================================================================
