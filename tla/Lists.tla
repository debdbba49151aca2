--------------------------------- MODULE Lists ---------------------------------
(***************************************************************************)
(* Vectors: Vec::retain and the bytes that extend_from_slice puts one      *)
(* after the other.  They are recursive functions over the positions of    *)
(* the vector, which the theorems can reason about (DataLemmas).           *)
(***************************************************************************)
EXTENDS Naturals, Sequences

\* The elements of list that are in S, in their order.
Retained(list, S) ==
    LET upTo[n \in 0 .. Len(list)] ==
            IF n = 0 THEN <<>>
            ELSE IF list[n] \in S THEN Append(upTo[n - 1], list[n])
            ELSE upTo[n - 1]
    IN  upTo[Len(list)]

\* The sequences of lists, one after the other.
Flattened(lists) ==
    LET upTo[n \in 0 .. Len(lists)] ==
            IF n = 0 THEN <<>> ELSE upTo[n - 1] \o lists[n]
    IN  upTo[Len(lists)]
================================================================================
