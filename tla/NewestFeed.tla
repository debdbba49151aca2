------------------------------ MODULE NewestFeed ------------------------------
(***************************************************************************)
(* What the distribution of feeds promises: an issuer numbers its feeds    *)
(* upwards, as long as it can save the number, and what a node knows of an *)
(* issuer is a number that it signed and that only grows, until the node   *)
(* forgets the issuer altogether.                                          *)
(***************************************************************************)
EXTENDS Naturals

CONSTANTS Node, Issuer

VARIABLES
    issued,         \* issued[i]: the highest number that i signed
    again,          \* again[i]: how often i signed a number that it had signed, or a lower one
    unsaved,        \* the issuers whose highest number is not saved
    known           \* known[n][i]: the number of the feed that n shows for i, or 0

vars == <<issued, again, unsaved, known>>

Init ==
    /\ issued \in [Issuer -> Nat] /\ again = [i \in Issuer |-> 0]
    /\ unsaved = {}
    /\ known = [n \in Node |-> [i \in Issuer |-> 0]]

\* The number is saved or not.
Save(i) == unsaved' \in {unsaved, unsaved \ {i}, unsaved \cup {i}}

Sign(i) ==
    /\ issued'[i] > issued[i]
    /\ issued' = [issued EXCEPT ![i] = issued'[i]]
    /\ Save(i)
    /\ UNCHANGED <<again, known>>

SignAgain(i) ==
    /\ i \in unsaved
    /\ again' = [again EXCEPT ![i] = @ + 1]
    /\ Save(i)
    /\ UNCHANGED <<issued, known>>

Learn(n, i) ==
    /\ known[n][i] < known'[n][i] /\ known'[n][i] <= issued[i]
    /\ known' = [known EXCEPT ![n][i] = known'[n][i]]
    /\ UNCHANGED <<issued, again, unsaved>>

\* A ban of the issuers I, or a restart.
Forget(n, I) ==
    /\ known' = [known EXCEPT ![n] = [i \in Issuer |-> IF i \in I THEN 0 ELSE known[n][i]]]
    /\ UNCHANGED <<issued, again, unsaved>>

Next ==
    \/ \E i \in Issuer : Sign(i) \/ SignAgain(i)
    \/ \E n \in Node, i \in Issuer : Learn(n, i)
    \/ \E n \in Node, I \in SUBSET Issuer : Forget(n, I)

Spec == Init /\ [][Next]_vars
================================================================================
