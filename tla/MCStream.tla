------------------------------- MODULE MCStream -------------------------------
(***************************************************************************)
(* A session on a small manifest.  A segment lasts as long as the          *)
(* lookahead, so that the window holds the playhead and the next one.      *)
(***************************************************************************)
EXTENDS RangeHeader

CONSTANTS player, seeker

OneWindow == [i \in Index |-> 1]

\* The store holds nothing but segment 1, which is rotten.
Stores == {[i \in Index |-> IF i = 1 THEN "rotten" ELSE "none"]}
===============================================================================
