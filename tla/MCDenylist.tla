------------------------------ MODULE MCDenylist ------------------------------
(***************************************************************************)
(* Small instances of Denylist: the project's editor and one more, lists   *)
(* with two numbers, this node and one that stores records for it.         *)
(***************************************************************************)
EXTENDS Denylist

CONSTANTS project, friend, here, peer, t1, t2, follower

FirstLists == {[e \in Editor |-> 1]}
=============================================================================
