---------------------------- MODULE MCDistribution ----------------------------
(***************************************************************************)
(* Two nodes that exchange feeds and, beside them, the report book of one  *)
(* node.  The two share no state, so a behaviour spends its bound on one   *)
(* of them.                                                                *)
(***************************************************************************)
EXTENDS Signing, ReportBook

CONSTANTS a, b, x, c1, c2, c3

Nodes == {a, b}
Issuers == {a, b, x}
HomeOf == [t \in {c1, c2, c3} |-> IF t # c3 THEN a ELSE b]

\* A stranger's feed, and one that is forged under the name of a.
Heard ==
    {[issuer |-> x, seq |-> 1, ok |-> TRUE], [issuer |-> a, seq |-> 2, ok |-> FALSE]}

\* In every scene a publishes, b subscribes and hears the gossip.
Always == {<<"publish", c1, a>>, <<"subscribe", c3, a>>, <<"hear", b, a>>}

Bans ==
    Always \cup {<<"block", c3, a>>, <<"ban", c3, a>>, <<"unblock", b, a>>,
                 <<"resolve", c3, a>>, <<"fetch", c3, a>>, <<"restart", b, b>>}

\* Two publications at once, the author restarts, records expire or grow old.
Faults ==
    Always \cup {<<"publish", c2, a>>, <<"replay", a, a>>, <<"expire", a, a>>, <<"restart", a, a>>}

\* A number is not written, and the author restarts.
Forgetful ==
    Always \cup {<<"unwritten", c1, a>>, <<"restart", a, a>>}

\* The stranger fills the catalog of b, and b loses answers.
Crowd ==
    Always \cup {<<"hear", b, x>>, <<"lose", b, a>>, <<"search", c3, b>>,
                 <<"unsubscribe", b, a>>, <<"restart", b, b>>}

Scenes == {Bans, Faults, Forgetful, Crowd}

allVars == <<vars, bookVars>>

MCInit ==
    /\ FeedInit /\ BookInit
    /\ \/ ops = 0 /\ reports = MaxReports /\ keys = {}
       \/ ops = MaxOps /\ reports = 0 /\ may = Bans

MCNext ==
    \/ FeedNext /\ UNCHANGED bookVars
    \/ BookNext /\ UNCHANGED vars

MCSpec == MCInit /\ [][MCNext]_allVars /\ FeedFairness
===============================================================================
