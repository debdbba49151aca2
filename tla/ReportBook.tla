------------------------------ MODULE ReportBook ------------------------------
(***************************************************************************)
(* The book of the reports that one node has received (report.rs): who     *)
(* reported which CID, in two tiers, the editors that the user follows and *)
(* everybody else, each under its own bounds.                              *)
(*                                                                         *)
(* The copy of the followed editors and the sorting of the book by it are  *)
(* one step; two of them that overlap are in Denylist (TrustAtRest).  The  *)
(* book is in memory: a restart begins another behaviour.                  *)
(***************************************************************************)
EXTENDS Naturals, FiniteSets

CONSTANTS
    Reported,           \* the CIDs that reports name
    Reporter,           \* the keys that sign them, this node's included
    Me,                 \* this node
    Editors,            \* the reporters that the user may follow
    MaxTrustedCids, MaxOtherCids,   \* CIDs per tier
    MaxReporters,       \* reporters per CID, in the other tier
    MaxReports          \* bound on the reports and changes of editors

ASSUME BookAssumption ==
    /\ Me \in Reporter /\ Editors \subseteq Reporter
    /\ MaxTrustedCids \in Nat /\ MaxOtherCids \in Nat
    /\ MaxReporters \in Nat \ {0} /\ MaxReports \in Nat

VARIABLES
    editors,        \* denylist_issuers: the followed editors
    keys,           \* trusted_keys
    trusted,        \* <<cid, reporter>> of the trusted tier
    others,         \* and of the other one
    reports         \* reports and changes so far

bookVars == <<editors, keys, trusted, others, reports>>

Entry == Reported \X Reporter

Cids(tier) == {e[1] : e \in tier}
Reporters(tier, c) == {e[2] : e \in {d \in tier : d[1] = c}}

BookTypeOK ==
    /\ editors \subseteq Editors /\ keys \subseteq Editors
    /\ trusted \subseteq Entry /\ others \subseteq Entry
    /\ reports \in 0 .. MaxReports

\* ReportBook::with_trusted; a run may begin with part of its bound spent.
BookInit ==
    /\ editors \in SUBSET Editors /\ keys = editors
    /\ trusted = {} /\ others = {}
    /\ reports \in 0 .. MaxReports

\* The refusals of insert_into, in each tier.
TrustedRefuses(tier, e) == e[1] \notin Cids(tier) /\ Cardinality(Cids(tier)) >= MaxTrustedCids

OthersRefuse(tier, e) ==
    \/ e[1] \notin Cids(tier) /\ Cardinality(Cids(tier)) >= MaxOtherCids
    \/ Cardinality(Reporters(tier, e[1])) >= MaxReporters

Happens == reports < MaxReports /\ reports' = reports + 1

\* ReportBook::apply, of a report that verifies
ApplyReport(e) ==
    IF e[2] \in keys
    THEN /\ trusted' = IF TrustedRefuses(trusted, e) THEN trusted ELSE trusted \cup {e}
         /\ UNCHANGED others
    ELSE /\ others' = IF OthersRefuse(others, e) THEN others ELSE others \cup {e}
         /\ UNCHANGED trusted

\* handle_report_message
HearReport(e) ==
    /\ Happens
    /\ e[2] # Me
    /\ ApplyReport(e)
    /\ UNCHANGED <<editors, keys>>

\* emit_report_inner, of a CID that this node's moderation refused
EmitReport(c) ==
    /\ Happens
    /\ ApplyReport(<<c, Me>>)
    /\ UNCHANGED <<editors, keys>>

\* What inserting the arrivals in any order may leave in a tier: as many of them as
\* it does not refuse.  The order is that of a hash map.
TrustedAfter(tier, arrivals) ==
    {t \in {tier \cup A : A \in SUBSET arrivals} :
        /\ Cardinality(Cids(t)) <= MaxTrustedCids \/ t = tier
        /\ \A e \in (tier \cup arrivals) \ t : TrustedRefuses(t, e)}

\* Mutant of OthersAfter: what is demoted is not counted against the bounds.
OthersAfterAll(tier, arrivals) == {tier \cup arrivals}

OthersAfter(tier, arrivals) ==
    {t \in {tier \cup A : A \in SUBSET arrivals} :
        /\ \A e \in t \ tier : Cardinality(Reporters(t, e[1])) <= MaxReporters
        /\ Cardinality(Cids(t)) <= MaxOtherCids \/ t = tier
        /\ \A e \in (tier \cup arrivals) \ t : OthersRefuse(t, e)}

\* Mutant of Retrust: the promoted are inserted before the demoted have left.
RetrustInserting(K) ==
    LET demoted == {e \in trusted : e[2] \notin K}
        promoted == {e \in others : e[2] \in K}
    IN  /\ keys' = K
        /\ \E t \in TrustedAfter(trusted, promoted) : trusted' = t \ demoted
        /\ others' \in OthersAfter(others \ promoted, demoted)

\* Mutant of Retrust: the demoted stay where they are.
RetrustUp(K) ==
    LET promoted == {e \in others : e[2] \in K}
    IN  /\ keys' = K
        /\ trusted' \in TrustedAfter(trusted, promoted)
        /\ others' = others \ promoted

\* ReportBook::retrust: both tiers are drained, then what left one enters the other.
Retrust(K) ==
    LET demoted == {e \in trusted : e[2] \notin K}
        promoted == {e \in others : e[2] \in K}
    IN  /\ keys' = K
        /\ trusted' \in TrustedAfter(trusted \ demoted, promoted)
        /\ others' \in OthersAfter(others \ promoted, demoted)

\* subscribe_denylist_issuer and unsubscribe_denylist_issuer: the set of the followed
\* editors changes first; what another call changed may be sorted along.
Follow(e) ==
    /\ Happens
    /\ editors' = editors \cup {e}
    /\ UNCHANGED <<keys, trusted, others>>

Unfollow(e) ==
    /\ Happens
    /\ editors' = editors \ {e}
    /\ UNCHANGED <<keys, trusted, others>>

\* retrust_reports
RetrustReports ==
    /\ editors # keys
    /\ Retrust(editors)
    /\ UNCHANGED <<editors, reports>>

BookNext ==
    \/ \E e \in Entry : HearReport(e)
    \/ \E c \in Reported : EmitReport(c)
    \/ \E e \in Editors : Follow(e) \/ Unfollow(e)
    \/ RetrustReports

BookSpec == BookInit /\ [][BookNext]_bookVars

-----------------------------------------------------------------------------
(* Properties *)

\* However reports and changes of editors alternate, no tier grows beyond its bounds,
\* also when a change of editors moves many reports into it at once (retrust).
BookBounded ==
    /\ Cardinality(Cids(trusted)) <= MaxTrustedCids
    /\ Cardinality(Cids(others)) <= MaxOtherCids
    /\ \A c \in Reported : Cardinality(Reporters(others, c)) <= MaxReporters

\* The column that resists throwaway keys counts followed editors only and all that the
\* book holds of them: nobody is counted twice or in the column of the others.
TiersMatchKeys ==
    /\ \A e \in trusted : e[2] \in keys
    /\ \A e \in others : e[2] \notin keys

\* A report once in the book is only lost by a change of editors, and only if the tier
\* where its reporter belongs from then on has no room left for it: the places that the
\* same change frees are given away first (the two drains at the top of retrust).
NothingLostForNothing ==
    [][\A e \in trusted \cup others :
           \/ e \in trusted' \cup others'
           \/ e[2] \in keys' \ keys /\ TrustedRefuses(trusted', e)
           \/ e[2] \in keys \ keys' /\ OthersRefuse(others', e)]_bookVars
================================================================================
