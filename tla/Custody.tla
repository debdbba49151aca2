------------------------------- MODULE Custody -------------------------------
(***************************************************************************)
(* What a node promises about the publications it keeps: on what ground it *)
(* takes one, and on what ground one goes.  How it fetches, measures and   *)
(* sweeps is left out.                                                     *)
(*                                                                         *)
(* An entry is a pair <<issuer, content>>.                                 *)
(***************************************************************************)
CONSTANTS
    Issuer, Self,
    Content,        \* what a feed may list
    Own             \* what this node may publish itself

VARIABLES
    heard,          \* issuers with a feed on its way, that were not barred when it came
    offered,        \* offered[i]: what the feed of i lists, as far as the node knows
    barred,         \* issuers that are blocked or banned
    pinned,         \* content that its user wants to keep
    named,          \* entries that a task may ask for later
    begun,          \* entries that a task works towards, without looking again
    chosen,         \* content that is to give way to other content
    purging,        \* issuers whose content is being removed for moderation
    kept            \* the entries that the node keeps and serves

vars == <<heard, offered, barred, pinned, named, begun, chosen, purging, kept>>

Init ==
    /\ heard = {}
    /\ offered = [i \in Issuer |-> {}]
    /\ barred = {} /\ pinned = {} /\ named = {} /\ begun = {} /\ chosen = {}
    /\ purging = {} /\ kept = {}

\* A feed is let in by the bars of the moment, and offers its content later: a bar that
\* comes in between does not stop it.
Hear(i) ==
    /\ i \notin barred
    /\ heard' = heard \cup {i}
    /\ UNCHANGED <<offered, barred, pinned, named, begun, chosen, purging, kept>>

Offer(i) ==
    /\ i \in heard
    /\ heard' \in {heard, heard \ {i}}
    /\ offered' = [offered EXCEPT ![i] = offered'[i]]
    /\ UNCHANGED <<barred, pinned, named, begun, chosen, purging, kept>>

\* Only what is barred is purged, but a purge goes on when the bar is lifted.
Judge ==
    /\ barred' \subseteq Issuer
    /\ purging' \subseteq purging \cup barred'
    /\ UNCHANGED <<heard, offered, pinned, named, begun, chosen, kept>>

Withdraw(i) ==
    /\ i \in purging
    /\ offered' = [offered EXCEPT ![i] = {}]
    /\ purging' \subseteq purging
    /\ UNCHANGED <<heard, barred, pinned, named, begun, chosen, kept>>

\* A task that is through forgets what it was there for.
Forget == named' \subseteq named /\ begun' \subseteq begun

Pin(m) ==
    /\ pinned' \in {pinned \cup {m}, pinned \ {m}}
    /\ Forget
    /\ UNCHANGED <<heard, offered, barred, chosen, purging, kept>>

Fed == {e \in Issuer \X Content : e[2] \in offered[e[1]]}

\* The grounds to begin: the feed of the moment, an earlier feed of an issuer that is
\* not barred, the node's own content.
Ground == Fed \cup {e \in named : e[1] \notin barred} \cup ({Self} \X Own)

\* What is chosen to go is not pinned.
Consider ==
    /\ named' \subseteq named \cup Fed
    /\ begun' \subseteq begun \cup Ground
    /\ chosen' \subseteq chosen \cup (Content \ pinned)
    /\ UNCHANGED <<heard, offered, barred, pinned, purging, kept>>

\* Nothing is taken that was not begun, nor twice; own content is pinned.
Take(i, m) ==
    /\ <<i, m>> \in begun
    /\ \A j \in Issuer : <<j, m>> \notin kept
    /\ kept' = kept \cup {<<i, m>>}
    /\ pinned' \in {pinned, pinned \cup (IF i = Self THEN {m} ELSE {})}
    /\ Forget
    /\ UNCHANGED <<heard, offered, barred, chosen, purging>>

\* A pin is overridden by a purge, or by a choice that was made before it.
Drop ==
    /\ kept' \subseteq kept
    /\ \A e \in kept \ kept' : e[2] \notin pinned \/ e[2] \in chosen \/ e[1] \in purging
    /\ chosen' \subseteq chosen
    /\ UNCHANGED <<heard, offered, barred, pinned, named, begun, purging>>

\* What is kept, pinned or barred outlives a restart, nothing else does.
Restart ==
    /\ heard' = {} /\ offered' = [i \in Issuer |-> {}]
    /\ named' = {} /\ begun' = {} /\ chosen' = {} /\ purging' = {}
    /\ UNCHANGED <<barred, pinned, kept>>

Next ==
    \/ Judge \/ Consider \/ Drop \/ Restart
    \/ \E i \in Issuer : Hear(i) \/ Offer(i) \/ Withdraw(i) \/ \E m \in Content : Take(i, m)
    \/ \E m \in Content : Pin(m)

Spec == Init /\ [][Next]_vars
=============================================================================
