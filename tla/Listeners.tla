------------------------------- MODULE Listeners -------------------------------
(***************************************************************************)
(* How a front keeps what it shows current (ffi.rs, and gui.rs, which does *)
(* the same without the facade): the node sends a tick after a change on   *)
(* a broadcast channel, a task of the listener receives it, and the front  *)
(* then reads the state again.  Some changes have no tick.                 *)
(*                                                                         *)
(* A broadcast channel keeps its last ticks; a receiver that is late loses *)
(* the oldest and is announced so once (Lagged).  The kinds of listener:        *)
(*   catalog     called on ticks and on Lagged (the one of the seed too)   *)
(*   moderation  called on ticks, goes on after Lagged                     *)
(*   stream      the same, and a tick names the one session to read        *)
(***************************************************************************)
EXTENDS Naturals
LOCAL INSTANCE Sequences

CONSTANTS
    Changer,        \* the tasks of the node that change what is shown
    Subject,        \* the sessions; of the other kinds, what one reading reads
    Retained,       \* capacity of the channel (64)
    MaxTicks        \* bound on the changes

ASSUME ListenersAssumption == Retained \in Nat \ {0} /\ MaxTicks \in Nat

VARIABLES
    kind,           \* of the listener, one in each behaviour
    current,        \* how often each subject has changed
    announced,      \* what it was when its last tick was sent (history)
    owed,           \* what each task has changed and not yet announced
    ticks,          \* what the channel retains for the listener
    lagged,         \* it has lost a tick since it last received
    listener,       \* the task of the listener
    open,           \* the channel has a sender
    rung,           \* what the front has been called to read
    shown,          \* what it read last
    lost            \* sessions whose last tick was lost (history)

frontVars == <<kind, current, announced, owed, ticks, lagged, listener, open, rung, shown, lost>>

FrontTypeOK ==
    /\ kind \in {"catalog", "moderation", "stream"}
    /\ current \in [Subject -> 0 .. MaxTicks] /\ announced \in [Subject -> 0 .. MaxTicks]
    /\ shown \in [Subject -> 0 .. MaxTicks]
    /\ owed \in [Changer -> SUBSET Subject]
    /\ ticks \in Seq(Subject) /\ lagged \in BOOLEAN
    /\ listener \in {"none", "on", "over"} /\ open \in BOOLEAN
    /\ rung \subseteq Subject /\ lost \subseteq Subject

FrontInit ==
    /\ kind \in {"catalog", "moderation", "stream"}
    /\ current = [s \in Subject |-> 0] /\ announced = current /\ shown = current
    /\ owed = [c \in Changer |-> {}]
    /\ ticks = <<>> /\ lagged = FALSE
    /\ listener = "none" /\ open = TRUE
    /\ rung = {} /\ lost = {}

\* The change is made under its lock, the tick is sent once that is let go, if the task
\* comes to it.
ChangeState(c, s) ==
    /\ open /\ owed[c] = {} /\ current[s] < MaxTicks
    /\ current' = [current EXCEPT ![s] = @ + 1]
    /\ owed' = [owed EXCEPT ![c] = {s}]
    /\ UNCHANGED <<kind, announced, ticks, lagged, listener, open, rung, shown, lost>>

\* The task ends with no tick: nothing sends one (pin, unpin, set_seed_quota,
\* unblock_channel), or the call returns before it gets there, after an eviction
\* (seed_publication_inner: no room after all, a fetch that fails, an issuer no longer
\* wanted) or an error (a dotfile that is not written, a purge that fails).
EndUntold(c) ==
    /\ owed[c] # {}
    /\ owed' = [owed EXCEPT ![c] = {}]
    /\ UNCHANGED <<kind, current, announced, ticks, lagged, listener, open, rung, shown, lost>>

\* broadcast::Sender::send: without a receiver the tick is dropped; beyond the capacity
\* the oldest one makes room.
SendTick(c, s) ==
    /\ s \in owed[c]
    /\ owed' = [owed EXCEPT ![c] = {}]
    /\ announced' = [announced EXCEPT ![s] = current[s]]
    /\ IF listener # "on" THEN UNCHANGED <<ticks, lagged, lost>>
       ELSE LET full == Len(ticks) = Retained
                kept == Append(IF full THEN Tail(ticks) ELSE ticks, s)
            IN  /\ ticks' = kept
                /\ lagged' = (lagged \/ full)
                /\ lost' = IF full /\ kind = "stream"
                           THEN (lost \cup {Head(ticks)}) \ {kept[k] : k \in DOMAIN kept}
                           ELSE lost \ {s}
    /\ UNCHANGED <<kind, current, listener, open, rung, shown>>

\* set_*_listener; the front reads everything once it has its listener.
SetListener ==
    /\ open /\ listener = "none"
    /\ listener' = "on" /\ rung' = Subject
    /\ UNCHANGED <<kind, current, announced, owed, ticks, lagged, open, shown, lost>>

ReceiveTick ==
    /\ listener = "on" /\ ~lagged /\ ticks # <<>>
    /\ ticks' = Tail(ticks)
    /\ rung' = rung \cup (IF kind = "stream" THEN {Head(ticks)} ELSE Subject)
    /\ UNCHANGED <<kind, current, announced, owed, lagged, listener, open, shown, lost>>

\* Mutant of ReceiveLagged: Lagged is taken for the end of the channel.
ReceiveLaggedEnds ==
    /\ listener = "on" /\ lagged
    /\ lagged' = FALSE /\ listener' = "over" /\ ticks' = <<>>
    /\ UNCHANGED <<kind, current, announced, owed, open, rung, shown, lost>>

ReceiveLagged ==
    /\ listener = "on" /\ lagged
    /\ lagged' = FALSE
    /\ rung' = IF kind = "catalog" THEN Subject ELSE rung
    /\ UNCHANGED <<kind, current, announced, owed, ticks, listener, open, shown, lost>>

\* The front goes to its own thread, where calls for the same reading merge.
Reread(s) ==
    /\ s \in rung
    /\ rung' = rung \ {s}
    /\ shown' = [shown EXCEPT ![s] = current[s]]
    /\ UNCHANGED <<kind, current, announced, owed, ticks, lagged, listener, open, lost>>

\* The last sender is gone with the node; what was sent before is still received.
CloseChannel ==
    /\ open /\ \A c \in Changer : owed[c] = {}
    /\ open' = FALSE
    /\ UNCHANGED <<kind, current, announced, owed, ticks, lagged, listener, rung, shown, lost>>

ReceiveClosed ==
    /\ listener = "on" /\ ~open /\ ~lagged /\ ticks = <<>>
    /\ listener' = "over"
    /\ UNCHANGED <<kind, current, announced, owed, ticks, lagged, open, rung, shown, lost>>

FrontNext ==
    \/ \E c \in Changer, s \in Subject : ChangeState(c, s) \/ SendTick(c, s)
    \/ \E c \in Changer : EndUntold(c)
    \/ SetListener \/ ReceiveTick \/ ReceiveLagged \/ CloseChannel \/ ReceiveClosed
    \/ \E s \in Subject : Reread(s)

FrontSpec == FrontInit /\ [][FrontNext]_frontVars

-----------------------------------------------------------------------------
(* Properties *)

FrontAtRest ==
    /\ listener # "none" /\ rung = {} /\ ticks = <<>> /\ ~lagged
    /\ \A c \in Changer : owed[c] = {}

\* The ticks "merge": though a late listener loses some, whatever the order of changes,
\* ticks, readings and the registration, a front that was called all its calls shows the
\* node as it was at the last tick or later, and so as it is, unless the last change had
\* none (EndUntold).  The exception is a session whose last tick was lost:
\* set_stream_listener goes on after Lagged and nobody reads stream_status of it again.
FrontIsCurrent == FrontAtRest => \A s \in Subject \ lost : shown[s] >= announced[s]
===============================================================================
