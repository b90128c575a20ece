---------------------------- MODULE WatchManager ----------------------------
(***************************************************************************)
(* Manager (internal/webhook/manager.go) over googleWatcher: one watch     *)
(* channel per calendar, renewed ahead of its expiry, all of them stopped  *)
(* when the process is told to end.                                        *)
(*                                                                         *)
(* Time passes in units of watchCallTimeout (30 seconds), and only while   *)
(* the manager waits, for its ticker or for an answer.  The service gives  *)
(* up on a channel by itself when its life is over.                        *)
(*                                                                         *)
(* RenewSkewUnbounded, RegisterStopsFirst, RegisterUntilItWorks,           *)
(* NeedsRenewLate, NeedsRenewKnown and StopOldForgets are seeded faults:   *)
(* what a plausible bug would make of the definition each precedes.        *)
(***************************************************************************)
EXTENDS Naturals, FiniteSets

CONSTANTS
    Targets,    \* the calendars to watch
    Serials,    \* what tells the channels of one calendar apart
    NoChannel,  \* "no channel"
    Ttl,        \* the life asked for, channel_ttl
    Lives,      \* the lives the service may grant
    Flaky       \* whether calls may fail at first

Minute == 2     \* in units of time
CallTime == 1   \* what a call may take at most, watchCallTimeout

\* Channel IDs; one that nobody knows any more stands for a new one.
Channels == Targets \X Serials

ASSUME WatchAssumption ==
    /\ NoChannel \notin Channels \cup Targets
    /\ Ttl \in Nat \ {0} /\ Lives \subseteq 1..Ttl
    /\ Flaky \in BOOLEAN

VARIABLES
    left,       \* at the service: the time each channel has to live, or 0
    channels,   \* the channel of each calendar, as far as the manager knows
    pc,         \* where Run is
    todo,       \* targets still to register or to renew
    cur,        \* the target being registered
    old,        \* the channel its new one replaces
    busy,       \* how long the call in progress takes already
    ticking,    \* whether the ticker exists
    next,       \* time to its next tick
    ticked,     \* whether a tick waits to be received
    release,    \* channels to stop before Run returns
    done,       \* whether the context is cancelled
    flaky,      \* whether calls may fail, still
    unknown,    \* history: live channels the manager was not told of
    unstopped,  \* history: live channels it failed to stop
    smooth      \* history: whether no call has failed yet

call == <<cur, old, busy>>
ticker == <<ticking, next, ticked>>
history == <<unknown, unstopped, smooth>>
vars == <<left, channels, pc, todo, call, ticker, release, done, flaky, history>>

RenewSkewUnbounded == Ttl \div 10

\* How long before its expiry a channel is due, and how often that is checked.
RenewSkew == IF Ttl \div 10 < Minute THEN Minute ELSE Ttl \div 10

Known == {channels[t] : t \in Targets} \ {NoChannel}

NeedsRenewLate(t) == channels[t] = NoChannel \/ left[channels[t]] = 0
NeedsRenewKnown(t) == channels[t] # NoChannel /\ left[channels[t]] < RenewSkew

\* The check of renewExpiring, at the time at which its loop begins.
NeedsRenew(t) == channels[t] = NoChannel \/ left[channels[t]] < RenewSkew

Goto(l) == pc' = l

\* On to the next target.
Returns ==
    /\ Goto("each")
    /\ cur' = NoChannel /\ old' = NoChannel /\ busy' = 0

----------------------------------------------------------------------------
(* Registration and renewal.  At first there is no channel, and the loop   *)
(* over the targets in Run is the same as the one in renewExpiring.        *)

RegisterStopsFirst(t) ==
    /\ pc = "each" /\ t \in todo
    /\ todo' = todo \ {t}
    /\ cur' = t /\ old' = channels[t] /\ busy' = 0
    /\ left' = [c \in Channels |-> IF c = channels[t] THEN 0 ELSE left[c]]
    /\ Goto("watch")
    /\ UNCHANGED <<channels, ticker, release, done, flaky, history>>

Register(t) ==
    /\ pc = "each" /\ t \in todo
    /\ todo' = todo \ {t}
    /\ cur' = t /\ old' = channels[t] /\ busy' = 0
    /\ Goto("watch")
    /\ UNCHANGED <<left, channels, ticker, release, done, flaky, history>>

\* IDs that nobody knows.  Which of them a new channel gets makes no difference.
Fresh == {c \in Channels : c[1] = cur /\ left[c] = 0 /\ c \notin Known \cup {old}}
New == CHOOSE c \in Fresh : TRUE

\* Bound: a channel is lost only if this leaves two for its calendar.
Spare == Cardinality({c \in Channels : c[1] = cur /\ c \notin unknown \cup unstopped}) > 2

\* The service registers a channel, for as long as it likes.
Watch ==
    /\ Fresh # {}
    /\ \E life \in Lives : left' = [left EXCEPT ![New] = life]

Registered ==
    /\ pc = "watch"
    /\ Watch
    /\ channels' = [channels EXCEPT ![cur] = New]
    /\ IF old = NoChannel THEN Returns
       ELSE Goto("stop") /\ busy' = 0 /\ UNCHANGED <<cur, old>>
    /\ UNCHANGED <<todo, ticker, release, done, flaky, history>>

RegisterUntilItWorks ==
    /\ pc = "watch" /\ (flaky \/ done)
    /\ todo' = todo \cup {cur}
    /\ Returns
    /\ UNCHANGED <<left, channels, ticker, release, done, flaky, history>>

\* The call fails: the channel the manager has, it keeps.
RegisterFails ==
    /\ pc = "watch" /\ (flaky \/ done)
    /\ \/ UNCHANGED <<left, unknown>>
       \/ Spare /\ Watch /\ unknown' = unknown \cup {New}
    /\ smooth' = FALSE
    /\ Returns
    /\ UNCHANGED <<channels, todo, ticker, release, done, flaky, unstopped>>

StopOldForgets ==
    /\ pc = "stop"
    /\ Returns
    /\ UNCHANGED <<left, channels, todo, ticker, release, done, flaky, history>>

\* The channel that was replaced is stopped once the new one is registered.
StopOld ==
    /\ pc = "stop" /\ ~done
    /\ left' = [left EXCEPT ![old] = 0]
    /\ Returns
    /\ UNCHANGED <<channels, todo, ticker, release, done, flaky, history>>

StopOldFails ==
    /\ pc = "stop" /\ (flaky \/ done)
    /\ done \/ Spare \/ left[old] = 0
    /\ unstopped' = IF left[old] > 0 THEN unstopped \cup {old} ELSE unstopped
    /\ smooth' = FALSE
    /\ Returns
    /\ UNCHANGED <<left, channels, todo, ticker, release, done, flaky, unknown>>

EachDone ==
    /\ pc = "each" /\ todo = {}
    /\ Goto("select")
    /\ IF ticking THEN UNCHANGED <<ticking, next>>
       ELSE ticking' = TRUE /\ next' = RenewSkew
    /\ UNCHANGED <<left, channels, todo, call, ticked, release, done, flaky, history>>

RenewExpiring ==
    /\ pc = "select" /\ ticked
    /\ ticked' = FALSE
    /\ todo' = {t \in Targets : NeedsRenew(t)}
    /\ Goto("each")
    /\ UNCHANGED <<left, channels, call, ticking, next, release, done, flaky, history>>

----------------------------------------------------------------------------
(* Shutdown. *)

Cancel ==
    /\ ~done /\ done' = TRUE
    /\ UNCHANGED <<left, channels, pc, todo, call, ticker, release, flaky, history>>

\* stopAll, in a context of its own; the ticker is stopped with it.
StopAll ==
    /\ pc = "select" /\ done
    /\ release' = Known
    /\ channels' = [t \in Targets |-> NoChannel]
    /\ ticking' = FALSE /\ ticked' = FALSE
    /\ Goto("release")
    /\ UNCHANGED <<left, todo, call, next, done, flaky, history>>

Release(c) ==
    /\ pc = "release" /\ c \in release
    /\ release' = release \ {c}
    /\ \/ left' = [left EXCEPT ![c] = 0] /\ UNCHANGED unstopped
       \/ /\ flaky
          /\ unstopped' = IF left[c] > 0 THEN unstopped \cup {c} ELSE unstopped
          /\ UNCHANGED left
    /\ UNCHANGED <<channels, pc, todo, call, ticker, done, flaky, unknown, smooth>>

Return ==
    /\ pc = "release" /\ release = {}
    /\ Goto("returned")
    /\ UNCHANGED <<left, channels, todo, call, ticker, release, done, flaky, history>>

----------------------------------------------------------------------------
(* Time, and the network. *)

Calling == pc \in {"watch", "stop"}

Waiting ==
    \/ pc = "select" /\ ~ticked /\ ~done
    \/ Calling /\ ~done /\ busy < CallTime
    \/ pc = "returned"

\* A tick that was not received yet swallows the next one.
Elapse ==
    /\ Waiting
    /\ left' = [c \in Channels |-> IF left[c] = 0 THEN 0 ELSE left[c] - 1]
    /\ unknown' = {c \in unknown : left'[c] > 0}
    /\ unstopped' = {c \in unstopped : left'[c] > 0}
    /\ busy' = IF Calling THEN busy + 1 ELSE busy
    /\ IF ~ticking THEN UNCHANGED <<next, ticked>>
       ELSE IF next = 1 THEN next' = RenewSkew /\ ticked' = TRUE
       ELSE next' = next - 1 /\ UNCHANGED ticked
    /\ UNCHANGED <<channels, pc, todo, cur, old, ticking, release, done, flaky, smooth>>

OutageEnds ==
    /\ flaky /\ flaky' = FALSE
    /\ UNCHANGED <<left, channels, pc, todo, call, ticker, release, done, history>>

Run ==
    \/ \E t \in todo : Register(t)
    \/ Registered
    \/ RegisterFails
    \/ StopOld \/ StopOldFails
    \/ EachDone
    \/ RenewExpiring
    \/ StopAll
    \/ \E c \in release : Release(c)
    \/ Return

Next == Run \/ Cancel \/ Elapse \/ OutageEnds

Init ==
    /\ left = [c \in Channels |-> 0]
    /\ channels = [t \in Targets |-> NoChannel]
    /\ pc = "each" /\ todo = Targets
    /\ cur = NoChannel /\ old = NoChannel /\ busy = 0
    /\ ticking = FALSE /\ next = RenewSkew /\ ticked = FALSE
    /\ release = {}
    /\ done = FALSE
    /\ flaky = Flaky
    /\ unknown = {} /\ unstopped = {} /\ smooth = TRUE

Spec == Init /\ [][Next]_vars

\* The goroutine runs, a call is answered or times out, and outages end.
Fairness == WF_vars(Run) /\ WF_vars(Elapse) /\ WF_vars(OutageEnds)

FairSpec == Spec /\ Fairness

----------------------------------------------------------------------------
(* Properties. *)

Live(c) == left[c] > 0
Watched(t) == \E c \in Channels : c[1] = t /\ Live(c)

\* The manager's map, its ticker and the service's channels have their types.
TypeOK ==
    /\ left \in [Channels -> 0..Ttl]
    /\ channels \in [Targets -> Channels \cup {NoChannel}]
    /\ pc \in {"each", "watch", "stop", "select", "release", "returned"}
    /\ todo \subseteq Targets /\ cur \in Targets \cup {NoChannel}
    /\ old \in Channels \cup {NoChannel} /\ busy \in 0..CallTime
    /\ ticking \in BOOLEAN /\ next \in 1..RenewSkew /\ ticked \in BOOLEAN
    /\ release \subseteq Channels
    /\ done \in BOOLEAN /\ flaky \in BOOLEAN
    /\ unknown \subseteq Channels /\ unstopped \subseteq Channels /\ smooth \in BOOLEAN

\* However registrations, renewals, failures and shutdown interleave, every
\* channel that still delivers is in the manager's map, about to be stopped, or
\* one whose registration or stop failed: none is forgotten.
NoneForgotten == \A c \in Channels : Live(c) =>
    c \in Known \cup {old} \cup release \cup unknown \cup unstopped

\* Nothing but time and shutdown leaves a calendar without the channel it had:
\* the replacement is registered first (renewExpiring).
KeepsWatching == [][Elapse \/ done \/ \A t \in Targets : Watched(t) => Watched(t)']_vars

\* Until a call fails, a channel that expired is replaced before the manager
\* waits again: a lapse lasts as long as the calls of one renewal.
LapseEnds == (smooth /\ pc = "select" /\ ~ticked /\ ~done) =>
    \A t \in Targets : channels[t] # NoChannel /\ Live(channels[t])

\* Once outages end, push is there again and again for every calendar, those
\* whose first registration failed included, until shutdown.
WatchedAgain == \A t \in Targets : []<>(Watched(t) \/ done)

\* Cancelling the context ends Run, whatever call or renewal is under way.
ShutsDown == done ~> pc = "returned"
=============================================================================
