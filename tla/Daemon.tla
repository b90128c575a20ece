------------------------------- MODULE Daemon -------------------------------
(***************************************************************************)
(* The run loop (runSync in cmd/calendar-bridge/main.go) with what wakes   *)
(* it, the poll interval and the push path (Receiver and Debouncer,        *)
(* internal/webhook/receiver.go), and with what it tells of itself         *)
(* (syncState, state.go; Registry and /readyz, internal/metrics).          *)
(*                                                                         *)
(* A pass is one listing of the calendars between its start and its end:   *)
(* what it does to them is SyncEngine's.  The calendars are the number of  *)
(* changes their owners made.  Time passes in whole units; the loop does   *)
(* not dawdle, timer callbacks and notifications may.                      *)
(*                                                                         *)
(* FireAny, FireIfWaiting, ObserveEnd, ObserveFirst, EndPassUncancelled,   *)
(* WaitForPush and WaitingForever are seeded faults: what a plausible bug  *)
(* would make of the definition each precedes.                             *)
(***************************************************************************)
EXTENDS Naturals

CONSTANTS
    Interval,       \* of the debouncer, webhook.debounce_interval
    Poll,           \* poll_interval
    PassTime,       \* what a pass may take at most, syncCycleTimeout
    ReadyMaxAge,    \* metrics.ready_max_age
    Flaky,          \* whether passes may fail at first
    MaxChanges,     \* bound: how many changes the calendars' owners make
    MaxPosts        \* bound: how many notifications arrive

ASSUME DaemonAssumption ==
    /\ Interval \in Nat \ {0} /\ Poll \in Nat \ {0} /\ PassTime \in Nat
    /\ ReadyMaxAge \in Nat
    /\ Flaky \in BOOLEAN
    /\ MaxChanges \in Nat /\ MaxPosts \in Nat

VARIABLES
    changes,    \* how often the calendars have changed
    \* Debouncer
    gen,        \* the generation, one for every notification
    armed,      \* the generation whose callback the timer will start, or 0
    left,       \* time to that
    firing,     \* generations whose callbacks have started and wait for the lock
    queued,     \* whether a trigger waits in C
    \* runSync
    loop,       \* where the loop is
    listed,     \* the changes the pass under way has seen, or Unlisted
    spent,      \* time since the pass began, or since the loop began to wait
    lastErr,    \* syncState: whether the last pass failed
    age,        \* Registry: time since the start of the last success, or Never
    done,       \* whether the context is cancelled
    flaky,      \* whether passes may fail, still
    \* history
    seen,       \* the changes the last successful pass saw
    notified,   \* the changes there were at the last notification
    quiet,      \* time since the last notification, at most Interval
    missed,     \* passes that failed since the last success, at most 2
    since       \* time since each change, at most MaxAge

debouncer == <<gen, armed, left, firing, queued>>
report == <<lastErr, age>>
vars == <<changes, debouncer, loop, listed, spent, report, done, flaky,
          seen, notified, quiet, missed, since>>

Unlisted == MaxChanges + 1
MaxAge == ReadyMaxAge + 1
Never == MaxAge + 1

\* metrics.ready_max_age, unless it is configured.
DefaultReadyMaxAge == 3 * Poll

\* What /readyz answers; a ready_max_age of 0 disables the check.
Ready == ReadyMaxAge = 0 \/ age <= ReadyMaxAge

AtMost(n, max) == IF n > max THEN max ELSE n

----------------------------------------------------------------------------
(* Notifications.  One may come at any time, late, twice or for no reason. *)

\* A timer that was armed is stopped; its callback may have started already.
Notify ==
    /\ gen' = gen + 1
    /\ armed' = gen' /\ left' = Interval
    /\ notified' = changes /\ quiet' = 0
    /\ UNCHANGED <<firing, queued>>

\* ServeHTTP: a POST with this token, valid or not, and resource state.
ServeHTTP(valid, state) ==
    /\ gen < MaxPosts
    /\ IF valid /\ state # "sync" THEN Notify
       ELSE UNCHANGED <<debouncer, notified, quiet>>
    /\ UNCHANGED <<changes, loop, listed, spent, report, done, flaky, seen, missed, since>>

\* The timer expires: its callback starts, in a goroutine of its own.
Expire ==
    /\ armed # 0 /\ left = 0
    /\ armed' = 0
    /\ firing' = firing \cup {armed}
    /\ UNCHANGED <<changes, gen, left, queued, loop, listed, spent, report, done, flaky,
                   seen, notified, quiet, missed, since>>

FireAny(g) ==
    /\ g \in firing
    /\ firing' = firing \ {g}
    /\ queued' = TRUE
    /\ UNCHANGED <<changes, gen, armed, left, loop, listed, spent, report, done, flaky,
                   seen, notified, quiet, missed, since>>

FireIfWaiting(g) ==
    /\ g \in firing
    /\ firing' = firing \ {g}
    /\ queued' = (queued \/ (g = gen /\ loop = "wait"))
    /\ UNCHANGED <<changes, gen, armed, left, loop, listed, spent, report, done, flaky,
                   seen, notified, quiet, missed, since>>

\* The callback has the lock: it is discarded if a notification came since.
Fire(g) ==
    /\ g \in firing
    /\ firing' = firing \ {g}
    /\ queued' = (queued \/ g = gen)
    /\ UNCHANGED <<changes, gen, armed, left, loop, listed, spent, report, done, flaky,
                   seen, notified, quiet, missed, since>>

----------------------------------------------------------------------------
(* The loop. *)

Begin ==
    /\ loop = "top" /\ ~done
    /\ loop' = "pass"
    /\ listed' = Unlisted /\ spent' = 0
    /\ UNCHANGED <<changes, debouncer, report, done, flaky, seen, notified, quiet, missed, since>>

List ==
    /\ loop = "pass" /\ listed = Unlisted /\ ~done
    /\ listed' = changes
    /\ UNCHANGED <<changes, debouncer, loop, spent, report, done, flaky,
                   seen, notified, quiet, missed, since>>

ObserveEnd(ok) ==
    /\ lastErr' = ~ok
    /\ age' = IF ok THEN 0 ELSE age

ObserveFirst(ok) ==
    /\ lastErr' = ~ok
    /\ age' = IF ok /\ age = Never THEN AtMost(spent, MaxAge) ELSE age

\* syncState.record and Registry.Observe: the last success is its start.
Observe(ok) ==
    /\ lastErr' = ~ok
    /\ age' = IF ok THEN AtMost(spent, MaxAge) ELSE age

EndPassUncancelled(ok) ==
    /\ loop = "pass"
    /\ IF ok THEN listed # Unlisted ELSE flaky
    /\ Observe(ok)
    /\ seen' = IF ok THEN listed ELSE seen
    /\ missed' = IF ok THEN 0 ELSE AtMost(missed + 1, 2)
    /\ loop' = "wait" /\ spent' = 0
    /\ UNCHANGED <<changes, debouncer, listed, done, flaky, notified, quiet, since>>

\* A pass fails by itself, at its deadline, or because the process is told to end.
EndPass(ok) ==
    /\ loop = "pass"
    /\ IF ok THEN listed # Unlisted ELSE flaky \/ done
    /\ Observe(ok)
    /\ seen' = IF ok THEN listed ELSE seen
    /\ missed' = IF ok THEN 0 ELSE AtMost(missed + 1, 2)
    /\ loop' = "wait" /\ spent' = 0
    /\ UNCHANGED <<changes, debouncer, listed, done, flaky, notified, quiet, since>>

WakeByPush ==
    /\ loop = "wait" /\ queued
    /\ loop' = "top" /\ queued' = FALSE
    /\ UNCHANGED <<changes, gen, armed, left, firing, listed, spent, report, done, flaky,
                   seen, notified, quiet, missed, since>>

WaitForPush == WakeByPush

WakeByPoll ==
    /\ loop = "wait" /\ spent = Poll
    /\ loop' = "top"
    /\ UNCHANGED <<changes, debouncer, listed, spent, report, done, flaky,
                   seen, notified, quiet, missed, since>>

\* Either select sees the cancelled context; the second need not, at once.
Stop ==
    /\ done /\ loop \in {"top", "wait"}
    /\ loop' = "stopped"
    /\ UNCHANGED <<changes, debouncer, listed, spent, report, done, flaky,
                   seen, notified, quiet, missed, since>>

----------------------------------------------------------------------------
(* Around it. *)

Change ==
    /\ changes < MaxChanges
    /\ changes' = changes + 1
    /\ UNCHANGED <<debouncer, loop, listed, spent, report, done, flaky,
                   seen, notified, quiet, missed, since>>

Cancel ==
    /\ ~done /\ done' = TRUE
    /\ UNCHANGED <<changes, debouncer, loop, listed, spent, report, flaky,
                   seen, notified, quiet, missed, since>>

OutageEnds ==
    /\ flaky /\ flaky' = FALSE
    /\ UNCHANGED <<changes, debouncer, loop, listed, spent, report, done,
                   seen, notified, quiet, missed, since>>

WaitingForever ==
    \/ loop = "wait" /\ spent < Poll /\ ~queued /\ ~done
    \/ loop = "pass" /\ ~done
    \/ loop = "stopped"

\* The loop waits for its interval, or a pass for its answers.
Waiting ==
    \/ loop = "wait" /\ spent < Poll /\ ~queued /\ ~done
    \/ loop = "pass" /\ spent < PassTime /\ ~done
    \/ loop = "stopped"

Elapse ==
    /\ Waiting
    /\ left' = IF left = 0 THEN 0 ELSE left - 1
    /\ quiet' = AtMost(quiet + 1, Interval)
    /\ age' = IF age >= MaxAge THEN age ELSE age + 1
    /\ spent' = IF loop = "stopped" THEN spent ELSE spent + 1
    /\ since' = [c \in 1..MaxChanges |->
                    IF c <= changes THEN AtMost(since[c] + 1, MaxAge) ELSE 0]
    /\ UNCHANGED <<changes, gen, armed, firing, queued, loop, listed, lastErr, done, flaky,
                   seen, notified, missed>>

Loop ==
    \/ Begin \/ List
    \/ \E ok \in BOOLEAN : EndPass(ok)
    \/ WakeByPush \/ WakeByPoll
    \/ Stop

Push ==
    \/ \E valid \in BOOLEAN, state \in {"sync", "exists"} : ServeHTTP(valid, state)
    \/ Expire
    \/ \E g \in firing : Fire(g)

Next == Loop \/ Push \/ Change \/ Cancel \/ OutageEnds \/ Elapse

Init ==
    /\ changes = 0
    /\ gen = 0 /\ armed = 0 /\ left = 0 /\ firing = {} /\ queued = FALSE
    /\ loop = "top" /\ listed = Unlisted /\ spent = 0
    /\ lastErr = FALSE /\ age = Never
    /\ done = FALSE /\ flaky = Flaky
    /\ seen = 0 /\ notified = 0 /\ quiet = Interval /\ missed = 0
    /\ since = [c \in 1..MaxChanges |-> 0]

Spec == Init /\ [][Next]_vars

\* The process runs, time passes, and outages end.  Nothing is asked of the
\* notifications or of the timer's callbacks: polling is the safety net.
Fairness == WF_vars(Loop) /\ WF_vars(Elapse) /\ WF_vars(OutageEnds)

FairSpec == Spec /\ Fairness

----------------------------------------------------------------------------
(* Properties. *)

\* The debouncer, the loop and what it reports have their types.
TypeOK ==
    /\ changes \in 0..MaxChanges
    /\ gen \in 0..MaxPosts /\ armed \in 0..MaxPosts /\ left \in 0..Interval
    /\ firing \subseteq 1..MaxPosts /\ queued \in BOOLEAN
    /\ loop \in {"top", "pass", "wait", "stopped"}
    /\ listed \in 0..MaxChanges \cup {Unlisted}
    /\ spent \in Nat /\ (spent <= Poll \/ spent <= PassTime)
    /\ lastErr \in BOOLEAN /\ age \in 0..MaxAge \cup {Never}
    /\ done \in BOOLEAN /\ flaky \in BOOLEAN
    /\ seen \in 0..MaxChanges /\ notified \in 0..MaxChanges
    /\ quiet \in 0..Interval /\ missed \in 0..2
    /\ since \in [1..MaxChanges -> 0..MaxAge]

\* A change that was notified and that no successful pass has seen is on its
\* way: the timer or its callback is, a trigger waits, or the pass that begins
\* or runs will see it.  Only a failed pass leaves it to the poll interval.
NotificationKept == notified > seen /\ ~done =>
    \/ armed = gen \/ gen \in firing \/ queued
    \/ loop = "top"
    \/ loop = "pass" /\ (listed = Unlisted \/ listed >= notified)
    \/ loop = "wait" /\ lastErr

\* "a callback from an older timer generation [...] is discarded rather than
\* emitting early and violating the quiet-period contract" (Debouncer): a
\* trigger is emitted only when the interval passed with no notification.
QuietBeforeTrigger == [][~queued /\ queued' => quiet = Interval]_vars

\* What /readyz goes by is not younger than what the calendars lack: a change
\* no successful pass saw was made after the last successful pass started.
ReadyMeansFresh == \A c \in 1..changes : c > seen => since[c] <= age

\* While passes succeed, and take no longer than the poll interval, the default
\* of three intervals keeps the process ready from its first success on.
ReadyWhenHealthy ==
    (PassTime <= Poll /\ ReadyMaxAge = DefaultReadyMaxAge /\ missed = 0 /\ age # Never
        /\ ~done) => Ready

\* "a missed/late notification never means a permanently-missed change"
\* (runSync): whatever happens to notifications, triggers and callbacks.
EveryChangeSeen == \A c \in 1..MaxChanges : changes = c ~> (seen >= c \/ done)

\* The loop ends once its context is cancelled, in the middle of a pass too.
StopsRunning == done ~> loop = "stopped"
=============================================================================
