---------------------------- MODULE DaemonProofs ----------------------------
(***************************************************************************)
(* Proofs about Daemon: no notified change gets lost between the timer,    *)
(* its callbacks, the queue and the passes; triggers keep the quiet        *)
(* period; and readiness speaks of what was listed.                        *)
(***************************************************************************)
EXTENDS Daemon, TLAPS

\* The timer is armed for the last notification and runs while it is quiet;
\* what a callback of an older generation does is of no account.
TimerInv ==
    /\ armed \in {0, gen} /\ firing \subseteq 1..gen
    /\ armed # 0 => left + quiet = Interval
    /\ gen \in firing => quiet = Interval
    /\ notified <= changes

\* The pass under way listed all that an earlier one saw, and changes that it
\* did not list are younger than it is.
ListedInv ==
    /\ seen <= changes /\ (listed # Unlisted => listed <= changes)
    /\ loop = "pass" => seen <= listed
    /\ \A c \in 1..MaxChanges : c > changes => since[c] = 0
    /\ loop = "pass" /\ listed # Unlisted =>
        \A c \in 1..changes : c > listed => since[c] <= AtMost(spent, MaxAge)

IInv == TypeOK /\ TimerInv /\ NotificationKept /\ ListedInv /\ ReadyMeansFresh

\* How old the last success is, by where the loop is, while passes succeed.
HealthyInv ==
    /\ loop = "pass" => spent <= PassTime
    /\ loop = "wait" => spent <= Poll
    /\ loop = "stopped" => done
    /\ (missed = 0 /\ age # Never /\ ~done) =>
          /\ loop = "wait" => age <= Poll + spent
          /\ loop = "top" => age <= Poll + Poll
          /\ loop = "pass" => age <= Poll + Poll + spent

----------------------------------------------------------------------------

\* The initial state satisfies the invariant.
LEMMA InitInv == Init => IInv
<1> SUFFICES ASSUME Init PROVE IInv
  OBVIOUS
<1> USE DaemonAssumption DEF Init, Unlisted, MaxAge, Never
<1>1. TypeOK
  <2>1. since \in [1..MaxChanges -> 0..MaxAge]
    OBVIOUS
  <2>2. flaky \in BOOLEAN /\ lastErr \in BOOLEAN /\ done \in BOOLEAN /\ queued \in BOOLEAN
    BY Zenon
  <2> QED
    BY <2>1, <2>2 DEF TypeOK
<1>2. TimerInv
  BY DEF TimerInv
<1>3. NotificationKept /\ ListedInv /\ ReadyMeansFresh
  BY DEF NotificationKept, ListedInv, ReadyMeansFresh
<1> QED
  BY <1>1, <1>2, <1>3 DEF IInv

\* Every step keeps the types.
LEMMA TypeStep == TypeOK /\ [Next]_vars => TypeOK'
<1> SUFFICES ASSUME TypeOK, [Next]_vars PROVE TypeOK'
  OBVIOUS
<1> USE DaemonAssumption DEF TypeOK, Unlisted, MaxAge, Never, AtMost, debouncer, report
<1>1. ASSUME NEW valid \in BOOLEAN, NEW state \in {"sync", "exists"}, ServeHTTP(valid, state)
      PROVE  TypeOK'
  <2>1. Notify \/ UNCHANGED <<debouncer, notified, quiet>>
    BY <1>1, Zenon DEF ServeHTTP
  <2>2. gen < MaxPosts /\ UNCHANGED <<changes, loop, listed, spent, lastErr, age, done, flaky,
                                      seen, missed, since>>
    BY <1>1, Zenon DEF ServeHTTP, report
  <2>3. CASE Notify
    BY <2>2, <2>3 DEF Notify
  <2>4. CASE UNCHANGED <<debouncer, notified, quiet>>
    BY <2>2, <2>4
  <2> QED
    BY <2>1, <2>3, <2>4
<1>2. CASE Expire
  BY <1>2 DEF Expire
<1>3. ASSUME NEW g \in firing, Fire(g) PROVE TypeOK'
  BY <1>3 DEF Fire
<1>4. CASE Begin
  BY <1>4 DEF Begin
<1>5. CASE List
  BY <1>5 DEF List
<1>6. ASSUME NEW ok \in BOOLEAN, EndPass(ok) PROVE TypeOK'
  BY <1>6 DEF EndPass, Observe
<1>7. CASE WakeByPush
  BY <1>7 DEF WakeByPush
<1>8. CASE WakeByPoll
  BY <1>8 DEF WakeByPoll
<1>9. CASE Stop
  BY <1>9 DEF Stop
<1>10. CASE Change
  BY <1>10 DEF Change
<1>11. CASE Cancel
  BY <1>11 DEF Cancel
<1>12. CASE OutageEnds
  BY <1>12 DEF OutageEnds
<1>13. CASE Elapse
  <2>1. since' \in [1..MaxChanges -> 0..MaxAge]
    BY <1>13 DEF Elapse
  <2>2. spent' \in Nat /\ (spent' <= Poll \/ spent' <= PassTime)
    BY <1>13 DEF Elapse, Waiting
  <2> QED
    BY <1>13, <2>1, <2>2 DEF Elapse
<1>14. CASE UNCHANGED vars
  BY <1>14 DEF vars
<1> QED
  BY <1>1, <1>2, <1>3, <1>4, <1>5, <1>6, <1>7, <1>8, <1>9, <1>10, <1>11, <1>12, <1>13, <1>14
  DEF Next, Loop, Push

\* The timer: only Notify, Expire, Fire and time touch it.
LEMMA TimerStep == TypeOK /\ TimerInv /\ [Next]_vars => TimerInv'
<1> SUFFICES ASSUME TypeOK, TimerInv, [Next]_vars PROVE TimerInv'
  OBVIOUS
<1> USE DaemonAssumption DEF TypeOK, TimerInv, AtMost, debouncer, report
<1>1. ASSUME NEW valid \in BOOLEAN, NEW state \in {"sync", "exists"}, ServeHTTP(valid, state)
      PROVE  TimerInv'
  <2>1. Notify \/ UNCHANGED <<debouncer, notified, quiet>>
    BY <1>1, Zenon DEF ServeHTTP
  <2>2. gen < MaxPosts /\ UNCHANGED <<changes, loop, listed, spent, lastErr, age, done, flaky,
                                      seen, missed, since>>
    BY <1>1, Zenon DEF ServeHTTP, report
  <2>3. CASE Notify
    BY <2>2, <2>3 DEF Notify
  <2>4. CASE UNCHANGED <<debouncer, notified, quiet>>
    BY <2>2, <2>4
  <2> QED
    BY <2>1, <2>3, <2>4
<1>2. CASE Expire
  BY <1>2 DEF Expire
<1>3. ASSUME NEW g \in firing, Fire(g) PROVE TimerInv'
  BY <1>3 DEF Fire
<1>4. CASE Loop
  BY <1>4 DEF Loop, Begin, List, EndPass, WakeByPush, WakeByPoll, Stop
<1>5. CASE Change \/ Cancel \/ OutageEnds
  <2>1. UNCHANGED <<gen, armed, left, firing, notified, quiet>>
    BY <1>5 DEF Change, Cancel, OutageEnds
  <2>2. changes' = changes \/ changes' = changes + 1
    BY <1>5 DEF Change, Cancel, OutageEnds
  <2> QED
    BY <2>1, <2>2
<1>6. CASE Elapse
  BY <1>6 DEF Elapse
<1>7. CASE UNCHANGED vars
  BY <1>7 DEF vars
<1> QED
  BY <1>1, <1>2, <1>3, <1>4, <1>5, <1>6, <1>7 DEF Next, Push

\* What is on its way stays so until a successful pass saw it.
LEMMA KeptStep ==
  TypeOK /\ TimerInv /\ ListedInv /\ NotificationKept /\ [Next]_vars => NotificationKept'
<1> SUFFICES ASSUME TypeOK, TimerInv, ListedInv, NotificationKept, [Next]_vars
             PROVE  NotificationKept'
  OBVIOUS
<1> USE DaemonAssumption DEF TypeOK, TimerInv, NotificationKept, Unlisted, debouncer, report
<1>1. ASSUME NEW valid \in BOOLEAN, NEW state \in {"sync", "exists"}, ServeHTTP(valid, state)
      PROVE  NotificationKept'
  <2>1. Notify \/ UNCHANGED <<debouncer, notified, quiet>>
    BY <1>1, Zenon DEF ServeHTTP
  <2>2. gen < MaxPosts /\ UNCHANGED <<changes, loop, listed, spent, lastErr, age, done, flaky,
                                      seen, missed, since>>
    BY <1>1, Zenon DEF ServeHTTP, report
  <2>3. CASE Notify
    BY <2>2, <2>3 DEF Notify
  <2>4. CASE UNCHANGED <<debouncer, notified, quiet>>
    BY <2>2, <2>4
  <2> QED
    BY <2>1, <2>3, <2>4
<1>2. CASE Expire
  BY <1>2 DEF Expire
<1>3. ASSUME NEW g \in firing, Fire(g) PROVE NotificationKept'
  BY <1>3 DEF Fire
<1>4. CASE Begin \/ List
  BY <1>4 DEF Begin, List
<1>5. ASSUME NEW ok \in BOOLEAN, EndPass(ok) PROVE NotificationKept'
  <2>1. loop = "pass" /\ UNCHANGED <<gen, armed, firing, queued, notified, done>>
    BY <1>5 DEF EndPass
  <2>2. CASE ok
    <3>1. listed # Unlisted /\ seen' = listed
      BY <1>5, <2>2 DEF EndPass
    <3> QED
      BY <2>1, <3>1 DEF ListedInv
  <2>3. CASE ~ok
    <3>1. loop' = "wait" /\ lastErr'
      BY <1>5, <2>3 DEF EndPass, Observe
    <3> QED
      BY <3>1, Zenon
  <2> QED
    BY <2>2, <2>3
<1>6. CASE WakeByPush \/ WakeByPoll \/ Stop
  BY <1>6 DEF WakeByPush, WakeByPoll, Stop
<1>7. CASE Change \/ Cancel \/ OutageEnds
  <2>1. CASE Change
    BY <2>1 DEF Change
  <2>2. CASE Cancel
    <3>1. done'
      BY <2>2 DEF Cancel
    <3> QED
      BY <3>1, Zenon
  <2>3. CASE OutageEnds
    BY <2>3 DEF OutageEnds
  <2> QED
    BY <1>7, <2>1, <2>2, <2>3
<1>8. CASE Elapse
  BY <1>8 DEF Elapse
<1>9. CASE UNCHANGED vars
  BY <1>9 DEF vars
<1> QED
  BY <1>1, <1>2, <1>3, <1>4, <1>5, <1>6, <1>7, <1>8, <1>9 DEF Next, Loop, Push

\* The age of a change, of a pass and of the last success grow together.
LEMMA FreshStep ==
  TypeOK /\ ListedInv /\ ReadyMeansFresh /\ [Next]_vars => ListedInv' /\ ReadyMeansFresh'
<1> SUFFICES ASSUME TypeOK, ListedInv, ReadyMeansFresh, [Next]_vars
             PROVE  ListedInv' /\ ReadyMeansFresh'
  OBVIOUS
<1> USE DaemonAssumption
    DEF TypeOK, ListedInv, ReadyMeansFresh, Unlisted, MaxAge, Never, AtMost, debouncer, report
<1>1. CASE Push
  BY <1>1 DEF Push, ServeHTTP, Notify, Expire, Fire
<1>2. CASE Begin
  BY <1>2 DEF Begin
<1>3. CASE List
  BY <1>3 DEF List
<1>4. ASSUME NEW ok \in BOOLEAN, EndPass(ok) PROVE ListedInv' /\ ReadyMeansFresh'
  <2>1. /\ loop = "pass" /\ loop' = "wait" /\ listed' = listed
        /\ since' = since /\ changes' = changes
    BY <1>4 DEF EndPass
  <2>2. CASE ok
    <3>1. listed # Unlisted /\ seen' = listed /\ age' = AtMost(spent, MaxAge)
      BY <1>4, <2>2 DEF EndPass, Observe
    <3> QED
      BY <2>1, <3>1
  <2>3. CASE ~ok
    <3>1. seen' = seen /\ age' = age
      BY <1>4, <2>3 DEF EndPass, Observe
    <3> QED
      BY <2>1, <3>1
  <2> QED
    BY <2>2, <2>3
<1>5. CASE WakeByPush \/ WakeByPoll \/ Stop
  BY <1>5 DEF WakeByPush, WakeByPoll, Stop
<1>6. CASE Change
  BY <1>6 DEF Change
<1>7. CASE Cancel \/ OutageEnds
  BY <1>7 DEF Cancel, OutageEnds
<1>8. CASE Elapse
  <2>1. \A c \in 1..MaxChanges :
           since'[c] = IF c <= changes THEN AtMost(since[c] + 1, MaxAge) ELSE 0
    BY <1>8 DEF Elapse
  <2>2. changes' = changes /\ seen' = seen /\ listed' = listed /\ loop' = loop
    BY <1>8 DEF Elapse
  <2>3. ReadyMeansFresh'
    BY <1>8, <2>1, <2>2 DEF Elapse
  <2>4. ListedInv'
    BY <1>8, <2>1, <2>2 DEF Elapse
  <2> QED
    BY <2>3, <2>4
<1>9. CASE UNCHANGED vars
  BY <1>9 DEF vars
<1> QED
  BY <1>1, <1>2, <1>3, <1>4, <1>5, <1>6, <1>7, <1>8, <1>9 DEF Next, Loop

\* A success is at most a pass, an interval and another pass old.
LEMMA HealthyStep ==
    ASSUME PassTime <= Poll, ReadyMaxAge = DefaultReadyMaxAge,
           TypeOK, HealthyInv, [Next]_vars
    PROVE  HealthyInv'
<1> USE DaemonAssumption
    DEF TypeOK, HealthyInv, MaxAge, Never, AtMost, DefaultReadyMaxAge, debouncer, report
<1>1. CASE Push
  <2>1. UNCHANGED <<loop, spent, age, missed, done>>
    BY <1>1 DEF Push, ServeHTTP, Expire, Fire
  <2> QED
    BY <2>1
<1>2. CASE Begin
  <2>1. loop = "top" /\ loop' = "pass" /\ spent' = 0 /\ UNCHANGED <<age, missed, done>>
    BY <1>2 DEF Begin
  <2> QED
    BY <2>1
<1>a. CASE List
  <2>1. UNCHANGED <<loop, spent, age, missed, done>>
    BY <1>a DEF List
  <2> QED
    BY <2>1
<1>3. ASSUME NEW ok \in BOOLEAN, EndPass(ok) PROVE HealthyInv'
  <2>1. loop = "pass" /\ loop' = "wait" /\ spent' = 0 /\ done' = done
    BY <1>3 DEF EndPass
  <2>2. CASE ok
    <3>1. age' = AtMost(spent, MaxAge) /\ spent <= PassTime
      BY <1>3, <2>1, <2>2 DEF EndPass, Observe
    <3> QED
      BY <2>1, <3>1
  <2>3. CASE ~ok
    <3>1. missed' # 0
      BY <1>3, <2>3 DEF EndPass
    <3> QED
      BY <2>1, <3>1
  <2> QED
    BY <2>2, <2>3
<1>4. CASE WakeByPush \/ WakeByPoll \/ Stop
  <2>1. /\ UNCHANGED <<spent, age, missed, done>>
        /\ (loop = "wait" /\ loop' = "top") \/ (done /\ loop' = "stopped")
    BY <1>4 DEF WakeByPush, WakeByPoll, Stop
  <2> QED
    BY <2>1
<1>5. CASE Change \/ Cancel \/ OutageEnds
  BY <1>5 DEF Change, Cancel, OutageEnds
<1>6. CASE Elapse
  <2>1. UNCHANGED <<loop, missed, done>> /\ Waiting
        /\ age' = (IF age >= MaxAge THEN age ELSE age + 1)
        /\ spent' = (IF loop = "stopped" THEN spent ELSE spent + 1)
    BY <1>6 DEF Elapse
  <2>2. age' # Never => age # Never /\ age' <= age + 1
    BY <2>1
  <2> QED
    BY <2>1, <2>2 DEF Waiting
<1>7. CASE UNCHANGED vars
  BY <1>7 DEF vars
<1> QED
  BY <1>1, <1>2, <1>a, <1>3, <1>4, <1>5, <1>6, <1>7 DEF Next, Loop

\* The inductive invariant of the daemon.
THEOREM Invariant == Spec => []IInv
<1>1. Init => IInv
  BY InitInv
<1>2. IInv /\ [Next]_vars => IInv'
  BY TypeStep, TimerStep, KeptStep, FreshStep DEF IInv
<1> QED
  BY <1>1, <1>2, PTL DEF Spec

\* The debouncer, the loop and its report have their types.
THEOREM TypeCorrect == Spec => []TypeOK
<1>1. IInv => TypeOK
  BY DEF IInv
<1> QED
  BY <1>1, Invariant, PTL

\* A notified change stays on its way until a successful pass has seen it, or
\* a failed one left it to the poll interval.
THEOREM NotificationsKept == Spec => []NotificationKept
<1>1. IInv => NotificationKept
  BY DEF IInv
<1> QED
  BY <1>1, Invariant, PTL

\* The last success /readyz goes by never hides an older change.
THEOREM ReadyIsFresh == Spec => []ReadyMeansFresh
<1>1. IInv => ReadyMeansFresh
  BY DEF IInv
<1> QED
  BY <1>1, Invariant, PTL

\* While passes succeed, the default ready_max_age never makes /readyz fail.
THEOREM HealthyIsReady == Spec => []ReadyWhenHealthy
<1>1. CASE PassTime <= Poll /\ ReadyMaxAge = DefaultReadyMaxAge
  <2>1. Init => HealthyInv
    BY DaemonAssumption DEF Init, HealthyInv
  <2>2. IInv /\ HealthyInv /\ [Next]_vars => HealthyInv'
    BY <1>1, HealthyStep DEF IInv
  <2>3. IInv /\ HealthyInv => ReadyWhenHealthy
    BY <1>1, DaemonAssumption
    DEF IInv, TypeOK, HealthyInv, ReadyWhenHealthy, Ready, DefaultReadyMaxAge, MaxAge, Never
  <2> QED
    BY <2>1, <2>2, <2>3, Invariant, PTL DEF Spec
<1>2. CASE ~(PassTime <= Poll /\ ReadyMaxAge = DefaultReadyMaxAge)
  <2>1. ReadyWhenHealthy
    BY <1>2 DEF ReadyWhenHealthy
  <2> QED
    BY <1>2, <2>1, PTL
<1> QED
  BY <1>1, <1>2

\* A trigger is emitted only after a whole interval without a notification,
\* however late callbacks get the lock.
THEOREM QuietPeriod == Spec => QuietBeforeTrigger
<1>1. IInv /\ [Next]_vars => [~queued /\ queued' => quiet = Interval]_vars
  <2> SUFFICES ASSUME IInv, Next, ~queued, queued' PROVE quiet = Interval
    OBVIOUS
  <2>1. PICK g \in firing : Fire(g)
    BY DEF Next, Loop, Push, ServeHTTP, Notify, Expire, Begin, List, EndPass, WakeByPush,
       WakeByPoll, Stop, Change, Cancel, OutageEnds, Elapse, debouncer
  <2>2. g = gen
    BY <2>1 DEF Fire
  <2> QED
    BY <2>2 DEF IInv, TimerInv
<1> QED
  BY <1>1, Invariant, PTL DEF Spec, QuietBeforeTrigger
=============================================================================
