------------------------- MODULE WatchManagerProofs -------------------------
(***************************************************************************)
(* Proofs about WatchManager, for any calendars, lives and outages: no     *)
(* channel that delivers is forgotten, a renewal leaves no gap, and a      *)
(* channel that expired is replaced at the next tick.                      *)
(***************************************************************************)
EXTENDS WatchManager, FiniteSetTheorems, TLAPS

\* A call is about one calendar: the channel it has, or had and is to stop.
CallInv ==
    /\ pc \in {"watch", "stop"} => cur \in Targets \ todo
    /\ pc \notin {"watch", "stop"} => cur = NoChannel /\ old = NoChannel /\ busy = 0
    /\ pc = "watch" => old = channels[cur]
    /\ pc = "stop" => /\ old \in Channels /\ old[1] = cur /\ old # channels[cur]
                      /\ channels[cur] # NoChannel

\* Where Run is tells what is left to do, and whose channel each one is.
RunInv ==
    /\ \A t \in Targets : channels[t] # NoChannel => channels[t][1] = t
    /\ pc \notin {"each", "watch", "stop"} => todo = {}
    /\ pc # "release" => release = {}
    /\ pc \in {"release", "returned"} => done

IInv == TypeOK /\ CallInv /\ RunInv /\ NoneForgotten

\* While the channel it replaces is being stopped, a new channel lives.
NewLives == pc = "stop" => left[channels[cur]] + busy > CallTime

\* Calendars that Run is not about to register or to renew.
Settled == {t \in Targets \ todo : pc = "watch" => t # cur}

\* What calls are left to Run may take, while it registers.
Ahead == Cardinality(todo) + (IF pc = "watch" THEN CallTime - busy ELSE 0)

\* No channel expires before the next tick, nor while Run registers the others.
InTime == (smooth /\ pc \notin {"release", "returned"}) =>
    /\ \A t \in Settled : channels[t] # NoChannel
    /\ ticking => \A t \in Settled : ticked \/ left[channels[t]] >= next
    /\ ~ticking =>
          /\ pc \in {"each", "watch"}
          /\ \A t \in Targets \ Settled : channels[t] = NoChannel
          /\ \A t \in Settled : left[channels[t]] >= RenewSkew + Ahead

----------------------------------------------------------------------------
(* Constants, and the new channel. *)

LEMMA SkewType == RenewSkew \in Nat \ {0} /\ CallTime = 1 /\ Ttl \in Nat \ {0}
BY WatchAssumption DEF RenewSkew, Minute, CallTime

LEMMA ChannelType ==
    /\ \A c \in Channels : c[1] \in Targets
    /\ NoChannel \notin Channels /\ NoChannel \notin Targets
BY WatchAssumption DEF Channels

\* The channel the service registers is one of the calendar, and nobody's.
LEMMA NewSays ==
    ASSUME Watch
    PROVE  /\ New \in Channels /\ New[1] = cur /\ left[New] = 0
           /\ New \notin Known /\ New # old
           /\ \E life \in Lives : left' = [left EXCEPT ![New] = life]
<1>1. New \in Fresh
  BY DEF Watch, New
<1> QED
  BY <1>1 DEF Watch, Fresh

LEMMA InitInv == Init => IInv /\ NewLives
<1> SUFFICES ASSUME Init PROVE IInv /\ NewLives
  OBVIOUS
<1>1. TypeOK
  <2>1. ticking \in BOOLEAN /\ ticked \in BOOLEAN /\ done \in BOOLEAN /\ flaky \in BOOLEAN
        /\ smooth \in BOOLEAN
    BY WatchAssumption, Zenon DEF Init
  <2>2. left \in [Channels -> 0..Ttl] /\ next \in 1..RenewSkew /\ busy \in 0..CallTime
    BY SkewType DEF Init
  <2> QED
    BY <2>1, <2>2 DEF Init, TypeOK
<1>2. CallInv /\ RunInv /\ NoneForgotten /\ NewLives
  BY DEF Init, CallInv, RunInv, NoneForgotten, Live, NewLives
<1> QED
  BY <1>1, <1>2 DEF IInv

----------------------------------------------------------------------------
(* The types, and where Run is. *)

LEMMA TypeStep ==
    ASSUME IInv, [Next]_vars
    PROVE  TypeOK'
<1> USE DEF TypeOK, call, ticker, history, Goto
<1>0. TypeOK
  BY DEF IInv
<1>1. ASSUME NEW t \in todo, Register(t) PROVE TypeOK'
  BY <1>0, <1>1 DEF Register, CallTime
<1>2. ASSUME NEW life \in Lives, NEW c \in Channels, left' = [left EXCEPT ![c] = life]
      PROVE  left' \in [Channels -> 0..Ttl]
  BY <1>0, <1>2, WatchAssumption
<1>3. CASE Registered
  <2>1. left' \in [Channels -> 0..Ttl] /\ New \in Channels
    BY <1>2, <1>3, NewSays DEF Registered
  <2>2. cur' \in Targets \cup {NoChannel} /\ old' \in Channels \cup {NoChannel} /\ busy' \in 0..CallTime
        /\ pc' \in {"each", "stop"}
    BY <1>0, <1>3, SkewType DEF Registered, Returns
  <2>3. channels' \in [Targets -> Channels \cup {NoChannel}]
    BY <1>0, <1>3, <2>1 DEF Registered
  <2> QED
    BY <1>0, <1>3, <2>1, <2>2, <2>3 DEF Registered
<1>4. CASE RegisterFails
  <2>1. left' \in [Channels -> 0..Ttl] /\ unknown' \subseteq Channels
    BY <1>0, <1>2, <1>4, NewSays DEF RegisterFails
  <2>2. smooth' \in BOOLEAN
    BY <1>4, Zenon DEF RegisterFails
  <2> QED
    BY <1>0, <1>4, <2>1, <2>2 DEF RegisterFails, Returns, CallTime
<1>5. CASE StopOld
  <2>1. left \in [Channels -> 0..Ttl] /\ left' = [left EXCEPT ![old] = 0] /\ 0 \in 0..Ttl
    BY <1>0, <1>5, SkewType DEF StopOld
  <2>a. left' \in [Channels -> 0..Ttl]
    BY ONLY <2>1
  <2>2. /\ cur' \in Targets \cup {NoChannel} /\ old' \in Channels \cup {NoChannel}
        /\ busy' \in 0..CallTime /\ pc' = "each"
    BY <1>5, SkewType DEF StopOld, Returns
  <2> QED
    BY <1>0, <1>5, <2>a, <2>2 DEF StopOld
<1>6. CASE StopOldFails
  <2>1. smooth' \in BOOLEAN
    BY <1>6, Zenon DEF StopOldFails
  <2>2. unstopped' \subseteq Channels
    BY <1>0, <1>6, ChannelType DEF StopOldFails, IInv, CallInv
  <2> QED
    BY <1>0, <1>6, <2>1, <2>2 DEF StopOldFails, Returns, CallTime
<1>7. CASE EachDone
  <2>1. ticking' \in BOOLEAN
    BY <1>0, <1>7, Zenon DEF EachDone
  <2> QED
    BY <1>0, <1>7, <2>1, SkewType DEF EachDone
<1>8. CASE RenewExpiring
  <2>1. ticked' \in BOOLEAN
    BY <1>8, Zenon DEF RenewExpiring
  <2> QED
    BY <1>0, <1>8, <2>1 DEF RenewExpiring
<1>9. CASE StopAll
  <2>1. ticking' \in BOOLEAN /\ ticked' \in BOOLEAN
    BY <1>9, Zenon DEF StopAll
  <2> QED
    BY <1>0, <1>9, <2>1 DEF StopAll, Known
<1>10. ASSUME NEW c \in release, Release(c) PROVE TypeOK'
  BY <1>0, <1>10, SkewType DEF Release
<1>11. CASE Return
  BY <1>0, <1>11 DEF Return
<1>12. CASE Cancel \/ OutageEnds
  <2>1. done' \in BOOLEAN /\ flaky' \in BOOLEAN
    BY <1>0, <1>12, Zenon DEF Cancel, OutageEnds
  <2> QED
    BY <1>0, <1>12, <2>1 DEF Cancel, OutageEnds
<1>13. CASE Elapse
  <2>1. left' \in [Channels -> 0..Ttl]
    <3>1. /\ left \in [Channels -> 0..Ttl] /\ Ttl \in Nat
          /\ left' = [c \in Channels |-> IF left[c] = 0 THEN 0 ELSE left[c] - 1]
      BY <1>0, <1>13, SkewType DEF Elapse
    <3> QED
      BY ONLY <3>1
  <2>2. busy' \in 0..CallTime
    BY <1>0, <1>13, SkewType DEF Elapse, Waiting, Calling, IInv, CallInv
  <2>3. next' \in 1..RenewSkew /\ ticked' \in BOOLEAN
    <3>1. ticked' \in BOOLEAN
      BY <1>0, <1>13, Zenon DEF Elapse
    <3>2. next' = next \/ next' = RenewSkew \/ (next # 1 /\ next' = next - 1)
      BY <1>13, Zenon DEF Elapse
    <3> QED
      BY <1>0, <3>1, <3>2, SkewType
  <2>4. unknown' \subseteq Channels /\ unstopped' \subseteq Channels
    BY <1>0, <1>13 DEF Elapse
  <2>5. UNCHANGED <<channels, pc, todo, cur, old, ticking, release, done, flaky, smooth>>
    BY ONLY <1>13, Zenon DEF Elapse
  <2> QED
    BY <1>0, <2>1, <2>2, <2>3, <2>4, <2>5
<1>14. CASE UNCHANGED vars
  BY <1>0, <1>14 DEF vars
<1> QED
  BY <1>1, <1>3, <1>4, <1>5, <1>6, <1>7, <1>8, <1>9, <1>10, <1>11, <1>12, <1>13, <1>14 DEF Next, Run

LEMMA ShapeStep ==
    ASSUME IInv, [Next]_vars
    PROVE  CallInv' /\ RunInv'
<1> USE DEF CallInv, RunInv, call, ticker, history, Goto
<1>0. CallInv /\ RunInv /\ TypeOK
  BY DEF IInv
<1>1. ASSUME NEW t \in todo, Register(t) PROVE CallInv' /\ RunInv'
  BY <1>0, <1>1 DEF Register, TypeOK
<1>2. CASE Registered
  <2>1. New \in Channels /\ New[1] = cur /\ New \notin Known /\ New # old
    BY <1>2, NewSays DEF Registered
  <2>2. channels' = [channels EXCEPT ![cur] = New] /\ channels'[cur] = New
    BY <1>0, <1>2 DEF Registered, TypeOK
  <2>3. RunInv'
    BY <1>0, <1>2, <2>1, <2>2, ChannelType DEF Registered, Returns, TypeOK
  <2>4. CallInv'
    BY <1>0, <1>2, <2>1, <2>2, ChannelType DEF Registered, Returns, TypeOK
  <2> QED
    BY <2>3, <2>4
<1>3. CASE RegisterFails \/ StopOld \/ StopOldFails
  BY <1>0, <1>3 DEF RegisterFails, StopOld, StopOldFails, Returns
<1>4. CASE EachDone \/ RenewExpiring
  BY <1>0, <1>4 DEF EachDone, RenewExpiring
<1>5. CASE StopAll \/ Return
  BY <1>0, <1>5 DEF StopAll, Return, TypeOK
<1>6. ASSUME NEW c \in release, Release(c) PROVE CallInv' /\ RunInv'
  BY <1>0, <1>6 DEF Release
<1>7. CASE Cancel \/ OutageEnds \/ UNCHANGED vars
  BY <1>0, <1>7 DEF Cancel, OutageEnds, vars
<1>8. CASE Elapse
  BY <1>0, <1>8 DEF Elapse, Calling
<1> QED
  BY <1>1, <1>2, <1>3, <1>4, <1>5, <1>6, <1>7, <1>8 DEF Next, Run

----------------------------------------------------------------------------
(* No channel is forgotten. *)

LEMMA ForgottenStep ==
    ASSUME IInv, [Next]_vars
    PROVE  NoneForgotten'
<1> USE DEF NoneForgotten, Live, call, ticker, history, Goto
<1>0. NoneForgotten /\ CallInv /\ RunInv /\ TypeOK
  BY DEF IInv
<1> SUFFICES ASSUME NEW c \in Channels, left'[c] > 0
             PROVE  c \in Known' \cup {old'} \cup release' \cup unknown' \cup unstopped'
  OBVIOUS
<1>a. c # NoChannel
  BY ChannelType
<1> DEFINE Accounted == c \in Known \cup {old} \cup release \cup unknown \cup unstopped
           Still == c \in Known' \cup {old'} \cup release' \cup unknown' \cup unstopped'
<1>1. ASSUME left'[c] = left[c] PROVE Accounted
  BY <1>0, <1>1
<1>2. ASSUME NEW t \in todo, Register(t) PROVE Still
  BY <1>0, <1>1, <1>2, <1>a DEF Register, Known, CallInv
<1>3. CASE Registered
  <2>1. New \in Channels /\ New \notin Known /\ cur \in Targets /\ old = channels[cur]
    BY <1>0, <1>3, NewSays DEF Registered, CallInv
  <2>2. \E life \in Lives : left' = [left EXCEPT ![New] = life]
    BY <1>3, NewSays DEF Registered
  <2>3. channels' = [channels EXCEPT ![cur] = New]
        /\ (old = NoChannel \/ old' = old) /\ UNCHANGED <<release, unknown, unstopped>>
    BY <1>3 DEF Registered
  <2>4. CASE c = New
    <3>1. channels'[cur] = c
      BY <1>0, <2>1, <2>3, <2>4 DEF TypeOK
    <3> QED
      BY <1>a, <2>1, <3>1 DEF Known
  <2>5. CASE c # New
    <3>1. Accounted
      BY <1>0, <1>1, <2>1, <2>2, <2>5 DEF TypeOK
    <3>2. c \in Known /\ c # old => c \in Known'
      BY <1>0, <2>1, <2>3 DEF Known, TypeOK
    <3> QED
      BY <1>a, <2>3, <3>1, <3>2
  <2> QED
    BY <2>4, <2>5
<1>4. CASE RegisterFails
  <2>1. UNCHANGED <<channels, release, unstopped>> /\ pc = "watch"
    BY <1>4 DEF RegisterFails
  <2>2. c = old => c \in Known
    BY <1>0, <1>a, <2>1 DEF CallInv, Known
  <2>3. CASE UNCHANGED <<left, unknown>>
    BY <1>0, <2>1, <2>2, <2>3 DEF Known
  <2>4. CASE Watch /\ unknown' = unknown \cup {New}
    <3>1. New \in Channels /\ \E life \in Lives : left' = [left EXCEPT ![New] = life]
      BY <2>4, NewSays
    <3>2. c # New => left'[c] = left[c]
      BY <1>0, <3>1 DEF TypeOK
    <3> QED
      BY <1>1, <2>1, <2>2, <2>4, <3>2 DEF Known
  <2> QED
    BY <1>4, <2>3, <2>4 DEF RegisterFails
<1>5. CASE StopOld
  <2>1. c # old /\ left'[c] = left[c]
    BY <1>0, <1>5 DEF StopOld, TypeOK
  <2> QED
    BY <1>1, <1>5, <2>1 DEF StopOld, Known
<1>6. CASE StopOldFails
  BY <1>0, <1>1, <1>6 DEF StopOldFails, Known
<1>7. CASE EachDone \/ RenewExpiring \/ Cancel \/ OutageEnds \/ Return
  BY <1>0, <1>1, <1>7 DEF EachDone, RenewExpiring, Cancel, OutageEnds, Return, Known
<1>8. CASE StopAll
  BY <1>0, <1>1, <1>8, <1>a DEF StopAll, CallInv, RunInv
<1>9. ASSUME NEW d \in release, Release(d) PROVE Still
  BY <1>0, <1>1, <1>9 DEF Release, Known, TypeOK
<1>10. CASE Elapse
  <2>1. left[c] > 0
    BY <1>0, <1>10 DEF Elapse, TypeOK
  <2> QED
    BY <1>0, <1>10, <2>1 DEF Elapse, Known
<1>11. CASE UNCHANGED vars
  BY <1>1, <1>11 DEF vars, Known
<1> QED
  BY <1>2, <1>3, <1>4, <1>5, <1>6, <1>7, <1>8, <1>9, <1>10, <1>11 DEF Next, Run

----------------------------------------------------------------------------
(* A new channel outlives the call that stops the one it replaces. *)

LEMMA NewLivesStep ==
    ASSUME IInv, NewLives, [Next]_vars, \A life \in Lives : life > CallTime
    PROVE  NewLives'
<1> USE DEF NewLives, call, ticker, history, Goto
<1>0. NewLives /\ CallInv /\ RunInv /\ TypeOK
  BY DEF IInv
<1>1. CASE Registered
  <2>1. New \in Channels /\ \E life \in Lives : left' = [left EXCEPT ![New] = life]
    BY <1>1, NewSays DEF Registered
  <2>2. left'[New] > CallTime /\ left'[New] \in Nat
    BY <1>0, <2>1, WatchAssumption DEF TypeOK
  <2>3. pc' = "stop" => channels'[cur'] = New /\ busy' = 0
    BY <1>0, <1>1 DEF Registered, Returns, CallInv, TypeOK
  <2> QED
    BY <2>2, <2>3
<1>2. CASE Elapse
  <2> SUFFICES ASSUME pc' = "stop"
               PROVE  left'[channels'[cur']] + busy' > CallTime
    OBVIOUS
  <2>1. pc = "stop" /\ channels' = channels /\ cur' = cur /\ busy < CallTime /\ busy' = busy + 1
    BY <1>2 DEF Elapse, Waiting, Calling
  <2>2. channels[cur] \in Channels
    BY <1>0, <2>1 DEF CallInv, TypeOK
  <2>3. left'[channels[cur]] = IF left[channels[cur]] = 0 THEN 0 ELSE left[channels[cur]] - 1
    BY <1>2, <2>2 DEF Elapse
  <2>4. left[channels[cur]] \in Nat /\ left[channels[cur]] + busy > CallTime /\ busy \in Nat
    BY <1>0, <2>1, <2>2, SkewType DEF TypeOK
  <2> QED
    BY <2>1, <2>3, <2>4, SkewType
<1>3. CASE RegisterFails \/ StopOld \/ StopOldFails \/ EachDone \/ RenewExpiring
  BY <1>3 DEF RegisterFails, StopOld, StopOldFails, EachDone, RenewExpiring, Returns
<1>4. ASSUME NEW t \in todo, Register(t) PROVE NewLives'
  BY <1>4 DEF Register
<1>5. ASSUME NEW c \in release, Release(c) PROVE NewLives'
  BY <1>5 DEF Release
<1>6. CASE StopAll \/ Return
  BY <1>6 DEF StopAll, Return
<1>7. CASE Cancel \/ OutageEnds \/ UNCHANGED vars
  BY <1>0, <1>7 DEF Cancel, OutageEnds, vars
<1> QED
  BY <1>1, <1>2, <1>3, <1>4, <1>5, <1>6, <1>7 DEF Next, Run

\* Only two steps stop a channel, one of them after shutdown began.
LEMMA KeepsStep ==
    ASSUME IInv, NewLives, [Next]_vars
    PROVE  Elapse \/ done \/ \A t \in Targets : Watched(t) => Watched(t)'
<1> USE DEF call, ticker, history
<1>0. NewLives /\ CallInv /\ RunInv /\ TypeOK
  BY DEF IInv
<1> SUFFICES ASSUME ~Elapse, ~done, NEW t \in Targets, Watched(t)
             PROVE  Watched(t)'
  OBVIOUS
<1>1. PICK c \in Channels : c[1] = t /\ left[c] > 0
  BY DEF Watched, Live
<1>2. ASSUME NEW d \in Channels, d[1] = t, left'[d] > 0 PROVE Watched(t)'
  BY <1>2 DEF Watched, Live
<1>3. ASSUME UNCHANGED left PROVE Watched(t)'
  BY <1>1, <1>2, <1>3
<1>4. ASSUME Watch PROVE Watched(t)'
  <2>1. New \in Channels /\ left[New] = 0 /\ \E life \in Lives : left' = [left EXCEPT ![New] = life]
    BY <1>4, NewSays
  <2>2. left'[c] = left[c]
    BY <1>0, <1>1, <2>1 DEF TypeOK
  <2> QED
    BY <1>1, <1>2, <2>2
<1>5. CASE StopOld
  <2>1. /\ pc = "stop" /\ left' = [left EXCEPT ![old] = 0]
        /\ old[1] = cur /\ old # channels[cur] /\ cur \in Targets /\ channels[cur] # NoChannel
    BY <1>0, <1>5 DEF StopOld, CallInv
  <2>2. CASE c = old
    <3>1. channels[cur] \in Channels /\ channels[cur][1] = t
      BY <1>0, <1>1, <2>1, <2>2 DEF TypeOK, RunInv
    <3>2. left[channels[cur]] \in Nat /\ left[channels[cur]] + busy > CallTime /\ busy \in 0..CallTime
      BY <1>0, <2>1, <3>1 DEF TypeOK, NewLives
    <3>3. left'[channels[cur]] = left[channels[cur]]
      BY <1>0, <2>1, <3>1 DEF TypeOK
    <3> QED
      BY <1>2, <3>1, <3>2, <3>3, SkewType
  <2>3. CASE c # old
    BY <1>0, <1>1, <1>2, <2>1, <2>3 DEF TypeOK
  <2> QED
    BY <2>2, <2>3
<1>6. CASE Registered \/ RegisterFails
  BY <1>3, <1>4, <1>6 DEF Registered, RegisterFails
<1>7. CASE StopOldFails \/ EachDone \/ RenewExpiring \/ Cancel \/ OutageEnds \/ UNCHANGED vars
  BY <1>3, <1>7 DEF StopOldFails, EachDone, RenewExpiring, Cancel, OutageEnds, vars
<1>8. ASSUME NEW d \in todo, Register(d) PROVE Watched(t)'
  BY <1>3, <1>8 DEF Register
<1>9. CASE StopAll \/ Return \/ \E d \in release : Release(d)
  BY <1>0, <1>9 DEF StopAll, Return, Release, RunInv
<1> QED
  BY <1>5, <1>6, <1>7, <1>8, <1>9 DEF Next, Run

----------------------------------------------------------------------------
(* No channel expires unseen. *)

\* What is left to do is less than all there is, by every target being done.
LEMMA FewerLeft ==
    ASSUME IsFiniteSet(Targets), NEW S, S \subseteq Targets, NEW t \in Targets
    PROVE  /\ Cardinality(S) \in Nat
           /\ t \notin S => Cardinality(S) <= Cardinality(Targets) - 1
           /\ t \in S => Cardinality(S \ {t}) = Cardinality(S) - 1
<1>1. IsFiniteSet(S) /\ Cardinality(S) \in Nat
  BY FS_Subset, FS_CardinalityType
<1>2. t \in S => Cardinality(S \ {t}) = Cardinality(S) - 1
  BY <1>1, FS_RemoveElement
<1>3. IsFiniteSet(Targets \ {t}) /\ Cardinality(Targets \ {t}) = Cardinality(Targets) - 1
  BY FS_RemoveElement
<1>4. t \notin S => S \subseteq Targets \ {t}
  OBVIOUS
<1>5. t \notin S => Cardinality(S) <= Cardinality(Targets) - 1
  BY <1>3, <1>4, FS_Subset
<1> QED
  BY <1>1, <1>2, <1>5

LEMMA InTimeInit == Init => InTime
BY DEF Init, InTime, Settled

LEMMA InTimeStep ==
    ASSUME IsFiniteSet(Targets),
           \A life \in Lives : life >= RenewSkew + Cardinality(Targets) - 1,
           IInv, InTime, [Next]_vars
    PROVE  InTime'
<1> USE DEF InTime, Settled, Ahead, call, ticker, history, Goto
<1>0. InTime /\ CallInv /\ RunInv /\ TypeOK
  BY DEF IInv
<1>a. /\ \A t \in Targets : channels[t] # NoChannel => channels[t] \in Channels /\ left[channels[t]] \in Nat
      /\ next \in Nat /\ next >= 1 /\ next <= RenewSkew /\ busy \in 0..1
  BY <1>0, SkewType DEF TypeOK
<1>1. ASSUME NEW t \in todo, Register(t) PROVE InTime'
  <2>1. t \in Targets /\ Cardinality(todo) \in Nat /\ Cardinality(todo \ {t}) = Cardinality(todo) - 1
    BY <1>0, FewerLeft DEF TypeOK
  <2>2. /\ pc = "each" /\ pc' = "watch" /\ todo' = todo \ {t} /\ cur' = t /\ busy' = 0
        /\ UNCHANGED <<left, channels, ticking, next, ticked, smooth>>
    BY <1>1 DEF Register
  <2>3. Settled' = Settled
    BY <2>1, <2>2
  <2>4. Ahead' = Ahead
    BY <2>1, <2>2, SkewType
  <2> QED
    BY ONLY <1>0, <2>2, <2>3, <2>4 DEF InTime
<1>2. CASE Registered
  <2>1. PICK life \in Lives : left' = [left EXCEPT ![New] = life]
    BY <1>2, NewSays DEF Registered
  <2>2. New \in Channels /\ New \notin Known /\ cur \in Targets \ todo /\ old = channels[cur]
    BY <1>0, <1>2, NewSays DEF Registered, CallInv
  <2>3. channels' = [channels EXCEPT ![cur] = New] /\ New # NoChannel
        /\ channels'[cur] = New /\ left'[New] = life
    BY <1>0, <1>2, <2>1, <2>2, ChannelType DEF Registered, TypeOK
  <2>4. ASSUME NEW t \in Targets, t # cur, channels[t] # NoChannel
        PROVE  channels'[t] = channels[t] /\ left'[channels'[t]] = left[channels[t]]
    BY <1>0, <1>a, <2>1, <2>2, <2>3, <2>4 DEF TypeOK, Known
  <2>5. life \in Nat /\ life >= RenewSkew + Cardinality(Targets) - 1 /\ life >= RenewSkew + Cardinality(todo)
        /\ Cardinality(todo) \in Nat /\ Cardinality(Targets) \in Nat
    BY <1>0, <2>2, FewerLeft, FS_CardinalityType, WatchAssumption, SkewType DEF TypeOK
  <2>6. /\ pc = "watch" /\ pc' \in {"each", "stop"} /\ (old = NoChannel => pc' = "each")
        /\ UNCHANGED <<todo, ticking, next, ticked, smooth>>
    BY <1>2 DEF Registered, Returns
  <2>7. Settled' = Settled \cup {cur} /\ cur \notin Settled /\ Settled \subseteq Targets
    BY <2>2, <2>6
  <2>8. Ahead' = Cardinality(todo) /\ Ahead' <= Ahead /\ Ahead \in Nat
    BY <1>a, <2>5, <2>6, SkewType
  <2>9. ASSUME smooth PROVE InTime'
    <3>1. \A t \in Settled' : channels'[t] # NoChannel
      BY <1>0, <2>3, <2>4, <2>6, <2>7, <2>9
    <3>2. ASSUME ticking, NEW t \in Settled' PROVE ticked \/ left'[channels'[t]] >= next
      BY <1>0, <1>a, <2>3, <2>4, <2>5, <2>6, <2>7, <2>9, <3>2, SkewType
    <3>3. ASSUME ~ticking PROVE pc' = "each"
      BY <1>0, <2>2, <2>6, <2>7, <2>9, <3>3
    <3>4. ASSUME ~ticking, NEW t \in Targets \ Settled' PROVE channels'[t] = NoChannel
      BY <1>0, <2>3, <2>6, <2>7, <2>9, <3>4 DEF TypeOK
    <3>5. ASSUME ~ticking, NEW t \in Settled' PROVE left'[channels'[t]] >= RenewSkew + Ahead'
      BY <1>0, <1>a, <2>3, <2>4, <2>5, <2>6, <2>7, <2>8, <2>9, <3>5, SkewType
    <3> QED
      BY ONLY <2>6, <3>1, <3>2, <3>3, <3>4, <3>5 DEF InTime
  <2> QED
    BY <2>6, <2>9
<1>3. CASE RegisterFails \/ StopOldFails
  BY <1>3 DEF RegisterFails, StopOldFails
<1>4. CASE StopOld
  <2>1. /\ pc = "stop" /\ pc' = "each" /\ left' = [left EXCEPT ![old] = 0]
        /\ UNCHANGED <<channels, todo, ticking, next, ticked, smooth, done>>
    BY <1>4 DEF StopOld, Returns
  <2>2. old[1] = cur /\ old # channels[cur] /\ Settled' = Settled
    BY <1>0, <2>1 DEF CallInv
  <2>3. ASSUME NEW t \in Settled, channels[t] # NoChannel
        PROVE  left'[channels'[t]] = left[channels[t]]
    BY <1>0, <1>a, <2>1, <2>2, <2>3 DEF RunInv, TypeOK
  <2> QED
    BY <1>0, <2>1, <2>2, <2>3
<1>5. CASE EachDone
  <2>1. /\ pc = "each" /\ pc' = "select" /\ todo = {} /\ Settled' = Settled
        /\ UNCHANGED <<left, channels, todo, ticked, smooth>> /\ ticking'
        /\ ticking => next' = next
        /\ ~ticking => next' = RenewSkew
    BY <1>5, Zenon DEF EachDone
  <2>2. Cardinality(todo) = 0
    BY <2>1, FS_EmptySet
  <2> QED
    BY <1>0, <1>a, <2>1, <2>2, SkewType
<1>6. CASE RenewExpiring
  <2>1. /\ pc = "select" /\ pc' = "each" /\ todo' = {t \in Targets : NeedsRenew(t)}
        /\ ~ticked' /\ UNCHANGED <<left, channels, ticking, next, smooth>>
    BY <1>6, Zenon DEF RenewExpiring
  <2>2. ASSUME NEW t \in Settled' PROVE channels[t] # NoChannel /\ left[channels[t]] >= next
    BY <1>a, <2>1, SkewType DEF NeedsRenew
  <2> QED
    BY <1>0, <2>1, <2>2
<1>7. CASE StopAll \/ Return \/ \E c \in release : Release(c)
  BY <1>7 DEF StopAll, Return, Release
<1>8. CASE Elapse
  <2>1. /\ UNCHANGED <<channels, pc, todo, cur, ticking, smooth>>
        /\ left' = [c \in Channels |-> IF left[c] = 0 THEN 0 ELSE left[c] - 1]
        /\ busy' = IF Calling THEN busy + 1 ELSE busy
        /\ Calling => busy < CallTime
    BY <1>8 DEF Elapse, Waiting, Calling
  <2>2. Settled' = Settled /\ Settled \subseteq Targets
    BY <2>1
  <2>3. ASSUME NEW t \in Settled, channels[t] # NoChannel
        PROVE  /\ left[channels[t]] >= 1 => left'[channels[t]] = left[channels[t]] - 1
               /\ left'[channels[t]] \in Nat
    BY <1>a, <2>1, <2>2, <2>3
  <2>4. ASSUME smooth, pc \notin {"release", "returned"} PROVE InTime'
    <3>1. \A t \in Settled : channels[t] # NoChannel
      BY <1>0, <2>4
    <3>2. ASSUME ticking, NEW t \in Settled PROVE ticked' \/ left'[channels[t]] >= next'
      <4>1. (next = 1 /\ ticked') \/ (next > 1 /\ next' = next - 1 /\ (ticked => ticked'))
        BY <1>8, <1>a, <3>2 DEF Elapse
      <4>2. ticked \/ left[channels[t]] >= next
        BY <1>0, <2>4, <3>2
      <4> QED
        BY <1>a, <2>2, <2>3, <3>1, <4>1, <4>2
    <3>3. ASSUME ~ticking, NEW t \in Settled PROVE left'[channels[t]] >= RenewSkew + Ahead'
      <4>1. pc = "watch" /\ busy = 0 /\ busy' = 1
        BY <1>0, <1>8, <1>a, <2>1, <2>4, <3>3, SkewType DEF Elapse, Waiting, Calling
      <4>2. cur \in Targets /\ Cardinality(todo) \in Nat
        BY <1>0, <4>1, FewerLeft DEF CallInv, TypeOK
      <4>3. Ahead = Cardinality(todo) + 1 /\ Ahead' = Cardinality(todo)
        BY <2>1, <4>1, <4>2, SkewType
      <4>4. left[channels[t]] >= RenewSkew + Ahead
        BY <1>0, <2>4, <3>3
      <4> QED
        BY <1>a, <2>2, <2>3, <3>1, <4>2, <4>3, <4>4, SkewType
    <3>4. ~ticking => pc \in {"each", "watch"} /\ \A t \in Targets \ Settled : channels[t] = NoChannel
      BY <1>0, <2>4
    <3> QED
      BY ONLY <2>1, <2>2, <3>1, <3>2, <3>3, <3>4 DEF InTime
  <2> QED
    BY <2>1, <2>4
<1>9. CASE Cancel \/ OutageEnds \/ UNCHANGED vars
  <2>1. UNCHANGED <<left, channels, pc, todo, cur, busy, ticking, next, ticked, smooth>>
    BY ONLY <1>9, Zenon DEF Cancel, OutageEnds, vars, call, ticker, history
  <2> QED
    BY <1>0, <2>1
<1> QED
  BY <1>1, <1>2, <1>3, <1>4, <1>5, <1>6, <1>7, <1>8, <1>9 DEF Next, Run

----------------------------------------------------------------------------
(* The theorems. *)

\* The inductive invariant: what Run is doing to which channel.
THEOREM Invariant == Spec => []IInv
<1>1. Init => IInv
  BY InitInv
<1>2. IInv /\ [Next]_vars => IInv'
  BY TypeStep, ShapeStep, ForgottenStep DEF IInv
<1> QED
  BY <1>1, <1>2, PTL DEF Spec

\* The manager's map, its ticker and the service's channels have their types.
THEOREM TypeCorrect == Spec => []TypeOK
<1>1. IInv => TypeOK
  BY DEF IInv
<1> QED
  BY <1>1, Invariant, PTL

\* Every channel that still delivers is one the manager has, is about to stop,
\* or one whose registration or stop failed (Manager.register, stopAll).
THEOREM NothingForgotten == Spec => []NoneForgotten
<1>1. IInv => NoneForgotten
  BY DEF IInv
<1> QED
  BY <1>1, Invariant, PTL

\* If the service grants more life than a call may take, then nothing but time
\* and shutdown leaves a calendar without a channel (renewExpiring).
THEOREM RenewalKeepsWatching ==
    (\A life \in Lives : life > CallTime) => (Spec => KeepsWatching)
<1> SUFFICES ASSUME \A life \in Lives : life > CallTime
             PROVE  Spec => KeepsWatching
  OBVIOUS
<1>1. Init => NewLives
  BY InitInv
<1>2. IInv /\ NewLives /\ [Next]_vars => NewLives'
  BY NewLivesStep
<1>3. IInv /\ NewLives /\ [Next]_vars
      => [Elapse \/ done \/ \A t \in Targets : Watched(t) => Watched(t)']_vars
  BY KeepsStep
<1> QED
  BY <1>1, <1>2, <1>3, Invariant, PTL DEF Spec, KeepsWatching

\* If the service grants a life that the first round of registrations leaves
\* enough of, then until a call fails, no channel is missing or expired while
\* the manager waits for its next tick.
THEOREM LapsesEnd ==
    ASSUME IsFiniteSet(Targets),
           \A life \in Lives : life >= RenewSkew + Cardinality(Targets) - 1
    PROVE  Spec => []LapseEnds
<1>1. Init => InTime
  BY InTimeInit
<1>2. IInv /\ InTime /\ [Next]_vars => InTime'
  BY InTimeStep
<1>3. IInv /\ InTime => LapseEnds
  <2> SUFFICES ASSUME IInv, InTime, smooth, pc = "select", ~ticked, NEW t \in Targets
               PROVE  channels[t] # NoChannel /\ Live(channels[t])
    BY DEF LapseEnds
  <2>1. ticking /\ t \in Settled /\ channels[t] # NoChannel /\ left[channels[t]] >= next
    BY DEF IInv, RunInv, InTime, Settled
  <2>2. next \in Nat /\ next >= 1 /\ left[channels[t]] \in Nat
    BY <2>1, SkewType DEF IInv, TypeOK
  <2> QED
    BY <2>1, <2>2 DEF Live
<1> QED
  BY <1>1, <1>2, <1>3, Invariant, PTL DEF Spec
=============================================================================
