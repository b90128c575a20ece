-------------------------- MODULE SyncEngineProofs --------------------------
(***************************************************************************)
(* Theorems about SyncEngine and SyncHistory, for every set of accounts,   *)
(* events, spans and passes and every bound on the owners' edits: first    *)
(* what holds of single steps, then what the history variables need to     *)
(* know of a pass, then what a pass that runs undisturbed achieves, and    *)
(* last what a dry run counts.                                             *)
(***************************************************************************)
EXTENDS SyncHistory, FiniteSetTheorems, TLAPS

----------------------------------------------------------------------------
(* Events and the calendars. *)

LEMMA EventTypes ==
    /\ Unused \in Event
    /\ Gone \in Event
    /\ NoView \in [Ids -> Event]
    /\ \A a \in Names, s \in Spans, b \in BOOLEAN : RealEvent(a, s, b) \in Event
    /\ \A a \in Names, s \in Spans, src \in Source : Block(a, s, src) \in Event
<1>1. (CHOOSE a \in Names : TRUE) \in Names /\ (CHOOSE s \in Spans : TRUE) \in Spans
  BY EventsAssumption
<1>2. Unused \in Event
  BY <1>1 DEF Unused, Event, Source
<1>3. Gone \in Event
  BY <1>2 DEF Gone, Event
<1> QED
  BY <1>2, <1>3 DEF NoView, RealEvent, Block, Event, Source

LEMMA StoreType ==
    ASSUME CalendarTypeOK, NEW i \in Ids, NEW e \in Event, Store(i, e)
    PROVE  cal' \in [Ids -> Event] /\ etag' \in [Clients -> SUBSET Ids]
BY DEF CalendarTypeOK, Store

LEMMA ReadType ==
    ASSUME CalendarTypeOK, NEW c \in Clients, NEW i \in Ids, ReadETag(c, i)
    PROVE  etag' \in [Clients -> SUBSET Ids]
BY DEF CalendarTypeOK, ReadETag

LEMMA FieldTypes ==
    ASSUME NEW e \in Event
    PROVE  /\ e.acct \in Names /\ e.span \in Spans /\ e.source \in Source
           /\ \A s \in Spans : [e EXCEPT !.span = s] \in Event
           /\ [e EXCEPT !.busy = ~@] \in Event
           /\ [e EXCEPT !.source = NoSource] \in Event
           /\ [e EXCEPT !.owner = FALSE, !.source = NoSource] \in Event
           /\ \A a \in Names : [e EXCEPT !.acct = a] \in Event
BY DEF Event, Source

LEMMA RenamedType ==
    ASSUME NEW c \in [Ids -> Event], NEW a \in Names, NEW b \in Names
    PROVE  Renamed(c, a, b) \in [Ids -> Event]
BY FieldTypes DEF Renamed

LEMMA FreshIds ==
    ASSUME NEW i \in Fresh
    PROVE  i \in Ids /\ cal[i].state = "unused"
BY CalendarAssumption DEF Fresh

LEMMA OwnersType ==
    ASSUME CalendarTypeOK, OwnersAct
    PROVE  CalendarTypeOK'
<1>1. edits' \in 0..MaxEdits /\ config' \in SUBSET Names
  <2>1. edits < MaxEdits /\ edits' = edits + 1
    BY DEF OwnersAct, OwnerEdits, OwnerAdds, OwnerMoves, OwnerFrees, OwnerDeletes,
           OwnerUntags, OwnerMangles, OwnerCopies, Edit
  <2> QED
    BY <2>1, CalendarAssumption DEF CalendarTypeOK, OwnersAct
<1> DEFINE Stored == \E j \in Ids, e \in Event : Store(j, e)
<1>2. Stored
  <2>1. CASE OwnerAdds
    BY <2>1, EventTypes, FreshIds DEF OwnerAdds, CalendarTypeOK
  <2>2. ASSUME NEW i \in Ids, NEW s \in Spans, OwnerMoves(i, s) PROVE Stored
    BY <2>2, FieldTypes DEF OwnerMoves, CalendarTypeOK
  <2>3. ASSUME NEW i \in Ids, OwnerFrees(i) PROVE Stored
    BY <2>3, FieldTypes DEF OwnerFrees, CalendarTypeOK
  <2>4. ASSUME NEW i \in Ids, OwnerDeletes(i) PROVE Stored
    BY <2>4, EventTypes DEF OwnerDeletes, CalendarTypeOK
  <2>5. ASSUME NEW i \in Ids, OwnerUntags(i) PROVE Stored
    BY <2>5, FieldTypes DEF OwnerUntags, CalendarTypeOK
  <2>6. ASSUME NEW i \in Ids, OwnerMangles(i) PROVE Stored
    BY <2>6, FieldTypes DEF OwnerMangles, CalendarTypeOK
  <2>7. ASSUME NEW i \in Ids, OwnerCopies(i) PROVE Stored
    BY <2>7, FreshIds DEF OwnerCopies, CalendarTypeOK
  <2> QED
    BY <2>1, <2>2, <2>3, <2>4, <2>5, <2>6, <2>7 DEF OwnersAct, OwnerEdits
<1> QED
  BY <1>1, <1>2, StoreType DEF CalendarTypeOK

----------------------------------------------------------------------------
(* Type correctness. *)

LEMMA PairTypes ==
    ASSUME TypeOK, PassOK, NEW p \in Clients, pc[p] \in Writing
    PROVE  /\ cur[p] \in Ids \X Names
           /\ Target(p) \in Names
           /\ TargetSpan(p) \in Spans
           /\ TargetSource(p) \in Names \X Ids
           /\ TargetSource(p) \in Source
<1>1. cur[p] \in Ids \X Names /\ view[p][cur[p][1]] \in Event
  BY DEF TypeOK, LocalTypeOK, CalendarTypeOK, PassOK, Knows, ToMirror
<1> QED
  BY <1>1, FieldTypes DEF Target, TargetSpan, TargetSource, Identity, Source

LEMMA FoundTypes ==
    ASSUME NEW d, NEW src, NEW b \in FindBlockBySource(d, src), b # NoId
    PROVE  b \in Ids /\ Mirrors(cal[b], d, src) /\ src # NoSource
BY DEF FindBlockBySource

LEMMA NotFound ==
    ASSUME NEW d, NEW src \in Names \X Ids, NoId \in FindBlockBySource(d, src)
    PROVE  \A i \in Ids : ~Mirrors(cal[i], d, src)
BY CalendarAssumption, EventsAssumption DEF FindBlockBySource

LEMMA CountsType ==
    ASSUME LocalTypeOK, NEW p \in Clients, NEW k \in Counters, Counts(p, k)
    PROVE  res' \in [Clients -> [Counters -> Nat]]
<1>1. res[p] \in [Counters -> Nat]
  BY DEF LocalTypeOK
<1>2. [res[p] EXCEPT ![k] = @ + 1] \in [Counters -> Nat]
  BY <1>1
<1>3. res' = [res EXCEPT ![p] = [res[p] EXCEPT ![k] = @ + 1]]
  BY DEF Counts
<1> QED
  BY <1>2, <1>3 DEF LocalTypeOK

LEMMA ReturnType ==
    ASSUME LocalTypeOK, NEW p \in Clients,
           ReturnErr(p) \/ \E k \in Counters : ReturnOk(p, k)
    PROVE  LocalTypeOK'
<1>1. Return(p) /\ res' \in [Clients -> [Counters -> Nat]] /\ err' \in [Clients -> BOOLEAN]
  <2>1. CASE ReturnErr(p)
    BY <2>1 DEF ReturnErr, Fails, LocalTypeOK
  <2>2. ASSUME NEW k \in Counters, ReturnOk(p, k)
        PROVE  Return(p) /\ res' \in [Clients -> [Counters -> Nat]] /\ err' \in [Clients -> BOOLEAN]
    BY <2>2, CountsType DEF ReturnOk, LocalTypeOK
  <2> QED
    BY <2>1, <2>2
<1>2. pc' \in [Clients -> Locations]
  BY <1>1 DEF Return, Go, LocalTypeOK, Locations
<1>3. /\ cur' \in [Clients -> (Ids \X Names) \cup {NoPair}]
      /\ held' \in [Clients -> Ids \cup {NoId}]
      /\ attempt' \in [Clients -> 0..(MaxAttempts - 1)]
      /\ resent' \in [Clients -> BOOLEAN]
  BY <1>1 DEF Return, NoOp, LocalTypeOK, MaxAttempts
<1>4. UNCHANGED <<todo, healthy, view, work, garbage, flaky>>
  BY <1>1 DEF Return, plan
<1> QED
  BY <1>1, <1>2, <1>3, <1>4 DEF LocalTypeOK

LEMMA ConflictType ==
    ASSUME LocalTypeOK, NEW p \in Clients, NEW l \in Locations, Conflict(p, l)
    PROVE  LocalTypeOK'
<1>1. CASE attempt[p] + 1 < MaxAttempts
  <2>1. attempt' \in [Clients -> 0..(MaxAttempts - 1)]
    <3>1. attempt' = [attempt EXCEPT ![p] = attempt[p] + 1]
      BY <1>1 DEF Conflict
    <3>2. attempt[p] + 1 \in 0..(MaxAttempts - 1)
      BY <1>1 DEF LocalTypeOK, MaxAttempts
    <3> QED
      BY <3>1, <3>2 DEF LocalTypeOK
  <2> QED
    BY <1>1, <2>1 DEF Conflict, Go, plan, LocalTypeOK
<1>2. CASE ~(attempt[p] + 1 < MaxAttempts)
  BY <1>2, ReturnType DEF Conflict
<1> QED
  BY <1>1, <1>2

\* A step of the owners, a rename, the end of an outage, or a stutter.
LEMMA OutsideType ==
    ASSUME TypeOK,
           \/ OutageEnds
           \/ \E a \in Accounts, b \in Spare : Rename(a, b)
           \/ OwnersAct /\ UNCHANGED <<flaky, local>>
           \/ UNCHANGED vars
    PROVE  TypeOK'
<1>1. CASE OutageEnds \/ UNCHANGED vars
  BY <1>1 DEF OutageEnds, TypeOK, LocalTypeOK, CalendarTypeOK, vars, calVars, local, plan, op
<1>2. ASSUME NEW a \in Accounts, NEW b \in Spare, Rename(a, b) PROVE TypeOK'
  <2>1. a \in Names /\ b \in Names
    BY CalendarAssumption, EngineAssumption
  <2>2. cal' \in [Ids -> Event]
    BY <1>2, <2>1, RenamedType DEF Rename, TypeOK, CalendarTypeOK
  <2>3. config' \in SUBSET Names /\ edits' \in 0..MaxEdits
    BY <1>2, <2>1, CalendarAssumption DEF Rename, Edit, TypeOK, CalendarTypeOK
  <2> QED
    BY <1>2, <2>2, <2>3 DEF Rename, TypeOK, LocalTypeOK, CalendarTypeOK, local, plan, op
<1>3. CASE OwnersAct /\ UNCHANGED <<flaky, local>>
  BY <1>3, OwnersType DEF TypeOK, LocalTypeOK, local, plan, op
<1> QED
  BY <1>1, <1>2, <1>3

\* Steps that only read the calendars and compute.
LEMMA PlanningType ==
    ASSUME TypeOK, PassOK, NEW p \in Clients,
           \/ Start(p) \/ TooFewHealthy(p) \/ Propagate(p) \/ Collect(p) \/ Finish(p) \/ Crash(p)
           \/ \E a \in todo[p] : Fetch(p, a) \/ FetchFails(p, a)
           \/ \E b \in garbage[p] : CollectNext(p, b)
    PROVE  TypeOK'
<1> USE DEF TypeOK, LocalTypeOK, CalendarTypeOK
<1>1. CASE Start(p)
  BY <1>1 DEF Start, Go, calVars, op, Locations, Counters, NoWrites
<1>2. CASE TooFewHealthy(p) \/ Finish(p)
  <2>1. End(p) /\ err' \in [Clients -> BOOLEAN]
    BY <1>2 DEF TooFewHealthy, Finish, Fails
  <2>2. /\ pc' \in [Clients -> Locations] /\ healthy' \in [Clients -> SUBSET Names]
        /\ view' \in [Clients -> [Ids -> Event]]
    BY <2>1, EventTypes DEF End, Go, Locations
  <2> QED
    BY <2>1, <2>2 DEF End, calVars, op
<1>3. CASE Propagate(p)
  <2>1. Pairs(p) \in SUBSET (Ids \X Names)
    BY DEF Pairs
  <2> QED
    BY <1>3, <2>1 DEF Propagate, Go, calVars, op, Locations
<1>4. CASE Collect(p)
  <2>1. Stale(p) \in SUBSET Ids
    BY DEF Stale
  <2> QED
    BY <1>4, <2>1 DEF Collect, Go, calVars, op, Locations
<1>5. CASE Crash(p)
  <2>1. /\ cur' \in [Clients -> (Ids \X Names) \cup {NoPair}]
        /\ held' \in [Clients -> Ids \cup {NoId}]
        /\ attempt' \in [Clients -> 0..(MaxAttempts - 1)]
        /\ resent' \in [Clients -> BOOLEAN]
    BY <1>5 DEF Crash, NoOp, MaxAttempts
  <2>2. /\ pc' \in [Clients -> Locations] /\ res' \in [Clients -> [Counters -> Nat]]
        /\ err' \in [Clients -> BOOLEAN] /\ view' \in [Clients -> [Ids -> Event]]
    BY <1>5, EventTypes DEF Crash, Go, Fails, Locations, Counters, NoWrites
  <2> QED
    BY <1>5, <2>1, <2>2 DEF Crash, calVars
<1>6. ASSUME NEW a \in todo[p], Fetch(p, a) \/ FetchFails(p, a) PROVE TypeOK'
  <2>1. a \in Names
    OBVIOUS
  <2>2. [i \in Ids |-> IF i \in ListEvents(a) THEN cal[i] ELSE view[p][i]] \in [Ids -> Event]
    OBVIOUS
  <2>3. CASE Fetch(p, a)
    <3>1. view' \in [Clients -> [Ids -> Event]]
      BY <2>3, <2>2 DEF Fetch
    <3>2. todo' \in [Clients -> SUBSET Names] /\ healthy' \in [Clients -> SUBSET Names]
      BY <2>1, <2>3 DEF Fetch
    <3> QED
      BY <2>3, <3>1, <3>2 DEF Fetch, calVars, op
  <2>4. CASE FetchFails(p, a)
    BY <2>4, <2>1 DEF FetchFails, Fails, calVars, op
  <2> QED
    BY <1>6, <2>3, <2>4
<1>7. ASSUME NEW b \in garbage[p], CollectNext(p, b) PROVE TypeOK'
  <2>1. b \in Ids
    OBVIOUS
  <2>2. res' \in [Clients -> [Counters -> Nat]]
    BY <1>7, CountsType DEF CollectNext, Counters
  <2>3. pc' \in [Clients -> Locations] /\ held' \in [Clients -> Ids \cup {NoId}]
    <3>1. CASE p \in DryRun
      BY <1>7, <3>1 DEF CollectNext
    <3>2. CASE p \notin DryRun
      <4>1. Go(p, "get") /\ held' = [held EXCEPT ![p] = b]
        BY <1>7, <3>2 DEF CollectNext
      <4> QED
        BY <4>1, <2>1 DEF Go, Locations
    <3> QED
      BY <3>1, <3>2
  <2>4. garbage' \in [Clients -> SUBSET Ids]
    BY <1>7 DEF CollectNext
  <2> QED
    BY <1>7, <2>2, <2>3, <2>4 DEF CollectNext, calVars
<1> QED
  BY <1>1, <1>2, <1>3, <1>4, <1>5, <1>6, <1>7

LEMMA EnsureType ==
    ASSUME TypeOK, PassOK, NEW p \in Clients, NEW s \in Ids, NEW d \in healthy[p],
           EnsureIndexed(p, s, d) \/ EnsureLookedUp(p, s, d) \/ EnsureLookupFails(p, s, d)
    PROVE  TypeOK'
<1> USE DEF TypeOK, LocalTypeOK, CalendarTypeOK
<1>1. d \in Names
  OBVIOUS
<1>2. /\ UNCHANGED <<calVars, flaky, todo, healthy, view, garbage>>
      /\ work' \in [Clients -> SUBSET (Ids \X Names)]
  <2>1. UNCHANGED <<calVars, flaky, todo, healthy, view, garbage>> /\ Take(p, s, d)
    BY DEF EnsureIndexed, EnsureLookedUp, EnsureLookupFails
  <2> QED
    BY <2>1 DEF Take
<1> DEFINE Outcome == \/ UNCHANGED <<pc, op, res, err>>
                      \/ UNCHANGED <<pc, op, res>> /\ Fails(p)
                      \/ UNCHANGED <<pc, op, err>> /\ \E k \in Counters : Counts(p, k)
                      \/ \E l \in Locations : Call(p, s, d, l)
<1>3. Outcome
  BY DEF EnsureIndexed, EnsureLookedUp, EnsureLookupFails, Reassert, Counters, Locations
<1>4. CASE UNCHANGED <<pc, op, res, err>> \/ (UNCHANGED <<pc, op, res>> /\ Fails(p))
  BY <1>2, <1>4 DEF Fails, calVars, op
<1>5. ASSUME NEW k \in Counters, Counts(p, k), UNCHANGED <<pc, op, err>> PROVE TypeOK'
  BY <1>2, <1>5, CountsType DEF calVars, op
<1>6. ASSUME NEW l \in Locations, Call(p, s, d, l) PROVE TypeOK'
  BY <1>1, <1>2, <1>6 DEF Call, Go, calVars
<1> QED
  BY <1>3, <1>4, <1>5, <1>6

\* Requests of the provider's write calls.
LEMMA WriteType ==
    ASSUME TypeOK, PassOK, NEW p \in Clients,
           \/ FindFails(p) \/ UpdateReads(p) \/ Put(p) \/ PutUnanswered(p) \/ PutConflict(p)
           \/ PutRefused(p) \/ InsertReads(p) \/ Post(p) \/ PostUnanswered(p)
           \/ PostRefused(p) \/ Reconcile(p) \/ DeleteReads(p) \/ Delete(p)
           \/ DeleteUnanswered(p) \/ DeleteConflict(p) \/ DeleteFindsNothing(p) \/ DeleteRefused(p)
    PROVE  TypeOK'
<1> DEFINE Written == \/ UNCHANGED calVars
                      \/ UNCHANGED <<config, cal, edits>> /\ \E i \in Ids : ReadETag(p, i)
                      \/ UNCHANGED <<config, edits>> /\ \E i \in Ids, e \in Event : Store(i, e)
                      \/ UNCHANGED <<config, cal, etag, edits>>
           Moved == \/ ReturnErr(p)
                    \/ \E k \in Counters : ReturnOk(p, k)
                    \/ \E l \in Locations : Conflict(p, l)
                    \/ /\ UNCHANGED <<flaky, plan, op, res, err>>
                       /\ \E l \in Locations : Go(p, l)
                    \/ /\ UNCHANGED <<flaky, plan, cur, attempt, resent, res, err>>
                       /\ \E l \in Locations : Go(p, l)
                       /\ \E b \in Ids : held' = [held EXCEPT ![p] = b]
                    \/ /\ UNCHANGED <<flaky, pc, plan, cur, held, attempt, res, err>>
                       /\ resent' = [resent EXCEPT ![p] = TRUE]
<1>1. pc[p] \in {"put", "get", "delete"} => held[p] \in Ids /\ cal[held[p]] \in Event
  BY DEF PassOK, Knows, TypeOK, CalendarTypeOK
<1>2. \A s \in Spans, i \in Ids : [cal[i] EXCEPT !.span = s] \in Event
  BY FieldTypes DEF TypeOK, CalendarTypeOK
<1>3. Written
  <2>1. CASE Put(p) \/ PutUnanswered(p)
    <3>1. Store(held[p], [cal[held[p]] EXCEPT !.span = TargetSpan(p)]) /\ UNCHANGED <<config, edits>>
      BY <2>1 DEF Put, PutUnanswered, UpdateEvent
    <3>2. held[p] \in Ids /\ TargetSpan(p) \in Spans
      BY <2>1, <1>1, PairTypes DEF Put, PutUnanswered, Writing
    <3> QED
      BY <3>1, <3>2, <1>2
  <2>2. CASE Delete(p) \/ DeleteUnanswered(p)
    BY <2>2, <1>1, EventTypes DEF Delete, DeleteUnanswered, DeleteEvent
  <2>3. CASE Post(p) \/ PostUnanswered(p)
    <3>1. Block(Target(p), TargetSpan(p), TargetSource(p)) \in Event
      BY <2>3, PairTypes, EventTypes DEF Post, PostUnanswered, Writing
    <3> QED
      BY <2>3, <3>1, FreshIds DEF Post, PostUnanswered, InsertEvent
  <2>4. CASE UpdateReads(p)
    BY <2>4, FoundTypes DEF UpdateReads
  <2>5. CASE DeleteReads(p)
    BY <2>5, <1>1 DEF DeleteReads
  <2>6. CASE \/ FindFails(p) \/ PutConflict(p) \/ PutRefused(p) \/ InsertReads(p)
             \/ PostRefused(p) \/ Reconcile(p) \/ DeleteConflict(p)
             \/ DeleteFindsNothing(p) \/ DeleteRefused(p)
    BY <2>6 DEF FindFails, PutConflict, PutRefused, InsertReads, PostRefused, Reconcile,
                DeleteConflict, DeleteFindsNothing, DeleteRefused
  <2> QED
    BY <2>1, <2>2, <2>3, <2>4, <2>5, <2>6
<1>4. CalendarTypeOK'
  BY <1>3, StoreType, ReadType DEF TypeOK, CalendarTypeOK, calVars
<1>5. Moved
  <2>1. CASE \/ FindFails(p) \/ PutRefused(p) \/ PostRefused(p) \/ DeleteRefused(p)
    BY <2>1 DEF FindFails, PutRefused, PostRefused, DeleteRefused
  <2>2. CASE Put(p) \/ Post(p) \/ Delete(p)
    BY <2>2 DEF Put, Post, Delete, Counters
  <2>3. CASE PutUnanswered(p) \/ DeleteUnanswered(p)
    BY <2>3 DEF PutUnanswered, DeleteUnanswered
  <2>4. CASE PutConflict(p) \/ DeleteConflict(p)
    BY <2>4 DEF PutConflict, DeleteConflict, Locations
  <2>5. CASE UpdateReads(p)
    BY <2>5, FoundTypes DEF UpdateReads, Counters, Locations
  <2>6. CASE InsertReads(p)
    BY <2>6 DEF InsertReads, Counters, Locations
  <2>7. CASE PostUnanswered(p)
    BY <2>7 DEF PostUnanswered, Locations
  <2>8. CASE Reconcile(p)
    BY <2>8 DEF Reconcile, Counters, Locations
  <2>9. CASE DeleteReads(p)
    BY <2>9 DEF DeleteReads, Counters, Locations
  <2>10. CASE DeleteFindsNothing(p)
    BY <2>10 DEF DeleteFindsNothing, Counters
  <2> QED
    BY <2>1, <2>2, <2>3, <2>4, <2>5, <2>6, <2>7, <2>8, <2>9, <2>10
<1>6. LocalTypeOK'
  <2>1. CASE ReturnErr(p) \/ \E k \in Counters : ReturnOk(p, k)
    BY <2>1, ReturnType DEF TypeOK
  <2>2. CASE \E l \in Locations : Conflict(p, l)
    BY <2>2, ConflictType DEF TypeOK
  <2>3. ASSUME NEW l \in Locations, Go(p, l), UNCHANGED <<flaky, plan, op, res, err>>
        PROVE  LocalTypeOK'
    BY <2>3 DEF TypeOK, LocalTypeOK, Go, plan, op
  <2>4. ASSUME NEW l \in Locations, NEW b \in Ids, Go(p, l), held' = [held EXCEPT ![p] = b],
               UNCHANGED <<flaky, plan, cur, attempt, resent, res, err>>
        PROVE  LocalTypeOK'
    BY <2>4 DEF TypeOK, LocalTypeOK, Go, plan
  <2>5. ASSUME resent' = [resent EXCEPT ![p] = TRUE],
               UNCHANGED <<flaky, pc, plan, cur, held, attempt, res, err>>
        PROVE  LocalTypeOK'
    BY <2>5 DEF TypeOK, LocalTypeOK, plan
  <2> QED
    BY <1>5, <2>1, <2>2, <2>3, <2>4, <2>5
<1> QED
  BY <1>4, <1>6 DEF TypeOK

----------------------------------------------------------------------------
(* What a pass knows. *)

\* Only pass p moves, and the configuration stays.
OnlyMoves(p) ==
    /\ config' = config
    /\ \A q \in Clients \ {p} :
          /\ pc'[q] = pc[q] /\ todo'[q] = todo[q] /\ healthy'[q] = healthy[q]
          /\ work'[q] = work[q] /\ view'[q] = view[q] /\ cur'[q] = cur[q] /\ held'[q] = held[q]

LEMMA KnowsFrame ==
    ASSUME PassOK, NEW p \in Clients, OnlyMoves(p), Knows(p)'
    PROVE  PassOK'
<1>1. ASSUME NEW q \in Clients, q # p PROVE Knows(q)'
  BY <1>1 DEF PassOK, OnlyMoves, Knows, ToMirror
<1> QED
  BY <1>1 DEF PassOK

\* The work list shrinks, or not, while the pass moves on to location l.
LEMMA KnowsPlan ==
    ASSUME TypeOK, PassOK, NEW p \in Clients, NEW l \in Locations, Go(p, l), l \notin {"idle", "fetch"},
           config' = config, UNCHANGED <<todo, healthy, view>>,
           todo[p] = {}, work'[p] \subseteq work[p],
           l \notin {"propagate"} \cup Writing => work'[p] = {},
           l \in Writing => ToMirror(p, cur'[p]),
           l \in {"put", "get", "delete"} => held'[p] \in Ids
    PROVE  Knows(p)'
<1>1. pc'[p] = l
  BY DEF Go, TypeOK, LocalTypeOK
<1>2. \A x : ToMirror(p, x)' <=> ToMirror(p, x)
  BY DEF ToMirror
<1>3. \A x \in work'[p] : ToMirror(p, x)'
  BY <1>2 DEF PassOK, Knows
<1>4. l \in Writing => ToMirror(p, cur[p])'
  BY DEF ToMirror
<1> QED
  BY <1>1, <1>3, <1>4 DEF Knows, PassOK

LEMMA PlanningKnows ==
    ASSUME TypeOK, PassOK, NamesOK, NEW p \in Clients,
           \/ Start(p) \/ TooFewHealthy(p) \/ Propagate(p) \/ Collect(p) \/ Finish(p) \/ Crash(p)
           \/ \E a \in todo[p] : Fetch(p, a) \/ FetchFails(p, a)
           \/ \E b \in garbage[p] : CollectNext(p, b)
    PROVE  PassOK'
<1> USE DEF TypeOK, LocalTypeOK
<1>1. CASE Start(p)
  <2>1. OnlyMoves(p)
    BY <1>1 DEF Start, OnlyMoves, Go, calVars, op
  <2>2. pc'[p] = "fetch" /\ todo'[p] = config /\ work[p] = {} /\ healthy[p] = {}
    BY <1>1 DEF Start, Go, PassOK, Knows, Writing
  <2>3. UNCHANGED <<config, healthy, work>>
    BY <1>1 DEF Start, calVars
  <2>4. Knows(p)'
    BY <2>2, <2>3 DEF Knows, Writing
  <2> QED
    BY <2>1, <2>4, KnowsFrame
<1>2. CASE TooFewHealthy(p) \/ Finish(p)
  <2>1. End(p)
    BY <1>2 DEF TooFewHealthy, Finish
  <2>2. OnlyMoves(p)
    BY <2>1 DEF End, OnlyMoves, Go, calVars, op
  <2>3. pc'[p] = "idle" /\ view'[p] = NoView /\ healthy'[p] = {} /\ todo' = todo /\ work' = work
    BY <2>1 DEF End, Go
  <2>4. todo[p] = {} /\ work[p] = {}
    BY <1>2 DEF TooFewHealthy, Finish, PassOK, Knows, Writing
  <2>5. Knows(p)'
    BY <2>3, <2>4 DEF Knows, Writing
  <2> QED
    BY <2>2, <2>5, KnowsFrame
<1>3. CASE Propagate(p)
  <2>1. OnlyMoves(p)
    BY <1>3 DEF Propagate, OnlyMoves, Go, calVars, op
  <2>2. /\ pc'[p] = "propagate" /\ work'[p] = Pairs(p) /\ todo'[p] = {}
        /\ UNCHANGED <<config, todo, healthy, view>>
    BY <1>3 DEF Propagate, Go, calVars
  <2>3. \A x \in Pairs(p) : ToMirror(p, x)
    BY DEF Pairs, ToMirror, PassOK, Knows
  <2>4. \A x \in work'[p] : ToMirror(p, x)'
    BY <2>2, <2>3 DEF ToMirror
  <2>5. Knows(p)'
    BY <2>2, <2>4 DEF Knows, Writing, PassOK
  <2> QED
    BY <2>1, <2>5, KnowsFrame
<1>4. CASE Collect(p)
  <2>1. OnlyMoves(p)
    BY <1>4 DEF Collect, OnlyMoves, Go, calVars, op
  <2>2. Go(p, "collect") /\ UNCHANGED <<config, todo, healthy, view, work>>
    BY <1>4 DEF Collect, calVars
  <2>3. todo[p] = {} /\ work[p] = {}
    BY <1>4 DEF Collect, PassOK, Knows
  <2> QED
    BY <2>1, <2>2, <2>3, KnowsPlan, KnowsFrame DEF Writing, Locations
<1>5. CASE Crash(p)
  <2>1. OnlyMoves(p)
    BY <1>5 DEF Crash, OnlyMoves, Go, NoOp, calVars
  <2>2. /\ pc'[p] = "idle" /\ todo'[p] = {} /\ healthy'[p] = {} /\ work'[p] = {}
        /\ view'[p] = NoView
    BY <1>5 DEF Crash, Go
  <2> QED
    BY <2>1, <2>2, KnowsFrame DEF Knows, Writing
<1>6. ASSUME NEW a \in todo[p], Fetch(p, a) PROVE PassOK'
  <2>1. OnlyMoves(p)
    BY <1>6 DEF Fetch, OnlyMoves, calVars, op
  <2>2. /\ pc'[p] = "fetch" /\ todo'[p] \subseteq config /\ healthy'[p] \subseteq config
        /\ config' = config
    BY <1>6 DEF Fetch, PassOK, Knows, calVars
  <2>3. work'[p] = {}
    BY <1>6, <2>2 DEF Fetch, PassOK, Knows, Writing
  <2> QED
    BY <2>1, <2>2, <2>3, KnowsFrame DEF Knows, Writing
<1>7. ASSUME NEW a \in todo[p], FetchFails(p, a) PROVE PassOK'
  <2>1. OnlyMoves(p)
    BY <1>7 DEF FetchFails, OnlyMoves, calVars, op
  <2>2. /\ pc'[p] = "fetch" /\ todo'[p] \subseteq config /\ healthy'[p] \subseteq config
        /\ UNCHANGED <<config, work, view>>
    BY <1>7 DEF FetchFails, PassOK, Knows, calVars
  <2>3. work'[p] = {}
    BY <1>7, <2>2 DEF FetchFails, PassOK, Knows, Writing
  <2> QED
    BY <2>1, <2>2, <2>3, KnowsFrame DEF Knows, Writing
<1>8. ASSUME NEW b \in garbage[p], CollectNext(p, b) PROVE PassOK'
  <2>1. b \in Ids /\ UNCHANGED <<config, todo, healthy, view, work, cur>>
    BY <1>8 DEF CollectNext, calVars
  <2>2. CASE p \in DryRun
    <3>1. UNCHANGED <<pc, held>>
      BY <1>8, <2>2 DEF CollectNext
    <3> QED
      BY <2>1, <3>1 DEF PassOK, Knows, ToMirror
  <2>3. CASE p \notin DryRun
    <3>1. Go(p, "get") /\ held' = [held EXCEPT ![p] = b]
      BY <1>8, <2>3 DEF CollectNext
    <3>2. OnlyMoves(p) /\ held'[p] = b
      BY <2>1, <3>1 DEF OnlyMoves, Go
    <3>3. todo[p] = {} /\ work[p] = {}
      BY <1>8 DEF CollectNext, PassOK, Knows, Writing
    <3> QED
      BY <2>1, <3>1, <3>2, <3>3, KnowsPlan, KnowsFrame DEF Writing, Locations
  <2> QED
    BY <2>2, <2>3
<1> QED
  BY <1>1, <1>2, <1>3, <1>4, <1>5, <1>6, <1>7, <1>8

LEMMA EnsureKnows ==
    ASSUME TypeOK, PassOK, NEW p \in Clients, NEW s \in Ids, NEW d \in healthy[p],
           EnsureIndexed(p, s, d) \/ EnsureLookedUp(p, s, d) \/ EnsureLookupFails(p, s, d)
    PROVE  PassOK'
<1>1. /\ UNCHANGED <<config, todo, healthy, view>> /\ Take(p, s, d)
  BY DEF EnsureIndexed, EnsureLookedUp, EnsureLookupFails, calVars
<1>2. /\ pc[p] = "propagate" /\ ToMirror(p, <<s, d>>) /\ todo[p] = {}
      /\ work' = [work EXCEPT ![p] = @ \ {<<s, d>>}]
  BY <1>1 DEF Take, PassOK, Knows
<1>3. work'[p] \subseteq work[p] /\ \A q \in Clients \ {p} : work'[q] = work[q]
  BY <1>2 DEF TypeOK, LocalTypeOK
<1>4. \/ UNCHANGED <<pc, op>>
      \/ Call(p, s, d, "update") \/ Call(p, s, d, "insert")
  BY DEF EnsureIndexed, EnsureLookedUp, EnsureLookupFails, Reassert
<1>5. CASE UNCHANGED <<pc, op>>
  <2>1. Knows(p)'
    BY <1>1, <1>2, <1>3, <1>5 DEF op, PassOK, Knows, ToMirror, Writing
  <2>2. OnlyMoves(p)
    BY <1>1, <1>3, <1>5 DEF OnlyMoves, op
  <2> QED
    BY <2>1, <2>2, KnowsFrame
<1>6. ASSUME NEW l \in {"update", "insert"}, Call(p, s, d, l) PROVE PassOK'
  <2>1. Go(p, l) /\ cur' = [cur EXCEPT ![p] = <<s, d>>] /\ UNCHANGED held
    BY <1>6 DEF Call
  <2>2. OnlyMoves(p) /\ cur'[p] = <<s, d>>
    BY <1>1, <1>3, <2>1 DEF OnlyMoves, Go, TypeOK, LocalTypeOK
  <2>3. l \in Locations /\ l \in Writing /\ l \notin {"put", "get", "delete", "idle", "fetch"}
    BY DEF Locations, Writing
  <2> QED
    BY <1>1, <1>2, <1>3, <2>1, <2>2, <2>3, KnowsPlan, KnowsFrame
<1> QED
  BY <1>4, <1>5, <1>6

\* Where a request of a write call takes the pass: back to its work list, or on
\* to another request of the same call.
RequestMoves(p) ==
    \/ Return(p)
    \/ /\ pc[p] \in Writing /\ UNCHANGED <<plan, cur>>
       /\ \/ UNCHANGED held /\ \E l \in {"update", "post", "reconcile"} : Go(p, l)
          \/ Go(p, "put") /\ \E b \in Ids : held' = [held EXCEPT ![p] = b]
    \/ /\ pc[p] \in {"get", "delete"} /\ UNCHANGED <<plan, cur, held>>
       /\ \E l \in {"get", "delete"} : Go(p, l)
    \/ pc[p] \in {"put", "delete"} /\ UNCHANGED <<plan, pc, cur, held>>

LEMMA RequestSteps ==
    ASSUME NEW p \in Clients,
           \/ FindFails(p) \/ UpdateReads(p) \/ Put(p) \/ PutUnanswered(p) \/ PutConflict(p)
           \/ PutRefused(p) \/ InsertReads(p) \/ Post(p) \/ PostUnanswered(p)
           \/ PostRefused(p) \/ Reconcile(p) \/ DeleteReads(p) \/ Delete(p)
           \/ DeleteUnanswered(p) \/ DeleteConflict(p) \/ DeleteFindsNothing(p) \/ DeleteRefused(p)
    PROVE  RequestMoves(p) /\ config' = config /\ (pc[p] \in Writing \/ pc[p] \in {"get", "delete"})
<1>1. CASE FindFails(p) \/ PutRefused(p) \/ PostRefused(p) \/ DeleteRefused(p) \/ DeleteFindsNothing(p)
  BY <1>1 DEF RequestMoves, Writing, FindFails, PutRefused, PostRefused, DeleteRefused, DeleteFindsNothing,
              ReturnOk, ReturnErr, calVars
<1>2. CASE Put(p) \/ Post(p) \/ Delete(p)
  BY <1>2 DEF RequestMoves, Writing, Put, Post, Delete, ReturnOk
<1>3. CASE PutUnanswered(p) \/ DeleteUnanswered(p)
  BY <1>3 DEF RequestMoves, Writing, PutUnanswered, DeleteUnanswered
<1>4. CASE PutConflict(p)
  BY <1>4 DEF RequestMoves, PutConflict, Conflict, ReturnErr, Writing, calVars
<1>5. CASE DeleteConflict(p)
  BY <1>5 DEF RequestMoves, DeleteConflict, Conflict, ReturnErr, calVars
<1>6. CASE UpdateReads(p)
  BY <1>6, FoundTypes DEF RequestMoves, UpdateReads, ReturnOk, Writing, calVars
<1>7. CASE InsertReads(p)
  BY <1>7 DEF RequestMoves, InsertReads, ReturnOk, Writing, op, calVars
<1>8. CASE PostUnanswered(p)
  BY <1>8 DEF RequestMoves, PostUnanswered, Writing, op
<1>9. CASE Reconcile(p)
  BY <1>9 DEF RequestMoves, Reconcile, ReturnOk, ReturnErr, Writing, op, calVars
<1>10. CASE DeleteReads(p)
  BY <1>10 DEF RequestMoves, DeleteReads, ReturnOk, ReturnErr, op, calVars
<1> QED
  BY <1>1, <1>2, <1>3, <1>4, <1>5, <1>6, <1>7, <1>8, <1>9, <1>10

\* What a request of a write call may do to what the pass knows.
LEMMA WriteKnows ==
    ASSUME TypeOK, PassOK, NEW p \in Clients,
           \/ FindFails(p) \/ UpdateReads(p) \/ Put(p) \/ PutUnanswered(p) \/ PutConflict(p)
           \/ PutRefused(p) \/ InsertReads(p) \/ Post(p) \/ PostUnanswered(p)
           \/ PostRefused(p) \/ Reconcile(p) \/ DeleteReads(p) \/ Delete(p)
           \/ DeleteUnanswered(p) \/ DeleteConflict(p) \/ DeleteFindsNothing(p) \/ DeleteRefused(p)
    PROVE  PassOK' /\ UNCHANGED <<config, plan>>
<1> DEFINE Goes(l) == Go(p, l) /\ UNCHANGED <<config, plan>>
           Writes == pc[p] \in Writing
           Deletes == pc[p] \in {"get", "delete"}
<1>1. \/ Return(p) /\ UNCHANGED config
      \/ Writes /\ UNCHANGED <<cur, held>> /\ (Goes("update") \/ Goes("post") \/ Goes("reconcile"))
      \/ Writes /\ UNCHANGED cur /\ Goes("put") /\ \E b \in Ids : held' = [held EXCEPT ![p] = b]
      \/ Deletes /\ UNCHANGED <<cur, held>> /\ (Goes("get") \/ Goes("delete"))
      \/ UNCHANGED <<config, plan, pc, cur, held>>
  BY RequestSteps DEF RequestMoves
<1>2. UNCHANGED <<config, todo, healthy, view, work>> /\ UNCHANGED plan
  BY <1>1 DEF Return, plan
<1>3. Writes \/ Deletes
  BY RequestSteps
<1>4. /\ todo[p] = {} /\ (Writes => ToMirror(p, cur[p]))
      /\ Deletes => held[p] \in Ids /\ work[p] = {}
  BY <1>3 DEF PassOK, Knows, Writing
<1>5. CASE Return(p)
  <2>1. OnlyMoves(p)
    BY <1>2, <1>5 DEF Return, OnlyMoves, Go, NoOp
  <2>2. CASE Deletes
    BY <1>2, <1>4, <1>5, <2>1, <2>2, KnowsPlan, KnowsFrame DEF Return, Locations, Writing
  <2>3. CASE ~Deletes
    BY <1>2, <1>4, <1>5, <2>1, <2>3, KnowsPlan, KnowsFrame DEF Return, Locations, Writing
  <2> QED
    BY <2>2, <2>3
<1>6. ASSUME Writes, UNCHANGED <<cur, held>>, NEW l \in {"update", "post", "reconcile"}, Goes(l)
      PROVE  PassOK'
  <2>1. OnlyMoves(p)
    BY <1>2, <1>6 DEF OnlyMoves, Go
  <2> QED
    BY <1>2, <1>4, <1>6, <2>1, KnowsPlan, KnowsFrame DEF Locations, Writing
<1>7. ASSUME Writes, UNCHANGED cur, Goes("put"), NEW b \in Ids, held' = [held EXCEPT ![p] = b]
      PROVE  PassOK'
  <2>1. OnlyMoves(p) /\ held'[p] = b
    BY <1>2, <1>7 DEF OnlyMoves, Go, TypeOK, LocalTypeOK
  <2> QED
    BY <1>2, <1>4, <1>7, <2>1, KnowsPlan, KnowsFrame DEF Locations, Writing
<1>8. ASSUME Deletes, UNCHANGED <<cur, held>>, NEW l \in {"get", "delete"}, Goes(l)
      PROVE  PassOK'
  <2>1. OnlyMoves(p)
    BY <1>2, <1>8 DEF OnlyMoves, Go
  <2> QED
    BY <1>2, <1>4, <1>8, <2>1, KnowsPlan, KnowsFrame DEF Locations, Writing
<1>9. CASE UNCHANGED <<config, plan, pc, cur, held>>
  BY <1>2, <1>9 DEF PassOK, Knows, ToMirror
<1> QED
  BY <1>1, <1>2, <1>5, <1>6, <1>7, <1>8, <1>9

----------------------------------------------------------------------------
(* ETags. *)

\* Either nothing is written, or event i is, and its ETags are out of date.
Writes(i) == \E e \in Event : Store(i, e)

LEMMA HoldsFrame ==
    ASSUME TypeOK, NEW q \in Clients, HoldsOwn(q),
           pc'[q] = pc[q], held'[q] = held[q],
           \/ cal' = cal /\ etag'[q] = etag[q]
           \/ \E i \in Ids : Writes(i)
    PROVE  HoldsOwn(q)'
<1>1. CASE cal' = cal /\ etag'[q] = etag[q]
  BY <1>1 DEF HoldsOwn, Matches
<1>2. ASSUME NEW i \in Ids, NEW e \in Event, Store(i, e) PROVE HoldsOwn(q)'
  <2>1. etag'[q] = etag[q] \ {i} /\ \A j \in Ids \ {i} : cal'[j] = cal[j]
    BY <1>2 DEF Store, TypeOK, CalendarTypeOK
  <2>2. Matches(q, held[q])' => held[q] # i /\ held[q] \in Ids /\ Matches(q, held[q])
    BY <2>1 DEF Matches, TypeOK, CalendarTypeOK
  <2> QED
    BY <2>1, <2>2 DEF HoldsOwn, Matches
<1> QED
  BY <1>1, <1>2 DEF Writes

\* Calendar steps of pass p that are not writes of its own leave ETagOK alone.
LEMMA PlanningETag ==
    ASSUME TypeOK, ETagOK, NEW p \in Clients, UNCHANGED <<cal, etag>>,
           \A q \in Clients \ {p} : pc'[q] = pc[q] /\ held'[q] = held[q],
           pc'[p] \notin {"put", "delete"} \/ (pc'[p] = pc[p] /\ held'[p] = held[p])
    PROVE  ETagOK'
BY HoldsFrame DEF ETagOK, HoldsOwn

LEMMA OthersStay ==
    ASSUME TypeOK, NEW p \in Clients,
           Pass(p) \/ Crash(p)
    PROVE  \A q \in Clients \ {p} : pc'[q] = pc[q] /\ held'[q] = held[q]
<1> USE DEF TypeOK, LocalTypeOK, Go, op
<1>1. CASE Start(p) \/ TooFewHealthy(p) \/ Propagate(p) \/ Collect(p) \/ Finish(p) \/ Crash(p)
  BY <1>1 DEF Start, TooFewHealthy, Propagate, Collect, Finish, End, Crash, NoOp
<1>2. ASSUME NEW a \in todo[p], Fetch(p, a) \/ FetchFails(p, a)
      PROVE  \A q \in Clients \ {p} : pc'[q] = pc[q] /\ held'[q] = held[q]
  BY <1>2 DEF Fetch, FetchFails
<1>3. ASSUME NEW b \in garbage[p], CollectNext(p, b)
      PROVE  \A q \in Clients \ {p} : pc'[q] = pc[q] /\ held'[q] = held[q]
  <2>1. UNCHANGED <<pc, held>> \/ (Go(p, "get") /\ held' = [held EXCEPT ![p] = b])
    BY <1>3 DEF CollectNext
  <2> QED
    BY <2>1
<1>4. ASSUME NEW s \in Ids, NEW d \in healthy[p],
             EnsureIndexed(p, s, d) \/ EnsureLookedUp(p, s, d) \/ EnsureLookupFails(p, s, d)
      PROVE  \A q \in Clients \ {p} : pc'[q] = pc[q] /\ held'[q] = held[q]
  <2>1. UNCHANGED <<pc, op>> \/ Call(p, s, d, "update") \/ Call(p, s, d, "insert")
    BY <1>4 DEF EnsureIndexed, EnsureLookedUp, EnsureLookupFails, Reassert
  <2> QED
    BY <2>1 DEF Call
<1>5. ASSUME Return(p) \/ ReturnErr(p) \/ (\E k \in Counters : ReturnOk(p, k))
             \/ Conflict(p, "update") \/ Conflict(p, "get")
      PROVE  \A q \in Clients \ {p} : pc'[q] = pc[q] /\ held'[q] = held[q]
  BY <1>5 DEF Return, ReturnErr, ReturnOk, Conflict, NoOp
<1>6. CASE \/ FindFails(p) \/ Put(p) \/ PutConflict(p) \/ PutRefused(p) \/ Post(p) \/ PostRefused(p)
           \/ Delete(p) \/ DeleteConflict(p) \/ DeleteFindsNothing(p) \/ DeleteRefused(p)
  BY <1>5, <1>6 DEF FindFails, Put, PutConflict, PutRefused, Post, PostRefused, Delete,
     DeleteConflict, DeleteFindsNothing, DeleteRefused, Counters
<1>7. CASE PutUnanswered(p) \/ PostUnanswered(p) \/ DeleteUnanswered(p)
  BY <1>7 DEF PutUnanswered, PostUnanswered, DeleteUnanswered
<1>8. CASE UpdateReads(p) \/ InsertReads(p) \/ Reconcile(p) \/ DeleteReads(p)
  <2>1. \/ ReturnErr(p) \/ ReturnOk(p, "updated") \/ ReturnOk(p, "created") \/ ReturnOk(p, "deleted")
        \/ Go(p, "post") /\ UNCHANGED held
        \/ Go(p, "delete") /\ UNCHANGED held
        \/ Go(p, "put") /\ \E b \in Ids : held' = [held EXCEPT ![p] = b]
    BY <1>8, FoundTypes DEF UpdateReads, InsertReads, Reconcile, DeleteReads
  <2> QED
    BY <2>1, <1>5 DEF Counters
<1> QED
  BY <1>1, <1>2, <1>3, <1>4, <1>6, <1>7, <1>8 DEF Pass

----------------------------------------------------------------------------
(* What a step does to the calendars. *)

\* The requests of write calls.
Requests(p) ==
    \/ FindFails(p) \/ UpdateReads(p) \/ Put(p) \/ PutUnanswered(p) \/ PutConflict(p)
    \/ PutRefused(p) \/ InsertReads(p) \/ Post(p) \/ PostUnanswered(p)
    \/ PostRefused(p) \/ Reconcile(p) \/ DeleteReads(p) \/ Delete(p)
    \/ DeleteUnanswered(p) \/ DeleteConflict(p) \/ DeleteFindsNothing(p) \/ DeleteRefused(p)

\* The other steps of a pass.
Plans(p) ==
    \/ Start(p) \/ TooFewHealthy(p) \/ Propagate(p) \/ Collect(p) \/ Finish(p) \/ Crash(p)
    \/ \E a \in todo[p] : Fetch(p, a) \/ FetchFails(p, a)
    \/ \E b \in garbage[p] : CollectNext(p, b)

Ensures(p) == \E s \in Ids, d \in healthy[p] :
    EnsureIndexed(p, s, d) \/ EnsureLookedUp(p, s, d) \/ EnsureLookupFails(p, s, d)

LEMMA PassSteps ==
    ASSUME NEW p \in Clients, Pass(p) \/ Crash(p)
    PROVE  Plans(p) \/ Ensures(p) \/ Requests(p)
BY DEF Pass, Plans, Ensures, Requests

\* The three ways in which pass p writes.
Moves(i, s) == /\ IsOwnedBlock(cal[i]) /\ HasIdentity(cal[i])
               /\ Store(i, [cal[i] EXCEPT !.span = s])
Removes(i) == IsOwnedBlock(cal[i]) /\ Store(i, Gone)
Inserts(p) == pc[p] = "post" /\ InsertEvent(Block(Target(p), TargetSpan(p), TargetSource(p)))

\* An engine step reads, or writes one event; ETags are read for pass p only.
Effect(p) ==
    /\ UNCHANGED <<config, edits>>
    /\ \/ cal' = cal /\ \A q \in Clients \ {p} : etag'[q] = etag[q]
       \/ \E i \in Ids, s \in Spans : Moves(i, s)
       \/ \E i \in Ids : Removes(i)
       \/ Inserts(p)

LEMMA PassEffect ==
    ASSUME TypeOK, PassOK, ETagOK, NEW p \in Clients, Pass(p) \/ Crash(p)
    PROVE  Effect(p)
<1>1. CASE Plans(p) \/ Ensures(p)
  <2>1. UNCHANGED calVars
    BY <1>1 DEF Plans, Ensures, Start, TooFewHealthy, Propagate, Collect, Finish, End, Crash,
       Fetch, FetchFails, CollectNext, EnsureIndexed, EnsureLookedUp, EnsureLookupFails
  <2> QED
    BY <2>1 DEF Effect, calVars
<1>2. CASE Put(p) \/ PutUnanswered(p)
  <2>1. /\ Matches(p, held[p]) /\ pc[p] = "put" /\ UNCHANGED <<config, edits>>
        /\ Store(held[p], [cal[held[p]] EXCEPT !.span = TargetSpan(p)])
    BY <1>2 DEF Put, PutUnanswered, UpdateEvent
  <2>2. held[p] \in Ids /\ TargetSpan(p) \in Spans
    BY <2>1, PairTypes DEF PassOK, Knows, Writing
  <2>3. IsOwnedBlock(cal[held[p]]) /\ HasIdentity(cal[held[p]])
    BY <2>1 DEF ETagOK, HoldsOwn
  <2> QED
    BY <2>1, <2>2, <2>3 DEF Effect, Moves
<1>3. CASE Delete(p) \/ DeleteUnanswered(p)
  <2>1. CASE DeleteEvent(p, held[p])
    <3>1. /\ Matches(p, held[p]) /\ pc[p] = "delete" /\ UNCHANGED <<config, edits>>
          /\ Store(held[p], Gone)
      BY <1>3, <2>1 DEF Delete, DeleteUnanswered, DeleteEvent
    <3>2. held[p] \in Ids
      BY <3>1 DEF PassOK, Knows
    <3> QED
      BY <3>1, <3>2 DEF ETagOK, HoldsOwn, Effect, Removes
  <2>2. CASE UNCHANGED <<cal, etag>>
    BY <1>3, <2>2 DEF Delete, DeleteUnanswered, Effect
  <2> QED
    BY <1>3, <2>1, <2>2 DEF Delete, DeleteUnanswered
<1>4. CASE Post(p) \/ PostUnanswered(p)
  BY <1>4 DEF Post, PostUnanswered, Effect, Inserts
<1>5. CASE UpdateReads(p)
  <2>1. UNCHANGED calVars \/ (UNCHANGED <<config, cal, edits>> /\ \E b \in Ids : ReadETag(p, b))
    BY <1>5, FoundTypes DEF UpdateReads
  <2> QED
    BY <2>1 DEF Effect, ReadETag, calVars, TypeOK, CalendarTypeOK
<1>6. CASE DeleteReads(p)
  <2>1. UNCHANGED calVars \/ (UNCHANGED <<config, cal, edits>> /\ ReadETag(p, held[p]))
    BY <1>6 DEF DeleteReads
  <2> QED
    BY <2>1 DEF Effect, ReadETag, calVars, TypeOK, CalendarTypeOK
<1>7. CASE \/ FindFails(p) \/ PutConflict(p) \/ PutRefused(p) \/ InsertReads(p)
           \/ PostRefused(p) \/ Reconcile(p) \/ DeleteConflict(p)
           \/ DeleteFindsNothing(p) \/ DeleteRefused(p)
  BY <1>7 DEF FindFails, PutConflict, PutRefused, InsertReads, PostRefused, Reconcile,
              DeleteConflict, DeleteFindsNothing, DeleteRefused, Effect, calVars
<1> QED
  BY <1>1, <1>2, <1>3, <1>4, <1>5, <1>6, <1>7, PassSteps DEF Requests

\* Event f has no tag, account or life that e does not have.
Derived(e, f) ==
    /\ Live(f) => Live(e) /\ f.acct = e.acct
    /\ IsOwnedBlock(f) => IsOwnedBlock(e)
    /\ f.source \in {e.source, NoSource}

\* An owner's edit: a change of an event, a new real event, or a copy.
Edited(i, e) ==
    /\ e.state # "unused"
    /\ \/ cal[i].state # "unused" /\ Derived(cal[i], e)
       \/ /\ cal[i].state = "unused"
          /\ \/ ~e.owner /\ e.source = NoSource /\ e.acct \in config
             \/ "copy" \in Edits /\ \E j \in Ids : Live(cal[j]) /\ e = cal[j]

LEMMA DerivedEvents ==
    ASSUME NEW e \in Event
    PROVE  /\ \A s \in Spans : Derived(e, [e EXCEPT !.span = s])
           /\ Derived(e, [e EXCEPT !.busy = ~@])
           /\ Derived(e, [e EXCEPT !.source = NoSource])
           /\ Derived(e, [e EXCEPT !.owner = FALSE, !.source = NoSource])
           /\ Derived(e, Gone) /\ Gone.state = "gone"
           /\ \A s \in Spans : [e EXCEPT !.span = s].state = e.state
           /\ [e EXCEPT !.busy = ~@].state = e.state
           /\ [e EXCEPT !.source = NoSource].state = e.state
           /\ [e EXCEPT !.owner = FALSE, !.source = NoSource].state = e.state
BY DEF Event, Derived, Live, IsOwnedBlock, Gone, Unused

LEMMA OwnersEffect ==
    ASSUME CalendarTypeOK, OwnersAct
    PROVE  /\ config' = config /\ edits' = edits + 1 /\ edits' # edits
           /\ \E i \in Ids, e \in Event : Store(i, e) /\ Edited(i, e)
<1>1. edits' = edits + 1 /\ config' = config
  BY DEF OwnersAct, OwnerEdits, OwnerAdds, OwnerMoves, OwnerFrees, OwnerDeletes,
         OwnerUntags, OwnerMangles, OwnerCopies, Edit
<1>2. edits' # edits
  BY <1>1 DEF CalendarTypeOK
<1> DEFINE Stored == \E j \in Ids, e \in Event : Store(j, e) /\ Edited(j, e)
<1>3. Stored
  <2>1. CASE OwnerAdds
    <3>1. PICK i \in Ids, a \in config, s \in Spans :
             Store(i, RealEvent(a, s, TRUE)) /\ cal[i].state = "unused"
      BY <2>1, FreshIds DEF OwnerAdds
    <3>2. RealEvent(a, s, TRUE) \in Event /\ Edited(i, RealEvent(a, s, TRUE))
      BY <3>1, EventTypes DEF RealEvent, Edited, CalendarTypeOK
    <3> QED
      BY <3>1, <3>2
  <2>0. ASSUME NEW i \in Ids, NEW e \in Event, Store(i, e), Live(cal[i]), e.state # "unused",
               Derived(cal[i], e)
        PROVE  Stored
    BY <2>0 DEF Edited, Live
  <2>2. ASSUME NEW i \in Ids, NEW s \in Spans, OwnerMoves(i, s) PROVE Stored
    <3> DEFINE e == [cal[i] EXCEPT !.span = s]
    <3>1. Store(i, e) /\ Live(cal[i]) /\ cal[i] \in Event
      BY <2>2 DEF OwnerMoves, CalendarTypeOK, IsOwnedBlock
    <3>2. e \in Event /\ e.state # "unused" /\ Derived(cal[i], e)
      BY <3>1, FieldTypes, DerivedEvents DEF Live
    <3> HIDE DEF e
    <3> QED
      BY <2>0, <3>1, <3>2
  <2>3. ASSUME NEW i \in Ids, OwnerFrees(i) PROVE Stored
    <3> DEFINE e == [cal[i] EXCEPT !.busy = ~@]
    <3>1. Store(i, e) /\ Live(cal[i]) /\ cal[i] \in Event
      BY <2>3 DEF OwnerFrees, CalendarTypeOK, IsOwnedBlock
    <3>2. e \in Event /\ e.state # "unused" /\ Derived(cal[i], e)
      BY <3>1, FieldTypes, DerivedEvents DEF Live
    <3> HIDE DEF e
    <3> QED
      BY <2>0, <3>1, <3>2
  <2>4. ASSUME NEW i \in Ids, OwnerDeletes(i) PROVE Stored
    <3> DEFINE e == Gone
    <3>1. Store(i, e) /\ Live(cal[i]) /\ cal[i] \in Event
      BY <2>4 DEF OwnerDeletes, CalendarTypeOK
    <3>2. e \in Event /\ e.state # "unused" /\ Derived(cal[i], e)
      BY <3>1, EventTypes, DerivedEvents DEF Live
    <3> HIDE DEF e
    <3> QED
      BY <2>0, <3>1, <3>2
  <2>5. ASSUME NEW i \in Ids, OwnerUntags(i) PROVE Stored
    <3> DEFINE e == [cal[i] EXCEPT !.owner = FALSE, !.source = NoSource]
    <3>1. Store(i, e) /\ Live(cal[i]) /\ cal[i] \in Event
      BY <2>5 DEF OwnerUntags, CalendarTypeOK, IsOwnedBlock
    <3>2. e \in Event /\ e.state # "unused" /\ Derived(cal[i], e)
      BY <3>1, FieldTypes, DerivedEvents DEF Live
    <3> HIDE DEF e
    <3> QED
      BY <2>0, <3>1, <3>2
  <2>6. ASSUME NEW i \in Ids, OwnerMangles(i) PROVE Stored
    <3> DEFINE e == [cal[i] EXCEPT !.source = NoSource]
    <3>1. Store(i, e) /\ Live(cal[i]) /\ cal[i] \in Event
      BY <2>6 DEF OwnerMangles, CalendarTypeOK, IsOwnedBlock
    <3>2. e \in Event /\ e.state # "unused" /\ Derived(cal[i], e)
      BY <3>1, FieldTypes, DerivedEvents DEF Live
    <3> HIDE DEF e
    <3> QED
      BY <2>0, <3>1, <3>2
  <2>7. ASSUME NEW i \in Ids, OwnerCopies(i) PROVE Stored
    BY <2>7, FreshIds DEF OwnerCopies, CalendarTypeOK, Edit, Edited, Live
  <2> QED
    BY <2>1, <2>2, <2>3, <2>4, <2>5, <2>6, <2>7 DEF OwnersAct, OwnerEdits
<1> QED
  BY <1>1, <1>2, <1>3

----------------------------------------------------------------------------
(* ETags, concluded. *)

LEMMA PassETag ==
    ASSUME TypeOK, PassOK, ETagOK, NEW p \in Clients, Pass(p) \/ Crash(p)
    PROVE  ETagOK'
<1>1. ASSUME NEW q \in Clients, pc'[q] = pc[q], held'[q] = held[q],
             q # p \/ etag' = etag \/ cal' # cal
      PROVE  HoldsOwn(q)'
  <2>1. HoldsOwn(q)
    BY DEF ETagOK
  <2>2. \/ cal' = cal /\ etag'[q] = etag[q]
        \/ \E i \in Ids : Writes(i)
    <3>1. Effect(p)
      BY PassEffect
    <3>2. ASSUME NEW i \in Ids, NEW s \in Spans, Moves(i, s) PROVE Writes(i)
      BY <3>2, FieldTypes DEF Moves, Writes, TypeOK, CalendarTypeOK
    <3>3. ASSUME NEW i \in Ids, Removes(i) PROVE Writes(i)
      BY <3>3, EventTypes DEF Removes, Writes
    <3>4. ASSUME Inserts(p) PROVE \E i \in Ids : Writes(i)
      <4>1. Block(Target(p), TargetSpan(p), TargetSource(p)) \in Event
        BY <3>4, PairTypes, EventTypes DEF Inserts, Writing
      <4> QED
        BY <3>4, <4>1, FreshIds DEF Inserts, InsertEvent, Writes
    <3> QED
      BY <3>1, <3>2, <3>3, <3>4, <1>1 DEF Effect
  <2> QED
    BY <2>1, <2>2, <1>1, HoldsFrame
<1>2. ASSUME NEW q \in Clients, q # p PROVE HoldsOwn(q)'
  BY <1>1, <1>2, OthersStay
<1>3. HoldsOwn(p)'
  <2> USE DEF TypeOK, LocalTypeOK
  <2>1. ASSUME pc'[p] \notin {"put", "delete"} PROVE HoldsOwn(p)'
    BY <2>1 DEF HoldsOwn
  <2>2. CASE Plans(p)
    BY <2>2, <2>1, <1>1 DEF Plans, Start, TooFewHealthy, Propagate, Collect, Finish, End, Crash,
       Fetch, FetchFails, CollectNext, Go, calVars, op
  <2>3. CASE Ensures(p)
    <3>1. UNCHANGED calVars /\ (UNCHANGED <<pc, op>> \/ pc'[p] \in {"update", "insert"})
      BY <2>3 DEF Ensures, EnsureIndexed, EnsureLookedUp, EnsureLookupFails, Reassert, Call, Go
    <3> QED
      BY <3>1, <2>1, <1>1 DEF calVars, op
  <2>4. ASSUME Return(p) PROVE HoldsOwn(p)'
    BY <2>4, <2>1 DEF Return, Go
  <2>5. CASE \/ FindFails(p) \/ Put(p) \/ PutRefused(p) \/ Post(p) \/ PostRefused(p)
             \/ Delete(p) \/ DeleteFindsNothing(p) \/ DeleteRefused(p)
    BY <2>4, <2>5 DEF FindFails, Put, PutRefused, Post, PostRefused, Delete,
       DeleteFindsNothing, DeleteRefused, ReturnOk, ReturnErr
  <2>6. CASE PutConflict(p) \/ DeleteConflict(p)
    <3>1. Return(p) \/ Go(p, "update") \/ Go(p, "get")
      BY <2>6 DEF PutConflict, DeleteConflict, Conflict, ReturnErr
    <3> QED
      BY <3>1, <2>4, <2>1 DEF Go
  <2>7. CASE PostUnanswered(p) \/ InsertReads(p) \/ Reconcile(p)
    <3>1. Return(p) \/ Go(p, "reconcile") \/ Go(p, "post")
      BY <2>7 DEF PostUnanswered, InsertReads, Reconcile, ReturnOk, ReturnErr
    <3> QED
      BY <3>1, <2>4, <2>1 DEF Go
  <2>8. CASE PutUnanswered(p) \/ DeleteUnanswered(p)
    <3>1. pc' = pc /\ held' = held
      BY <2>8 DEF PutUnanswered, DeleteUnanswered
    <3>2. UNCHANGED <<cal, etag>> \/ \E i \in Ids : Writes(i)
      <4>1. CASE PutUnanswered(p)
        <5>1. held[p] \in Ids /\ TargetSpan(p) \in Spans
          BY <4>1, PairTypes DEF PutUnanswered, PassOK, Knows, Writing
        <5> QED
          BY <4>1, <5>1, FieldTypes DEF PutUnanswered, UpdateEvent, Writes, CalendarTypeOK
      <4>2. CASE DeleteUnanswered(p)
        BY <4>2, EventTypes DEF DeleteUnanswered, DeleteEvent, Writes, PassOK, Knows
      <4> QED
        BY <2>8, <4>1, <4>2
    <3> QED
      BY <3>1, <3>2, HoldsFrame DEF ETagOK
  <2>9. CASE UpdateReads(p)
    <3>1. PICK b \in FindBlockBySource(Target(p), TargetSource(p)) :
             Return(p) \/ (/\ b # NoId /\ Go(p, "put") /\ held' = [held EXCEPT ![p] = b]
                           /\ cal' = cal)
      BY <2>9 DEF UpdateReads, ReturnOk
    <3>2. CASE b # NoId /\ Go(p, "put") /\ held' = [held EXCEPT ![p] = b] /\ cal' = cal
      <4>1. pc'[p] = "put" /\ held'[p] = b /\ cal'[b] = cal[b]
        BY <3>2 DEF Go
      <4>2. IsOwnedBlock(cal[b]) /\ HasIdentity(cal[b])
        BY <3>2, FoundTypes DEF Mirrors, HasIdentity
      <4> QED
        BY <4>1, <4>2, <3>2 DEF HoldsOwn
    <3> QED
      BY <3>1, <3>2, <2>4
  <2>10. CASE DeleteReads(p)
    <3>1. \/ Return(p)
          \/ /\ Go(p, "delete") /\ UNCHANGED <<held, cal>>
             /\ ReadETag(p, held[p]) /\ (Live(cal[held[p]]) => IsOwnedBlock(cal[held[p]]))
      BY <2>10 DEF DeleteReads, ReturnOk, ReturnErr, op
    <3>2. CASE /\ Go(p, "delete") /\ UNCHANGED <<held, cal>>
               /\ ReadETag(p, held[p]) /\ (Live(cal[held[p]]) => IsOwnedBlock(cal[held[p]]))
      <4>1. Matches(p, held[p])' => Live(cal[held[p]])
        BY <3>2 DEF ReadETag, Matches, CalendarTypeOK
      <4> QED
        BY <3>2, <4>1 DEF HoldsOwn, Go
    <3> QED
      BY <3>1, <3>2, <2>4
  <2> QED
    BY <2>2, <2>3, <2>5, <2>6, <2>7, <2>8, <2>9, <2>10, PassSteps DEF Requests
<1> QED
  BY <1>2, <1>3 DEF ETagOK

----------------------------------------------------------------------------
(* Names. *)

\* NamesOK, of one event.
NameOK(e) ==
    /\ Live(e) => e.acct \in config
    /\ HasIdentity(e) => e.source[1] \in config \cup (Names \ Spare)

ViewNamesOK == \A p \in Clients, i \in Ids : Live(view[p][i]) => view[p][i].acct \in config

LEMMA NamesDef ==
    NamesOK <=> (\A i \in Ids : NameOK(cal[i])) /\ ViewNamesOK
BY DEF NamesOK, NameOK, ViewNamesOK

LEMMA NameOfDerived ==
    ASSUME NEW e \in Event, NEW f \in Event, NameOK(e), Derived(e, f)
    PROVE  NameOK(f)
BY DEF NameOK, Derived, HasIdentity

LEMMA StoreNames ==
    ASSUME CalendarTypeOK, NEW i \in Ids, NEW e \in Event, Store(i, e), config' = config,
           \A j \in Ids : NameOK(cal[j]), NameOK(e)
    PROVE  (\A j \in Ids : NameOK(cal[j]))'
BY DEF CalendarTypeOK, Store, NameOK

LEMMA ViewStays ==
    ASSUME TypeOK, NamesOK, NEW p \in Clients, Pass(p) \/ Crash(p)
    PROVE  \A q \in Clients, i \in Ids :
              view'[q][i] \in {view[q][i], Unused} \/ view'[q][i] = cal[i]
<1> USE DEF TypeOK, LocalTypeOK
<1>1. CASE \/ \E a \in todo[p] : Fetch(p, a)
  <2>1. PICK a \in todo[p] : Fetch(p, a)
    BY <1>1
  <2>2. view' = [view EXCEPT ![p] = [i \in Ids |-> IF i \in ListEvents(a) THEN cal[i] ELSE view[p][i]]]
    BY <2>1 DEF Fetch
  <2> QED
    BY <2>2
<1>2. CASE TooFewHealthy(p) \/ Finish(p) \/ Crash(p)
  <2>1. view' = [view EXCEPT ![p] = NoView]
    BY <1>2 DEF TooFewHealthy, Finish, End, Crash
  <2> QED
    BY <2>1 DEF NoView
<1>3. CASE Start(p) \/ Propagate(p) \/ Collect(p) \/ Ensures(p)
           \/ (\E a \in todo[p] : FetchFails(p, a)) \/ \E b \in garbage[p] : CollectNext(p, b)
  <2>1. view' = view
    BY <1>3 DEF Start, Propagate, Collect, Ensures, FetchFails, CollectNext,
       EnsureIndexed, EnsureLookedUp, EnsureLookupFails
  <2> QED
    BY <2>1
<1>4. CASE Requests(p)
  <2>1. UNCHANGED plan
    BY <1>4 DEF Requests, FindFails, UpdateReads, Put, PutUnanswered, PutConflict, PutRefused,
       InsertReads, Post, PostUnanswered, PostRefused, Reconcile, DeleteReads, Delete,
       DeleteUnanswered, DeleteConflict, DeleteFindsNothing, DeleteRefused,
       Return, ReturnOk, ReturnErr, Conflict
  <2> QED
    BY <2>1 DEF plan
<1> QED
  BY <1>1, <1>2, <1>3, <1>4, PassSteps DEF Plans

LEMMA PassNames ==
    ASSUME TypeOK, PassOK, ETagOK, NamesOK, NEW p \in Clients, Pass(p) \/ Crash(p)
    PROVE  NamesOK'
<1>1. Effect(p) /\ config' = config
  BY PassEffect DEF Effect
<1>2. ViewNamesOK'
  <2>1. ~Live(Unused)
    BY DEF Live, Unused
  <2> QED
    BY <1>1, <2>1, ViewStays, NamesDef DEF ViewNamesOK, NameOK
<1>3. (\A i \in Ids : NameOK(cal[i]))'
  <2> USE NamesDef DEF TypeOK
  <2>1. CASE cal' = cal
    BY <1>1, <2>1 DEF NameOK
  <2>2. ASSUME NEW i \in Ids, NEW s \in Spans, Moves(i, s) PROVE (\A j \in Ids : NameOK(cal[j]))'
    <3>1. cal[i] \in Event /\ [cal[i] EXCEPT !.span = s] \in Event
      BY FieldTypes DEF CalendarTypeOK
    <3>2. NameOK([cal[i] EXCEPT !.span = s])
      BY <3>1, DerivedEvents, NameOfDerived
    <3> QED
      BY <1>1, <2>2, <3>1, <3>2, StoreNames DEF Moves
  <2>3. ASSUME NEW i \in Ids, Removes(i) PROVE (\A j \in Ids : NameOK(cal[j]))'
    <3>1. NameOK(Gone)
      BY EventTypes, DerivedEvents, NameOfDerived DEF CalendarTypeOK
    <3> QED
      BY <1>1, <2>3, <3>1, EventTypes, StoreNames DEF Removes
  <2>4. ASSUME Inserts(p) PROVE (\A j \in Ids : NameOK(cal[j]))'
    <3>1. Block(Target(p), TargetSpan(p), TargetSource(p)) \in Event
      BY <2>4, PairTypes, EventTypes DEF Inserts, Writing
    <3>2. ToMirror(p, cur[p])
      BY <2>4 DEF Inserts, PassOK, Knows, Writing
    <3>3. Target(p) \in config /\ view[p][cur[p][1]].acct \in config
      BY <3>2 DEF ToMirror, Target, BlocksTime, ViewNamesOK
    <3>4. NameOK(Block(Target(p), TargetSpan(p), TargetSource(p)))
      BY <3>3 DEF NameOK, Block, TargetSource, Identity
    <3> QED
      BY <1>1, <2>4, <3>1, <3>4, StoreNames, FreshIds DEF Inserts, InsertEvent
  <2> QED
    BY <1>1, <2>1, <2>2, <2>3, <2>4 DEF Effect
<1> QED
  BY <1>2, <1>3 DEF NamesOK, NameOK, ViewNamesOK

----------------------------------------------------------------------------
(* Steps around the passes. *)

LEMMA OwnersInv ==
    ASSUME IInv, OwnersAct, UNCHANGED <<flaky, local>>
    PROVE  IInv'
<1> USE DEF IInv
<1>1. TypeOK'
  BY OutsideType
<1>2. config' = config
  BY OwnersEffect DEF TypeOK
<1>3. PICK i \in Ids, e \in Event : Store(i, e) /\ Edited(i, e)
  BY OwnersEffect DEF TypeOK
<1>4. PassOK'
  BY <1>2 DEF PassOK, Knows, ToMirror, local, plan, op
<1>5. ETagOK'
  BY <1>3, HoldsFrame DEF ETagOK, Writes, local, op
<1>6. NamesOK'
  <2>1. cal[i] \in Event /\ NameOK(cal[i])
    BY NamesDef DEF TypeOK, CalendarTypeOK
  <2>2. NameOK(e)
    <3>1. CASE Derived(cal[i], e)
      BY <2>1, <3>1, NameOfDerived
    <3>2. CASE ~e.owner /\ e.source = NoSource /\ e.acct \in config
      BY <3>2 DEF NameOK, HasIdentity
    <3>3. CASE \E j \in Ids : e = cal[j]
      BY <3>3, NamesDef
    <3> QED
      BY <1>3, <3>1, <3>2, <3>3 DEF Edited
  <2>3. (\A j \in Ids : NameOK(cal[j]))'
    BY <1>2, <1>3, <2>2, NamesDef, StoreNames DEF TypeOK
  <2>4. ViewNamesOK'
    BY <1>2, NamesDef DEF ViewNamesOK, local, plan
  <2> QED
    BY <2>3, <2>4 DEF NamesOK, NameOK, ViewNamesOK
<1> QED
  BY <1>1, <1>4, <1>5, <1>6

LEMMA RenameInv ==
    ASSUME IInv, NEW a \in Accounts, NEW b \in Spare, Rename(a, b)
    PROVE  IInv'
<1> USE DEF IInv
<1>1. TypeOK'
  BY OutsideType
<1>2. /\ \A p \in Clients : pc[p] = "idle" /\ todo[p] = {} /\ healthy[p] = {} /\ work[p] = {}
                            /\ view[p] = NoView
      /\ UNCHANGED <<etag, local>>
  BY DEF Rename, PassOK, Knows, Writing
<1>3. PassOK'
  BY <1>2 DEF PassOK, Knows, ToMirror, local, plan, op, Writing
<1>4. ETagOK'
  BY <1>2 DEF ETagOK, HoldsOwn, local
<1>5. NamesOK'
  <2>1. /\ a \in config \ Spare /\ b \in Spare \ config /\ config' = (config \ {a}) \cup {b}
        /\ cal' = Renamed(cal, a, b) /\ a \in Names /\ b \in Names
    BY CalendarAssumption, EngineAssumption DEF Rename
  <2>2. ASSUME NEW i \in Ids PROVE NameOK(cal[i])'
    <3>1. cal[i] \in Event /\ NameOK(cal[i])
      BY NamesDef DEF TypeOK, CalendarTypeOK
    <3>2. cal'[i] = IF Live(cal[i]) /\ cal[i].acct = a THEN [cal[i] EXCEPT !.acct = b] ELSE cal[i]
      BY <2>1 DEF Renamed
    <3>3. HasIdentity(cal'[i]) => cal'[i].source[1] \in config' \cup (Names \ Spare)
      BY <2>1, <3>1, <3>2 DEF NameOK, HasIdentity, Event
    <3>4. Live(cal'[i]) => cal'[i].acct \in config'
      BY <2>1, <3>1, <3>2 DEF NameOK, Live, Event
    <3> QED
      BY <3>3, <3>4 DEF NameOK
  <2>3. ViewNamesOK'
    <3>1. view' = view /\ \A p \in Clients, i \in Ids : view[p][i] = Unused
      BY <1>2 DEF NoView, local, plan
    <3>2. ~Live(Unused)
      BY DEF Live, Unused
    <3> QED
      BY <3>1, <3>2 DEF ViewNamesOK
  <2> QED
    BY <2>2, <2>3 DEF NamesOK, NameOK, ViewNamesOK
<1> QED
  BY <1>1, <1>3, <1>4, <1>5

----------------------------------------------------------------------------
(* The inductive invariant. *)

LEMMA Initially == Init => IInv
<1> SUFFICES ASSUME Init PROVE IInv
  OBVIOUS
<1>0. config = Accounts /\ edits = 0 /\ etag = [c \in Clients |-> {}]
  BY DEF Init, CalendarInit
<1>1. PICK on \in [Existing -> Accounts], at \in [Existing -> Spans] :
         cal = [i \in Ids |-> IF i \in Existing THEN RealEvent(on[i], at[i], TRUE) ELSE Unused]
  BY DEF Init, CalendarInit
<1>2. cal \in [Ids -> Event] /\ \A i \in Ids : NameOK(cal[i])
  <2>1. ASSUME NEW i \in Ids PROVE cal[i] \in Event /\ NameOK(cal[i])
    <3>1. CASE i \in Existing
      <4>1. cal[i] = RealEvent(on[i], at[i], TRUE) /\ on[i] \in Accounts /\ at[i] \in Spans
        BY <1>1, <3>1
      <4>2. cal[i] \in Event
        <5>1. on[i] \in Names /\ TRUE \in BOOLEAN
          BY <4>1, CalendarAssumption
        <5>2. RealEvent(on[i], at[i], TRUE) \in Event
          BY <4>1, <5>1, EventTypes
        <5> QED
          BY <4>1, <5>2
      <4>3. cal[i].acct \in config /\ cal[i].source = NoSource
        BY <1>0, <4>1 DEF RealEvent
      <4> QED
        BY <4>2, <4>3 DEF NameOK, HasIdentity
    <3>2. CASE i \notin Existing
      BY <1>1, <3>2, EventTypes DEF NameOK, Unused, Live, HasIdentity
    <3> QED
      BY <3>1, <3>2
  <2> QED
    BY <1>1, <2>1
<1>3. TypeOK
  <2>1. CalendarTypeOK
    <3>1. config \in SUBSET Names
      BY <1>0, CalendarAssumption
    <3>2. etag \in [Clients -> SUBSET Ids]
      BY <1>0
    <3>3. edits \in 0..MaxEdits
      BY <1>0, CalendarAssumption
    <3> QED
      BY <1>2, <3>1, <3>2, <3>3 DEF CalendarTypeOK
  <2>2. LocalTypeOK
    BY EventTypes, EngineAssumption DEF Init, LocalTypeOK, Locations, NoWrites, Counters, MaxAttempts
  <2> QED
    BY <2>1, <2>2 DEF TypeOK
<1>4. PassOK
  BY DEF Init, PassOK, Knows, Writing
<1>5. ETagOK
  BY DEF Init, ETagOK, HoldsOwn
<1>6. NamesOK
  BY <1>2, NamesDef DEF Init, ViewNamesOK, NoView, Unused, Live
<1> QED
  BY <1>3, <1>4, <1>5, <1>6 DEF IInv

LEMMA Step == IInv /\ [Next]_vars => IInv'
<1> SUFFICES ASSUME IInv, [Next]_vars PROVE IInv'
  OBVIOUS
<1> USE DEF IInv
<1>1. ASSUME NEW p \in Clients, Pass(p) \/ Crash(p) PROVE IInv'
  <2>1. TypeOK' /\ PassOK'
    <3>1. CASE Plans(p)
      BY <3>1, PlanningType, PlanningKnows DEF Plans
    <3>2. CASE Ensures(p)
      BY <3>2, EnsureType, EnsureKnows DEF Ensures
    <3>3. CASE Requests(p)
      BY <3>3, WriteType, WriteKnows DEF Requests
    <3> QED
      BY <1>1, <3>1, <3>2, <3>3, PassSteps
  <2> QED
    BY <1>1, <2>1, PassETag, PassNames
<1>2. CASE OutageEnds \/ UNCHANGED vars
  <2>1. UNCHANGED <<calVars, local>>
    BY <1>2 DEF OutageEnds, vars
  <2>2. TypeOK'
    BY <1>2, OutsideType
  <2>3. PassOK' /\ ETagOK' /\ NamesOK'
    BY <2>1 DEF calVars, local, plan, op, PassOK, Knows, ToMirror, ETagOK, HoldsOwn, Matches, NamesOK
  <2> QED
    BY <2>2, <2>3
<1>3. CASE \E a \in Accounts, b \in Spare : Rename(a, b)
  BY <1>3, RenameInv
<1>4. CASE OwnersAct /\ UNCHANGED <<flaky, local>>
  BY <1>4, OwnersInv
<1> QED
  BY <1>1, <1>2, <1>3, <1>4 DEF Next

\* In every reachable state the inductive invariant holds: the types, what a
\* pass may rely on between two requests, what a current ETag vouches for, and
\* which names occur.
THEOREM Invariant == Spec => []IInv
BY Initially, Step, PTL DEF Spec

\* Type correctness of SyncOnce and of the calendars it runs against.
THEOREM TypeCorrect == Spec => []TypeOK
<1>1. IInv => TypeOK
  BY DEF IInv
<1> QED
  BY <1>1, Invariant, PTL

----------------------------------------------------------------------------
(* Safety. *)

\* No pass ever writes an event that is not the engine's at that moment:
\* FindOwnedBlock and the owner check of DeleteBlock, the ETag that UpdateBlock
\* and DeleteBlock send with the write, and isOwnedBlock everywhere else.
THEOREM OwnedOnly == Spec => OnlyOwnedWritten
<1> DEFINE Touched == edits' = edits =>
       \A i \in Ids : cal'[i] # cal[i] => cal[i].state = "unused" \/ IsOwnedBlock(cal[i])
<1>1. IInv /\ [Next]_vars => [Touched]_vars
  <2> SUFFICES ASSUME IInv, Next PROVE Touched
    OBVIOUS
  <2> USE DEF IInv, TypeOK, CalendarTypeOK
  <2>1. ASSUME NEW p \in Clients, Pass(p) \/ Crash(p) PROVE Touched
    <3>1. Effect(p)
      BY <2>1, PassEffect
    <3> QED
      BY <3>1, FreshIds DEF Effect, Moves, Removes, Inserts, InsertEvent, Store
  <2>2. CASE OutageEnds
    BY <2>2 DEF OutageEnds, calVars
  <2>3. ASSUME NEW a \in Accounts, NEW b \in Spare, Rename(a, b) PROVE Touched
    <3>1. edits' = edits + 1 /\ edits \in Nat
      BY <2>3, CalendarAssumption DEF Rename, Edit
    <3> QED
      BY <3>1
  <2>4. CASE OwnersAct
    BY <2>4, OwnersEffect
  <2> QED
    BY <2>1, <2>2, <2>3, <2>4 DEF Next
<1> QED
  BY <1>1, Invariant, PTL DEF Spec, OnlyOwnedWritten

LEMMA EchoStore ==
    ASSUME cal \in [Ids -> Event], NoEcho, NEW i \in Ids, NEW e \in Event, Store(i, e),
           IsOwnedBlock(e) /\ HasIdentity(e) => e.source[1] # e.acct
    PROVE  NoEcho'
BY DEF NoEcho, NoEchoes, Store

\* No block ever mirrors an event of the calendar it lies on, however many
\* passes run at once and also when accounts are renamed: SyncOnce skips the
\* source account, and a renamed account gets a name no tag has.
THEOREM NoEchoEver == Spec => []NoEcho
<1>1. Init => NoEcho
  <2> SUFFICES ASSUME Init PROVE NoEcho
    OBVIOUS
  <2>1. \A i \in Ids : ~HasIdentity(cal[i])
    BY DEF Init, CalendarInit, RealEvent, Unused, HasIdentity
  <2> QED
    BY <2>1 DEF NoEcho, NoEchoes
<1>2. IInv /\ NoEcho /\ [Next]_vars => NoEcho'
  <2> SUFFICES ASSUME IInv, NoEcho, [Next]_vars PROVE NoEcho'
    OBVIOUS
  <2>1. TypeOK /\ PassOK /\ ETagOK /\ NamesOK /\ cal \in [Ids -> Event]
    BY DEF IInv, TypeOK, CalendarTypeOK
  <2>2. ASSUME NEW p \in Clients, Effect(p) PROVE NoEcho'
    <3>1. CASE cal' = cal
      BY <3>1 DEF NoEcho
    <3>2. ASSUME NEW i \in Ids, NEW s \in Spans, Moves(i, s) PROVE NoEcho'
      <4>1. /\ [cal[i] EXCEPT !.span = s] \in Event
            /\ [cal[i] EXCEPT !.span = s].acct = cal[i].acct
            /\ [cal[i] EXCEPT !.span = s].source = cal[i].source
        BY <2>1 DEF Event
      <4> QED
        BY <2>1, <3>2, <4>1, EchoStore DEF Moves, NoEcho, NoEchoes
    <3>3. ASSUME NEW i \in Ids, Removes(i) PROVE NoEcho'
      <4>1. ~IsOwnedBlock(Gone)
        BY DEF IsOwnedBlock, Live, Gone, Unused
      <4> QED
        BY <2>1, <3>3, <4>1, EventTypes, EchoStore DEF Removes
    <3>4. ASSUME Inserts(p) PROVE NoEcho'
      <4> DEFINE b == Block(Target(p), TargetSpan(p), TargetSource(p))
      <4>1. b \in Event
        BY <2>1, <3>4, PairTypes, EventTypes DEF Inserts, Writing
      <4>2. b.source[1] # b.acct
        BY <2>1, <3>4 DEF Inserts, PassOK, Knows, Writing, ToMirror, Block, Target, TargetSource, Identity
      <4> QED
        BY <2>1, <3>4, <4>1, <4>2, EchoStore, FreshIds DEF Inserts, InsertEvent
    <3> QED
      BY <2>2, <3>1, <3>2, <3>3, <3>4 DEF Effect
  <2>3. CASE OwnersAct
    <3>1. PICK i \in Ids, e \in Event : Store(i, e) /\ Edited(i, e)
      BY <2>1, <2>3, OwnersEffect DEF TypeOK
    <3>2. IsOwnedBlock(e) /\ HasIdentity(e) => e.source[1] # e.acct
      BY <3>1 DEF Edited, Derived, IsOwnedBlock, HasIdentity, NoEcho, NoEchoes
    <3> QED
      BY <2>1, <3>1, <3>2, EchoStore
  <2>4. ASSUME NEW a \in Accounts, NEW b \in Spare, Rename(a, b) PROVE NoEcho'
    <3>1. /\ b \in Spare \ config /\ cal' = Renamed(cal, a, b)
      BY <2>4 DEF Rename
    <3>2. ASSUME NEW i \in Ids, IsOwnedBlock(cal'[i]), HasIdentity(cal'[i])
          PROVE  cal'[i].source[1] # cal'[i].acct
      <4>1. cal'[i] = IF Live(cal[i]) /\ cal[i].acct = a THEN [cal[i] EXCEPT !.acct = b] ELSE cal[i]
        BY <3>1 DEF Renamed
      <4>2. cal[i] \in Event
        BY <2>1
      <4>3. /\ IsOwnedBlock(cal[i]) /\ HasIdentity(cal[i]) /\ cal'[i].source = cal[i].source
            /\ cal'[i].acct \in {cal[i].acct, b}
        BY <3>2, <4>1, <4>2 DEF Event, IsOwnedBlock, Live, HasIdentity
      <4>4. cal[i].source[1] # cal[i].acct
        BY <4>3 DEF NoEcho, NoEchoes
      <4>5. cal[i].source[1] # b
        BY <2>1, <3>1, <4>3, NamesDef DEF NameOK
      <4> QED
        BY <4>3, <4>4, <4>5
    <3> QED
      BY <3>2 DEF NoEcho, NoEchoes
  <2>5. CASE OutageEnds \/ UNCHANGED vars
    BY <2>5 DEF OutageEnds, vars, calVars, NoEcho
  <2> QED
    BY <2>1, <2>2, <2>3, <2>4, <2>5, PassEffect DEF Next
<1> QED
  BY <1>1, <1>2, Invariant, PTL DEF Spec

----------------------------------------------------------------------------
(* What a pass leaves alone. *)

\* What pass q knows stays as it is.
Stays(q) ==
    /\ pc'[q] = pc[q] /\ todo'[q] = todo[q] /\ healthy'[q] = healthy[q] /\ view'[q] = view[q]
    /\ work'[q] = work[q] /\ garbage'[q] = garbage[q] /\ cur'[q] = cur[q] /\ held'[q] = held[q]
    /\ res'[q] = res[q] /\ err'[q] = err[q]

LEMMA OthersKeep ==
    ASSUME TypeOK, NEW p \in Clients, Pass(p) \/ Crash(p), NEW q \in Clients \ {p}
    PROVE  Stays(q)
<1> USE DEF TypeOK, LocalTypeOK
<1>1. pc'[q] = pc[q] /\ held'[q] = held[q]
  BY OthersStay
<1>2. CASE Requests(p)
  <2>1. UNCHANGED plan /\ (cur' = cur \/ cur' = [cur EXCEPT ![p] = NoPair])
    BY <1>2, RequestSteps DEF Requests, RequestMoves, Return, NoOp
  <2>2. err' = err \/ Fails(p)
    BY <1>2 DEF Requests, FindFails, UpdateReads, Put, PutUnanswered, PutConflict, PutRefused,
       InsertReads, Post, PostUnanswered, PostRefused, Reconcile, DeleteReads, Delete,
       DeleteUnanswered, DeleteConflict, DeleteFindsNothing, DeleteRefused, Conflict, ReturnOk, ReturnErr
  <2>3. res' = res \/ \E k \in Counters : Counts(p, k)
    BY <1>2 DEF Counters, Requests, FindFails, UpdateReads, Put, PutUnanswered, PutConflict, PutRefused,
       InsertReads, Post, PostUnanswered, PostRefused, Reconcile, DeleteReads, Delete,
       DeleteUnanswered, DeleteConflict, DeleteFindsNothing, DeleteRefused, Conflict, ReturnOk, ReturnErr
  <2>4. err'[q] = err[q]
    BY <2>2 DEF Fails
  <2>5. res'[q] = res[q]
    BY <2>3 DEF Counts
  <2> QED
    BY <1>1, <2>1, <2>4, <2>5 DEF Stays, plan
<1>3. CASE Start(p) \/ TooFewHealthy(p) \/ Propagate(p) \/ Collect(p) \/ Finish(p) \/ Crash(p)
  BY <1>1, <1>3 DEF Start, TooFewHealthy, Propagate, Collect, Finish, End, Crash, NoOp, Fails, op, Stays
<1>4. ASSUME NEW a \in todo[p], Fetch(p, a) \/ FetchFails(p, a) PROVE Stays(q)
  BY <1>1, <1>4 DEF Fetch, FetchFails, Fails, op, Stays
<1>5. ASSUME NEW b \in garbage[p], CollectNext(p, b) PROVE Stays(q)
  <2>1. /\ UNCHANGED <<todo, healthy, view, work, cur, err>> /\ garbage' = [garbage EXCEPT ![p] = @ \ {b}]
        /\ res' = res \/ Counts(p, "deleted")
    BY <1>5 DEF CollectNext
  <2> QED
    BY <1>1, <2>1 DEF Counts, Stays
<1>6. ASSUME NEW s \in Ids, NEW d \in healthy[p],
             EnsureIndexed(p, s, d) \/ EnsureLookedUp(p, s, d) \/ EnsureLookupFails(p, s, d)
      PROVE  Stays(q)
  <2>1. /\ UNCHANGED <<todo, healthy, view, garbage>> /\ work' = [work EXCEPT ![p] = @ \ {<<s, d>>}]
        /\ cur' = cur \/ cur' = [cur EXCEPT ![p] = <<s, d>>]
        /\ res' = res \/ Counts(p, "created") \/ Counts(p, "updated")
    BY <1>6 DEF EnsureIndexed, EnsureLookedUp, EnsureLookupFails, Reassert, Call, Take, op
  <2>2. err' = err \/ Fails(p)
    BY <1>6 DEF EnsureIndexed, EnsureLookedUp, EnsureLookupFails, Reassert, Call
  <2>3. err'[q] = err[q]
    BY <2>2 DEF Fails
  <2> QED
    BY <1>1, <2>1, <2>3 DEF Counts, Stays
<1> QED
  BY <1>2, <1>3, <1>4, <1>5, <1>6, PassSteps DEF Plans, Ensures

\* A dry run is never on its way to a write.
DryRunReads == \A p \in DryRun : pc[p] \notin WriteCalls

\* It changes neither the calendars nor what other passes hold of them.
LEMMA DryStep ==
    ASSUME TypeOK, DryRunReads, NEW p \in DryRun, Pass(p) \/ Crash(p)
    PROVE  UNCHANGED calVars /\ pc'[p] \notin WriteCalls
<1> USE EngineAssumption DEF TypeOK, LocalTypeOK, WriteCalls
<1>1. ~Requests(p)
  <2> SUFFICES ASSUME Requests(p) PROVE FALSE
    OBVIOUS
  <2>1. pc[p] \in Writing \/ pc[p] \in {"get", "delete"}
    BY RequestSteps DEF Requests
  <2> QED
    BY <2>1 DEF DryRunReads, Writing
<1>2. CASE Plans(p)
  <2>1. UNCHANGED calVars
    BY <1>2 DEF Plans, Start, TooFewHealthy, Propagate, Collect, Finish, End, Crash, Fetch, FetchFails,
       CollectNext
  <2>2. pc' = pc \/ \E l \in {"idle", "fetch", "propagate", "collect"} : Go(p, l)
    BY <1>2 DEF Plans, Start, TooFewHealthy, Propagate, Collect, Finish, End, Crash, Fetch, FetchFails,
       CollectNext
  <2> QED
    BY <2>1, <2>2 DEF Go, DryRunReads
<1>3. CASE Ensures(p)
  <2>1. UNCHANGED <<calVars, pc>>
    BY <1>3 DEF Ensures, EnsureIndexed, EnsureLookedUp, EnsureLookupFails, Reassert, Take
  <2> QED
    BY <2>1 DEF DryRunReads
<1> QED
  BY <1>1, <1>2, <1>3, PassSteps

\* With -dry-run, SyncOnce requests no insert, update or delete.
THEOREM DryRunWritesNothing == Spec => []DryRunReads
<1>1. Init => DryRunReads
  BY EngineAssumption DEF Init, DryRunReads, WriteCalls
<1>2. ASSUME IInv, DryRunReads, [Next]_vars PROVE DryRunReads'
  <2>1. ASSUME NEW p \in DryRun, NEW q \in Clients, Pass(q) \/ Crash(q) PROVE pc'[p] \notin WriteCalls
    BY <1>2, <2>1, DryStep, OthersStay, EngineAssumption DEF DryRunReads, IInv
  <2>2. ASSUME UNCHANGED pc PROVE DryRunReads'
    BY <1>2, <2>2 DEF DryRunReads
  <2>3. CASE OutageEnds \/ UNCHANGED vars \/ (OwnersAct /\ UNCHANGED <<flaky, local>>)
             \/ \E a \in Accounts, b \in Spare : Rename(a, b)
    BY <2>2, <2>3 DEF OutageEnds, Rename, vars, local
  <2> QED
    BY <1>2, <2>1, <2>3 DEF Next, DryRunReads
<1> QED
  BY <1>1, <1>2, Invariant, PTL DEF Spec

----------------------------------------------------------------------------
(* One pass that writes implements BusyMirror. *)

\* One process runs passes that write, and the owners do not duplicate blocks.
\* Without the first a second block can be inserted (run two_inserts); without
\* the second the owner makes one.
Alone == (\A p, q \in Clients \ DryRun : p = q) /\ "copy" \notin Edits

\* The instance has definitions of its own of what both modules take from Events.
LEMMA SameEvents ==
    /\ Mirror!Event = Event /\ Mirror!Gone = Gone
    /\ \A e : Mirror!Live(e) = Live(e) /\ Mirror!IsOwnedBlock(e) = IsOwnedBlock(e)
    /\ \A e : Mirror!HasIdentity(e) = HasIdentity(e)
    /\ \A e, d, src : Mirror!Mirrors(e, d, src) = Mirrors(e, d, src)
    /\ \A d, s, src : Mirror!Block(d, s, src) = Block(d, s, src)
    /\ \A c, a, b : Mirror!Renamed(c, a, b) = Renamed(c, a, b)
BY DEF Mirror!Event, Event, Mirror!Source, Source, Mirror!Gone, Gone, Mirror!Unused, Unused,
       Mirror!Live, Live, Mirror!IsOwnedBlock, IsOwnedBlock, Mirror!HasIdentity, HasIdentity,
       Mirror!Mirrors, Mirrors, Mirror!Block, Block, Mirror!Renamed, Renamed

LEMMA MissingStep ==
    ASSUME Alone, IInv, DryRunReads, StillMissing, [Next]_vars
    PROVE  StillMissing'
<1> USE DEF IInv, TypeOK, LocalTypeOK
<1> SUFFICES ASSUME NEW p \in Clients, pc'[p] = "post", NEW i \in Ids
             PROVE  ~Mirrors(cal'[i], Target(p)', TargetSource(p)')
  BY DEF StillMissing
<1>1. CASE Pass(p) \/ Crash(p)
  <2>1. InsertReads(p) \/ Reconcile(p)
    <3>1. ~Return(p)
      BY DEF Return, Go
    <3>2. ~Plans(p)
      BY DEF Plans, Start, TooFewHealthy, Propagate, Collect, Finish, End, Crash,
         Fetch, FetchFails, CollectNext, Go
    <3>3. ~Ensures(p)
      <4> SUFFICES ASSUME NEW s \in Ids, NEW d \in healthy[p],
                          EnsureIndexed(p, s, d) \/ EnsureLookedUp(p, s, d) \/ EnsureLookupFails(p, s, d)
                   PROVE  FALSE
        BY DEF Ensures
      <4>1. pc[p] = "propagate"
        BY DEF EnsureIndexed, EnsureLookedUp, EnsureLookupFails, Take
      <4>2. pc' = pc \/ Call(p, s, d, "update") \/ Call(p, s, d, "insert")
        BY DEF EnsureIndexed, EnsureLookedUp, EnsureLookupFails, Reassert
      <4> QED
        BY <4>1, <4>2 DEF Call, Go
    <3>4. ~(PutUnanswered(p) \/ PostUnanswered(p) \/ DeleteUnanswered(p))
      BY DEF PutUnanswered, PostUnanswered, DeleteUnanswered, Go
    <3>5. ~(PutConflict(p) \/ DeleteConflict(p))
      BY <3>1 DEF PutConflict, DeleteConflict, Conflict, ReturnErr, Go
    <3>6. ~(UpdateReads(p) \/ DeleteReads(p))
      BY <3>1 DEF UpdateReads, DeleteReads, ReturnOk, ReturnErr, Go
    <3>7. ~(\/ FindFails(p) \/ Put(p) \/ PutRefused(p) \/ Post(p) \/ PostRefused(p)
            \/ Delete(p) \/ DeleteFindsNothing(p) \/ DeleteRefused(p))
      BY <3>1 DEF FindFails, Put, PutRefused, Post, PostRefused, Delete,
         DeleteFindsNothing, DeleteRefused, ReturnOk, ReturnErr
    <3> QED
      BY <1>1, <3>2, <3>3, <3>4, <3>5, <3>6, <3>7, PassSteps DEF Requests
  <2>2. PICK b \in FindBlockBySource(Target(p), TargetSource(p)) :
           Return(p) \/ (b = NoId /\ UNCHANGED <<plan, op>>)
    BY <2>1 DEF InsertReads, Reconcile, ReturnOk, ReturnErr
  <2>3. b = NoId /\ UNCHANGED <<plan, op>>
    BY <2>2 DEF Return, Go
  <2>4. TargetSource(p) \in Names \X Ids
    BY <2>1, PairTypes DEF InsertReads, Reconcile, Writing
  <2>5. ~Mirrors(cal[i], Target(p), TargetSource(p))
    BY <2>2, <2>3, <2>4, NotFound
  <2>6. cal' = cal
    BY <2>1 DEF InsertReads, Reconcile, calVars
  <2> QED
    BY <2>3, <2>5, <2>6 DEF Target, TargetSource, Identity, plan, op
<1>2. CASE OwnersAct /\ UNCHANGED <<flaky, local>>
  <2>1. pc[p] = "post" /\ Target(p)' = Target(p) /\ TargetSource(p)' = TargetSource(p)
    BY <1>2 DEF local, plan, op, Target, TargetSource, Identity
  <2>2. ~Mirrors(cal[i], Target(p), TargetSource(p)) /\ TargetSource(p) # NoSource
    BY <2>1, PairTypes, EventsAssumption DEF StillMissing, Writing
  <2>3. PICK j \in Ids, e \in Event : Store(j, e) /\ Edited(j, e)
    BY <1>2, OwnersEffect
  <2>4. cal'[i] = cal[i] \/ (cal'[i] = e /\ i = j)
    BY <2>3 DEF Store, CalendarTypeOK
  <2>5. CASE cal'[i] = e /\ i = j
    BY <2>1, <2>2, <2>3, <2>5 DEF Alone, Edited, Derived, Mirrors, IsOwnedBlock
  <2> QED
    BY <2>1, <2>2, <2>4, <2>5
<1>3. CASE OutageEnds \/ UNCHANGED vars
  BY <1>3 DEF OutageEnds, vars, calVars, local, plan, op, StillMissing, Target, TargetSource, Identity
<1>4. ASSUME NEW a \in Accounts, NEW b \in Spare, Rename(a, b) PROVE FALSE
  BY <1>4 DEF Rename, local
<1>5. ASSUME NEW q \in Clients \ {p}, Pass(q) \/ Crash(q) PROVE ~Mirrors(cal'[i], Target(p)', TargetSource(p)')
  <2>1. Stays(p) /\ pc[p] = "post"
    BY <1>5, OthersKeep DEF Stays
  <2>2. q \in DryRun
    BY <2>1 DEF DryRunReads, WriteCalls, Alone
  <2>3. cal' = cal
    BY <1>5, <2>2, DryStep DEF calVars
  <2> QED
    BY <2>1, <2>3 DEF Stays, StillMissing, Target, TargetSource, Identity
<1> QED
  BY <1>1, <1>2, <1>3, <1>4, <1>5 DEF Next

LEMMA MirrorStep ==
    ASSUME Alone, IInv, StillMissing, [Next]_vars
    PROVE  [Mirror!Next]_<<cal, edits>>
<1> USE DEF IInv, TypeOK, CalendarTypeOK
<1>1. ASSUME NEW p \in Clients, Effect(p) PROVE [Mirror!Next]_<<cal, edits>>
  <2>1. CASE cal' = cal
    BY <1>1, <2>1 DEF Effect
  <2>2. ASSUME NEW i \in Ids, NEW s \in Spans, Moves(i, s) PROVE Mirror!Move(i, s)
    BY <1>1, <2>2, SameEvents DEF Effect, Moves, Store, Mirror!Move
  <2>3. ASSUME NEW i \in Ids, Removes(i) PROVE Mirror!Remove(i)
    BY <1>1, <2>3, SameEvents DEF Effect, Removes, Store, Mirror!Remove
  <2>4. ASSUME Inserts(p)
        PROVE  \E i \in Ids, d \in Names, src \in Names \X Ids, span \in Spans :
                  Mirror!Create(i, d, src, span) /\ Live(cal'[i])
    <3>1. /\ Target(p) \in Names /\ TargetSource(p) \in Names \X Ids /\ TargetSpan(p) \in Spans
      BY <2>4, PairTypes DEF Inserts, Writing
    <3>2. TargetSource(p)[1] # Target(p)
      BY <2>4 DEF Inserts, PassOK, Knows, Writing, ToMirror, Target, TargetSource, Identity
    <3>3. \A j \in Ids : ~Mirrors(cal[j], Target(p), TargetSource(p))
      BY <2>4 DEF Inserts, StillMissing
    <3>4. PICK i \in Ids : /\ cal[i].state = "unused"
                           /\ Store(i, Block(Target(p), TargetSpan(p), TargetSource(p)))
      BY <2>4, FreshIds DEF Inserts, InsertEvent
    <3>5. Mirror!Create(i, Target(p), TargetSource(p), TargetSpan(p)) /\ Live(cal'[i])
      BY <1>1, <3>2, <3>3, <3>4, SameEvents DEF Effect, Store, Mirror!Create, Live, Block
    <3> QED
      BY <3>1, <3>5
  <2> QED
    BY <1>1, <2>1, <2>2, <2>3, <2>4, SameEvents DEF Effect, Mirror!Next
<1>2. CASE OwnersAct
  <2>1. PICK i \in Ids, e \in Event : Store(i, e) /\ Edited(i, e)
    BY <1>2, OwnersEffect
  <2>2. edits' = edits + 1
    BY <1>2, OwnersEffect
  <2>3. IsOwnedBlock(e) => /\ IsOwnedBlock(cal[i]) /\ e.acct = cal[i].acct
                           /\ e.source \in {cal[i].source, NoSource}
    BY <2>1 DEF Edited, Derived, IsOwnedBlock, Alone
  <2>4. Mirror!OwnerEdits(i, e) /\ cal'[i] = e
    BY <2>1, <2>2, <2>3, SameEvents DEF Store, Mirror!OwnerEdits
  <2> QED
    BY <2>4, SameEvents DEF Mirror!Next
<1>3. ASSUME NEW a \in Accounts, NEW b \in Spare, Rename(a, b) PROVE Mirror!Next
  <2>1. b \notin config /\ cal' = Renamed(cal, a, b) /\ edits' = edits + 1
    BY <1>3 DEF Rename, Edit
  <2>2. ASSUME NEW i \in Ids
        PROVE  /\ Live(cal[i]) => cal[i].acct # b
               /\ HasIdentity(cal[i]) => cal[i].source[1] # b
    BY <2>1, NamesDef DEF NameOK
  <2>3. Mirror!Rename(a, b) /\ a \in Names
    BY <2>1, <2>2, CalendarAssumption, SameEvents DEF Mirror!Rename
  <2> QED
    BY <2>3, SameEvents DEF Mirror!Next
<1>4. CASE OutageEnds \/ UNCHANGED vars
  BY <1>4 DEF OutageEnds, vars, calVars
<1> QED
  BY <1>1, <1>2, <1>3, <1>4, PassEffect DEF Next

\* The block an insert creates is still missing when it is created, whether the
\* lookup before it or the one after an ambiguous insert found nothing.
THEOREM MissingUntilInserted == Alone => (Spec => []StillMissing)
<1> SUFFICES ASSUME Alone PROVE Spec => []StillMissing
  OBVIOUS
<1>1. Init => StillMissing
  BY DEF Init, StillMissing
<1>2. IInv /\ DryRunReads /\ StillMissing /\ [Next]_vars => StillMissing'
  BY MissingStep
<1> QED
  BY <1>1, <1>2, Invariant, DryRunWritesNothing, PTL DEF Spec

\* SyncOnce, with its listings, lookups, conditional writes, retries and
\* crashes, changes the calendars as BusyMirror does: one atomic step per write.
THEOREM Implements == Alone => (Spec => Refines)
<1> SUFFICES ASSUME Alone PROVE Spec => Refines
  OBVIOUS
<1>1. Init => Mirror!Init
  <2> SUFFICES ASSUME Init PROVE Mirror!Init
    OBVIOUS
  <2>1. IInv
    BY Initially
  <2>2. \A i \in Ids : ~cal[i].owner /\ cal[i].source = NoSource
    BY DEF Init, CalendarInit, RealEvent, Unused
  <2> QED
    BY <2>1, <2>2, SameEvents DEF IInv, TypeOK, CalendarTypeOK, Init, CalendarInit, Mirror!Init
<1>2. IInv /\ StillMissing /\ [Next]_vars => [Mirror!Next]_<<cal, edits>>
  BY MirrorStep
<1>3. Spec => []StillMissing
  BY MissingUntilInserted
<1> QED
  BY <1>1, <1>2, <1>3, Invariant, PTL DEF Spec, Refines, Mirror!Spec

MirrorFacts == INSTANCE BusyMirrorProofs

LEMMA SameMirror ==
    /\ Mirror!Init => MirrorFacts!Init
    /\ Mirror!Next => MirrorFacts!Next
    /\ MirrorFacts!UniqueBlocks(cal) => UniqueBlocks(cal)
<1>1. /\ MirrorFacts!Event = Event /\ MirrorFacts!Gone = Gone
      /\ \A e : MirrorFacts!Live(e) = Live(e) /\ MirrorFacts!IsOwnedBlock(e) = IsOwnedBlock(e)
      /\ \A e : MirrorFacts!HasIdentity(e) = HasIdentity(e)
      /\ \A e, d, src : MirrorFacts!Mirrors(e, d, src) = Mirrors(e, d, src)
      /\ \A d, s, src : MirrorFacts!Block(d, s, src) = Block(d, s, src)
      /\ \A c, a, b : MirrorFacts!Renamed(c, a, b) = Renamed(c, a, b)
  BY DEF MirrorFacts!Event, Event, MirrorFacts!Source, Source, MirrorFacts!Gone, Gone,
         MirrorFacts!Unused, Unused, MirrorFacts!Live, Live, MirrorFacts!IsOwnedBlock, IsOwnedBlock,
         MirrorFacts!HasIdentity, HasIdentity, MirrorFacts!Mirrors, Mirrors, MirrorFacts!Block, Block,
         MirrorFacts!Renamed, Renamed
<1>2. \A i, d, src, span : Mirror!Create(i, d, src, span) => MirrorFacts!Create(i, d, src, span)
  BY <1>1, SameEvents DEF Mirror!Create, MirrorFacts!Create
<1>3. \A i, span : Mirror!Move(i, span) => MirrorFacts!Move(i, span)
  BY <1>1, SameEvents DEF Mirror!Move, MirrorFacts!Move
<1>4. \A i : Mirror!Remove(i) => MirrorFacts!Remove(i)
  BY <1>1, SameEvents DEF Mirror!Remove, MirrorFacts!Remove
<1>5. \A i, e : Mirror!OwnerEdits(i, e) => MirrorFacts!OwnerEdits(i, e)
  BY <1>1, SameEvents DEF Mirror!OwnerEdits, MirrorFacts!OwnerEdits
<1>6. \A a, b : Mirror!Rename(a, b) => MirrorFacts!Rename(a, b)
  BY <1>1, SameEvents DEF Mirror!Rename, MirrorFacts!Rename
<1>7. Mirror!Next => MirrorFacts!Next
  BY <1>1, <1>2, <1>3, <1>4, <1>5, <1>6, SameEvents DEF Mirror!Next, MirrorFacts!Next
<1>8. Mirror!Init => MirrorFacts!Init
  BY <1>1, SameEvents DEF Mirror!Init, MirrorFacts!Init
<1>9. MirrorFacts!UniqueBlocks(cal) => UniqueBlocks(cal)
  BY <1>1 DEF UniqueBlocks, MirrorFacts!UniqueBlocks
<1> QED
  BY <1>7, <1>8, <1>9

\* One source event has at most one block on a calendar, however often inserts
\* are retried, passes fail or are killed, and others follow.
THEOREM OneBlock == Alone => (Spec => []AtMostOneBlock)
<1> SUFFICES ASSUME Alone PROVE Spec => []AtMostOneBlock
  OBVIOUS
<1>1. MirrorFacts!Spec => [](MirrorFacts!UniqueBlocks(cal) /\ MirrorFacts!NoEchoes(cal))
  BY MirrorFacts!MirrorKeeps, EngineAssumption, EventsAssumption
<1>2. /\ Mirror!Init => MirrorFacts!Init
      /\ [Mirror!Next]_<<cal, edits>> => [MirrorFacts!Next]_<<cal, edits>>
      /\ MirrorFacts!UniqueBlocks(cal) => UniqueBlocks(cal)
  BY SameMirror
<1> QED
  BY <1>1, <1>2, Implements, PTL DEF Refines, AtMostOneBlock, Mirror!Spec, MirrorFacts!Spec

----------------------------------------------------------------------------
(* What the history variables remember. *)

\* The history variables restrict nothing.
LEMMA ForgetsStep == (HInit => Init) /\ ([HNext]_hvars => [Next]_vars)
<1>1. HInit => Init
  BY DEF HInit
<1>2. [HNext]_hvars => [Next]_vars
  BY DEF HNext, hvars
<1> QED
  BY <1>1, <1>2

LEMMA Forgets == HSpec => Spec
BY ForgetsStep, PTL DEF HSpec, Spec

\* From e to f, while no account is renamed, an event is never born again, keeps
\* its account while it lives, and gets no other source identity than it has.
Aged(e, f) == e.state # "unused" =>
    /\ f.state # "unused"
    /\ Live(f) => Live(e) /\ f.acct = e.acct
    /\ HasIdentity(f) => f.source = e.source

\* A source identity that an event has, or the block that a pass writes.
Known(src) ==
    \/ \E j \in Ids : HasIdentity(cal[j]) /\ cal[j].source = src
    \/ \E p \in Clients : pc[p] \in Writing /\ src = TargetSource(p)

LEMMA AgedStore ==
    ASSUME CalendarTypeOK, NEW i \in Ids, NEW e \in Event, Store(i, e), Aged(cal[i], e),
           HasIdentity(e) => Known(e.source)
    PROVE  \A j \in Ids : /\ Aged(cal[j], cal'[j])
                          /\ HasIdentity(cal'[j]) => Known(cal'[j].source)
<1>1. \A j \in Ids : cal'[j] = IF j = i THEN e ELSE cal[j]
  BY DEF Store, CalendarTypeOK
<1> QED
  BY <1>1 DEF Aged, Known

LEMMA Ages ==
    ASSUME IInv, Next, ~\E a \in Accounts, b \in Spare : Rename(a, b)
    PROVE  /\ config' = config
           /\ \A j \in Ids : /\ Aged(cal[j], cal'[j])
                             /\ HasIdentity(cal'[j]) => Known(cal'[j].source)
<1> DEFINE Done == \A j \in Ids : /\ Aged(cal[j], cal'[j])
                                  /\ HasIdentity(cal'[j]) => Known(cal'[j].source)
<1> USE DEF IInv, TypeOK
<1>1. CASE cal' = cal
  <2>1. Done
    BY <1>1 DEF Aged, Known
  <2> QED
    BY <1>1, <2>1, PassEffect, OwnersEffect DEF Effect, Next, OutageEnds, calVars
<1>2. ASSUME NEW p \in Clients, Effect(p) PROVE Done
  <2>1. ASSUME NEW i \in Ids, NEW s \in Spans, Moves(i, s) PROVE Done
    <3>1. cal[i] \in Event /\ [cal[i] EXCEPT !.span = s] \in Event
      BY FieldTypes DEF CalendarTypeOK
    <3>2. Aged(cal[i], [cal[i] EXCEPT !.span = s])
      <4>1. /\ [cal[i] EXCEPT !.span = s].state = cal[i].state
            /\ [cal[i] EXCEPT !.span = s].acct = cal[i].acct
            /\ [cal[i] EXCEPT !.span = s].source = cal[i].source
        BY <3>1 DEF Event
      <4> QED
        BY <4>1 DEF Aged, HasIdentity, Live
    <3>3. Known(cal[i].source)
      BY <2>1 DEF Known, Moves
    <3>4. [cal[i] EXCEPT !.span = s].source = cal[i].source
      BY <3>1 DEF Event
    <3> QED
      BY <2>1, <3>1, <3>2, <3>3, <3>4, AgedStore DEF Moves
  <2>2. ASSUME NEW i \in Ids, Removes(i) PROVE Done
    <3>1. Gone \in Event /\ Gone.state = "gone" /\ Gone.source = NoSource
      BY EventTypes DEF Gone, Unused
    <3> QED
      BY <2>2, <3>1, AgedStore DEF Removes, Aged, Live, HasIdentity
  <2>3. ASSUME Inserts(p) PROVE Done
    <3> DEFINE b == Block(Target(p), TargetSpan(p), TargetSource(p))
    <3>1. b \in Event /\ b.source = TargetSource(p) /\ pc[p] \in Writing
      BY <2>3, PairTypes, EventTypes DEF Inserts, Writing, Block
    <3>2. PICK i \in Fresh : Store(i, b)
      BY <2>3 DEF Inserts, InsertEvent
    <3>3. i \in Ids /\ Aged(cal[i], b) /\ Known(b.source)
      BY <3>1, FreshIds DEF Aged, Known
    <3> HIDE DEF b
    <3> QED
      BY <3>1, <3>2, <3>3, AgedStore
  <2>4. CASE cal' = cal
    BY <2>4 DEF Aged, Known
  <2> QED
    BY <1>2, <2>1, <2>2, <2>3, <2>4 DEF Effect
<1>3. CASE OwnersAct
  <2>1. PICK i \in Ids, e \in Event : Store(i, e) /\ Edited(i, e)
    BY <1>3, OwnersEffect
  <2>2. Aged(cal[i], e) /\ (HasIdentity(e) => Known(e.source))
    BY <2>1 DEF Edited, Derived, Aged, Known, HasIdentity
  <2> QED
    BY <1>3, <2>1, <2>2, AgedStore, OwnersEffect
<1>4. CASE OutageEnds
  BY <1>1, <1>4 DEF OutageEnds, calVars
<1> QED
  BY <1>2, <1>3, <1>4, PassEffect DEF Next, Effect

----------------------------------------------------------------------------
(* Tags and listings. *)

\* A source identity was made from an event that existed, and names its account
\* for as long as the account has that name.
TagOK(src) ==
    /\ cal[src[2]].state # "unused"
    /\ Live(cal[src[2]]) /\ src[1] \in config => cal[src[2]].acct = src[1]

TagsOK == \A i \in Ids : HasIdentity(cal[i]) => TagOK(cal[i].source)

\* A listed event lies where it was listed, with the tags it was listed with, or
\* has lost its tags since, or is gone.
ListedOK(p, i) == Live(view[p][i]) =>
    /\ cal[i].state # "unused"
    /\ Live(cal[i]) => cal[i].acct = view[p][i].acct
    /\ HasIdentity(cal[i]) => cal[i].source = view[p][i].source

ListingsOK == \A p \in Clients, i \in Ids : ListedOK(p, i)

LEMMA KnownTag ==
    ASSUME IInv, TagsOK, ListingsOK, NEW src, Known(src)
    PROVE  TagOK(src) /\ src \in Names \X Ids
<1> USE DEF IInv, TypeOK, CalendarTypeOK
<1>1. CASE \E j \in Ids : HasIdentity(cal[j]) /\ cal[j].source = src
  BY <1>1 DEF TagsOK, HasIdentity, Event, Source
<1>2. ASSUME NEW p \in Clients, pc[p] \in Writing, src = TargetSource(p)
      PROVE  TagOK(src) /\ src \in Names \X Ids
  <2>1. ToMirror(p, cur[p]) /\ cur[p][1] \in Ids /\ src = <<view[p][cur[p][1]].acct, cur[p][1]>>
    BY <1>2, PairTypes DEF PassOK, Knows, TargetSource, Identity
  <2>2. ListedOK(p, cur[p][1]) /\ Live(view[p][cur[p][1]])
    BY <2>1 DEF ListingsOK, ToMirror, BlocksTime
  <2>3. src[1] = view[p][cur[p][1]].acct /\ src[2] = cur[p][1] /\ src \in Names \X Ids
    <3>1. src \in Names \X Ids
      BY <1>2, PairTypes
    <3> QED
      BY <2>1, <3>1
  <2> QED
    BY <2>2, <2>3 DEF TagOK, ListedOK
<1> QED
  BY <1>1, <1>2 DEF Known

LEMMA ListingsStep ==
    ASSUME IInv, TagsOK, ListingsOK, [Next]_vars
    PROVE  TagsOK' /\ ListingsOK'
<1> USE DEF IInv
<1>1. CASE Next /\ ~\E a \in Accounts, b \in Spare : Rename(a, b)
  <2>1. /\ config' = config
        /\ \A j \in Ids : Aged(cal[j], cal'[j])
        /\ \A j \in Ids : HasIdentity(cal'[j]) => Known(cal'[j].source)
    BY <1>1, Ages
  <2>2. TagsOK'
    <3> SUFFICES ASSUME NEW i \in Ids, HasIdentity(cal'[i]) PROVE TagOK(cal[i].source)'
      BY DEF TagsOK
    <3>1. TagOK(cal'[i].source) /\ cal'[i].source[2] \in Ids
      BY <2>1, KnownTag
    <3>2. Aged(cal[cal'[i].source[2]], cal'[cal'[i].source[2]])
      BY <2>1, <3>1
    <3> QED
      BY <2>1, <3>1, <3>2 DEF TagOK, Aged
  <2>3. ListingsOK'
    <3> SUFFICES ASSUME NEW q \in Clients, NEW i \in Ids PROVE ListedOK(q, i)'
      BY DEF ListingsOK
    <3>1. \/ view'[q][i] \in {view[q][i], Unused} \/ view'[q][i] = cal[i]
      BY <1>1, ViewStays DEF Next, OutageEnds, local, plan
    <3>2. Aged(cal[i], cal'[i]) /\ ListedOK(q, i)
      BY <2>1 DEF ListingsOK
    <3>3. ~Live(Unused)
      BY DEF Live, Unused
    <3>4. CASE view'[q][i] = view[q][i]
      BY <3>2, <3>4 DEF ListedOK, Aged, Live, HasIdentity
    <3>5. CASE view'[q][i] = cal[i]
      BY <3>2, <3>5 DEF ListedOK, Aged, Live
    <3>6. CASE view'[q][i] = Unused
      BY <3>3, <3>6 DEF ListedOK
    <3> QED
      BY <3>1, <3>4, <3>5, <3>6
  <2> QED
    BY <2>2, <2>3
<1>2. ASSUME NEW a \in Accounts, NEW b \in Spare, Rename(a, b) PROVE TagsOK' /\ ListingsOK'
  <2>1. /\ a \in config \ Spare /\ b \in Spare \ config /\ config' = (config \ {a}) \cup {b}
        /\ \A i \in Ids : cal'[i] = IF Live(cal[i]) /\ cal[i].acct = a
                                    THEN [cal[i] EXCEPT !.acct = b] ELSE cal[i]
    BY <1>2 DEF Rename, Renamed
  <2>2. ASSUME NEW i \in Ids
        PROVE  /\ cal'[i].source = cal[i].source /\ cal'[i].state = cal[i].state
               /\ cal'[i].acct = cal[i].acct \/ (cal[i].acct = a /\ Live(cal[i]))
    BY <2>1 DEF TypeOK, CalendarTypeOK, Event
  <2>3. TagsOK'
    <3> SUFFICES ASSUME NEW i \in Ids, HasIdentity(cal'[i]) PROVE TagOK(cal[i].source)'
      BY DEF TagsOK
    <3>1. HasIdentity(cal[i]) /\ TagOK(cal[i].source) /\ cal[i].source \in Names \X Ids
      BY <2>2, KnownTag DEF HasIdentity, Known
    <3>2. cal[i].source[1] # b
      BY <2>1, <3>1 DEF NamesOK
    <3> QED
      BY <2>1, <2>2, <3>1, <3>2 DEF TagOK, Live
  <2>4. \A p \in Clients, i \in Ids : ~Live(view'[p][i])
    <3>1. view' = view /\ \A p \in Clients : view[p] = NoView
      BY <1>2 DEF Rename, PassOK, Knows, local, plan
    <3>2. \A i \in Ids : ~Live(NoView[i])
      BY DEF NoView, Unused, Live
    <3> QED
      BY <3>1, <3>2
  <2> QED
    BY <2>3, <2>4 DEF ListingsOK, ListedOK
<1>3. CASE UNCHANGED vars
  BY <1>3 DEF vars, calVars, local, plan, TagsOK, TagOK, ListingsOK, ListedOK
<1> QED
  BY <1>1, <1>2, <1>3

----------------------------------------------------------------------------
(* The blocks a pass collects. *)

Collecting == {"collect", "get", "delete"}

\* The blocks pass p has found stale and may still delete.
Doomed(p) == garbage[p] \cup {b \in {held[p]} : pc[p] \in {"get", "delete"}}

\* A step of pass p, as far as its listings and the blocks it collects go.
CollectionStep(p) ==
    \/ Starts(p) /\ UNCHANGED <<healthy, view, garbage>>
    \/ \E a \in todo[p] : Fetch(p, a)
    \/ Ends(p) /\ (garbage[p] = {} \/ pc[p] \in Collecting => garbage'[p] = {})
    \/ Collect(p)
    \/ /\ pc[p] # "idle" /\ pc'[p] # "idle" /\ UNCHANGED <<healthy, view>>
       /\ garbage'[p] \subseteq garbage[p] /\ Doomed(p)' \subseteq Doomed(p)
       /\ pc'[p] \in Collecting <=> pc[p] \in Collecting

LEMMA CollectionSteps ==
    ASSUME TypeOK, PassOK, NEW p \in Clients, Pass(p) \/ Crash(p)
    PROVE  /\ CollectionStep(p)
           /\ \A q \in Clients \ {p} :
                 /\ pc'[q] = pc[q] /\ held'[q] = held[q] /\ healthy'[q] = healthy[q]
                 /\ view'[q] = view[q] /\ garbage'[q] = garbage[q]
<1> DEFINE Others == \A q \in Clients \ {p} :
                        /\ healthy'[q] = healthy[q] /\ view'[q] = view[q] /\ garbage'[q] = garbage[q]
<1> USE DEF TypeOK, LocalTypeOK
<1>1. ASSUME Requests(p) PROVE CollectionStep(p) /\ Others
  <2>1. RequestMoves(p) /\ (pc[p] \in Writing \/ pc[p] \in {"get", "delete"})
    BY <1>1, RequestSteps DEF Requests
  <2>2. UNCHANGED plan
    BY <2>1 DEF RequestMoves, Return
  <2>3. \/ pc'[p] \in {"propagate"} \cup Writing /\ pc[p] \in Writing
        \/ pc'[p] = "collect" /\ pc[p] \in {"get", "delete"}
        \/ pc'[p] \in {"get", "delete"} /\ pc[p] \in {"get", "delete"} /\ held' = held
    BY <2>1 DEF RequestMoves, Return, Go, Writing
  <2> QED
    BY <2>2, <2>3 DEF CollectionStep, Doomed, Collecting, Writing, plan
<1>2. ASSUME Ensures(p) PROVE CollectionStep(p) /\ Others
  <2>1. /\ pc[p] = "propagate" /\ UNCHANGED <<healthy, view, garbage>>
        /\ pc' = pc \/ Go(p, "update") \/ Go(p, "insert")
    BY <1>2 DEF Ensures, EnsureIndexed, EnsureLookedUp, EnsureLookupFails, Reassert, Call, Take
  <2>2. pc'[p] \in {"propagate", "update", "insert"}
    BY <2>1 DEF Go
  <2> QED
    BY <2>1, <2>2 DEF CollectionStep, Doomed, Collecting
<1>3. ASSUME Start(p) \/ Propagate(p) \/ (\E a \in todo[p] : FetchFails(p, a))
      PROVE  CollectionStep(p) /\ Others
  <2>1. /\ UNCHANGED <<healthy, view, garbage>>
        /\ \/ pc[p] = "idle" /\ pc'[p] = "fetch"
           \/ pc[p] = "fetch" /\ pc'[p] \in {"fetch", "propagate"}
    BY <1>3 DEF Start, Propagate, FetchFails, Go
  <2> QED
    BY <2>1 DEF CollectionStep, Starts, Doomed, Collecting
<1>4. ASSUME NEW a \in todo[p], Fetch(p, a) PROVE CollectionStep(p) /\ Others
  BY <1>4 DEF CollectionStep, Fetch
<1>5. ASSUME TooFewHealthy(p) \/ Finish(p) \/ Crash(p) PROVE CollectionStep(p) /\ Others
  <2>1. pc[p] # "idle" /\ pc'[p] = "idle" /\ Others
    BY <1>5 DEF TooFewHealthy, Finish, Crash, End, Go
  <2>2. garbage'[p] = {} \/ (pc[p] = "fetch" /\ garbage' = garbage)
    BY <1>5 DEF TooFewHealthy, Finish, Crash, End
  <2> QED
    BY <2>1, <2>2 DEF CollectionStep, Ends, Collecting
<1>6. ASSUME Collect(p) PROVE CollectionStep(p) /\ Others
  BY <1>6 DEF CollectionStep, Collect
<1>7. ASSUME NEW b \in garbage[p], CollectNext(p, b) PROVE CollectionStep(p) /\ Others
  <2>1. /\ pc[p] = "collect" /\ UNCHANGED <<healthy, view>>
        /\ garbage' = [garbage EXCEPT ![p] = @ \ {b}]
        /\ pc' = pc \/ (Go(p, "get") /\ held' = [held EXCEPT ![p] = b])
    BY <1>7 DEF CollectNext
  <2>2. pc'[p] = "collect" \/ (pc'[p] = "get" /\ held'[p] = b)
    BY <2>1 DEF Go
  <2> QED
    BY <2>1, <2>2 DEF CollectionStep, Doomed, Collecting
<1> QED
  BY <1>1, <1>2, <1>3, <1>4, <1>5, <1>6, <1>7, PassSteps, OthersStay DEF Plans

\* An event that blocked time ever since the pass began is in the listing of its
\* account, and no block for it is collected.
SteadyOK(p) ==
    /\ steady[p] \subseteq Busy
    /\ pc[p] \notin Collecting => garbage[p] = {}
    /\ pc[p] # "idle" => \A s \in steady[p] :
          cal[s].acct \in healthy[p] => BlocksTime(view[p][s]) /\ view[p][s].acct = cal[s].acct
    /\ \A b \in Doomed(p) : /\ cal[b].state # "unused"
                            /\ HasIdentity(cal[b]) => cal[b].source[2] \notin steady[p]

HistoryInv == TagsOK /\ ListingsOK /\ \A p \in Clients : SteadyOK(p)

\* What is stale for pass p mirrors no event that blocked time all along.
LEMMA StaleNotSteady ==
    ASSUME IInv, HistoryInv, NEW p \in Clients, pc[p] # "idle", NEW b \in Stale(p)
    PROVE  /\ cal[b].state # "unused"
           /\ HasIdentity(cal[b]) => cal[b].source[2] \notin steady[p]
<1>1. b \in Ids /\ ListedOK(p, b) /\ Live(view[p][b])
  BY DEF Stale, HistoryInv, ListingsOK, IsOwnedBlock
<1>2. ASSUME HasIdentity(cal[b]), cal[b].source[2] \in steady[p] PROVE FALSE
  <2> DEFINE src == view[p][b].source
             s == src[2]
  <2>1. cal[b].source = src /\ src \in Names \X Ids
    BY <1>1, <1>2, KnownTag DEF ListedOK, HistoryInv, Known
  <2>2. src[1] \in healthy[p] /\ src \notin LiveSources(p)
    BY DEF Stale
  <2>3. src[1] \in config /\ TagOK(src)
    BY <1>1, <1>2, <2>1, <2>2 DEF IInv, PassOK, Knows, HistoryInv, TagsOK
  <2>4. s \in steady[p] /\ s \in Busy
    BY <1>2, <2>1 DEF HistoryInv, SteadyOK
  <2>5. cal[s].acct = src[1]
    BY <2>3, <2>4 DEF TagOK, Busy, BlocksTime
  <2>6. BlocksTime(view[p][s]) /\ view[p][s].acct = src[1]
    BY <2>2, <2>4, <2>5 DEF HistoryInv, SteadyOK
  <2>7. src = Identity(p, s) /\ s \in Ids
    BY <2>1, <2>6 DEF Identity
  <2> QED
    BY <2>2, <2>6, <2>7 DEF LiveSources
<1> QED
  BY <1>1, <1>2 DEF ListedOK

LEMMA BusyAges ==
    ASSUME IInv, Next, ~\E a \in Accounts, b \in Spare : Rename(a, b),
           NEW s \in Busy, s \in Busy'
    PROVE  cal'[s].acct = cal[s].acct
BY Ages DEF Busy, BlocksTime, Aged, Live

LEMMA SteadyStep ==
    ASSUME IInv, HistoryInv, [HNext]_hvars, NEW p \in Clients
    PROVE  SteadyOK(p)'
<1> USE DEF HistoryInv
<1>0. CASE UNCHANGED hvars
  BY <1>0 DEF hvars, vars, calVars, local, plan, op, SteadyOK, Busy, Doomed
<1>1. CASE HNext
  <2>0. steady'[p] = IF Starts(p) THEN Busy' ELSE steady[p] \cap Busy'
    BY <1>1 DEF HNext, RememberSteady
  <2>1. ASSUME NEW a \in Accounts, NEW b \in Spare, Rename(a, b) PROVE SteadyOK(p)'
    <3>1. pc[p] = "idle" /\ pc'[p] = "idle" /\ garbage' = garbage /\ Doomed(p) = {}
      BY <2>1 DEF Rename, local, plan, SteadyOK, Doomed, Collecting
    <3> QED
      BY <2>0, <3>1 DEF SteadyOK, Doomed, Starts
  <2> SUFFICES ASSUME ~\E a \in Accounts, b \in Spare : Rename(a, b) PROVE SteadyOK(p)'
    BY <2>1
  <2>2. /\ steady'[p] \subseteq Busy'
        /\ ~Starts(p) => /\ steady'[p] \subseteq steady[p]
                         /\ \A s \in steady'[p] : s \in Ids /\ cal'[s].acct = cal[s].acct
    BY <1>1, <2>0, BusyAges DEF HNext, SteadyOK, Busy
  <2>3. \A b \in Ids : Aged(cal[b], cal'[b])
    BY <1>1, Ages DEF HNext
  \* A step that neither starts the pass nor widens what it collects.
  <2>4. ASSUME ~Starts(p), Doomed(p)' \subseteq Doomed(p), garbage'[p] \subseteq garbage[p],
               pc[p] # "idle" \/ pc'[p] = "idle",
               pc'[p] # "idle" => /\ healthy'[p] = healthy[p] /\ view'[p] = view[p]
                                  /\ pc'[p] \in Collecting <=> pc[p] \in Collecting,
               pc'[p] = "idle" => garbage'[p] = {}
        PROVE  SteadyOK(p)'
    <3>1. pc'[p] \notin Collecting => garbage'[p] = {}
      BY <2>4 DEF SteadyOK
    <3>2. pc'[p] # "idle" => \A s \in steady'[p] :
             cal'[s].acct \in healthy'[p] => BlocksTime(view'[p][s]) /\ view'[p][s].acct = cal'[s].acct
      BY <2>2, <2>4 DEF SteadyOK
    <3>3. ASSUME NEW b \in Doomed(p)'
          PROVE  /\ cal'[b].state # "unused"
                 /\ HasIdentity(cal'[b]) => cal'[b].source[2] \notin steady'[p]
      <4>1. b \in Ids
        BY <2>4 DEF Doomed, IInv, TypeOK, LocalTypeOK, PassOK, Knows
      <4>2. /\ cal[b].state # "unused"
            /\ HasIdentity(cal[b]) => cal[b].source[2] \notin steady[p]
        BY <2>4 DEF SteadyOK
      <4>3. Aged(cal[b], cal'[b]) /\ steady'[p] \subseteq steady[p]
        BY <2>2, <2>3, <2>4, <4>1
      <4> QED
        BY <4>2, <4>3 DEF Aged, HasIdentity
    <3> QED
      BY <2>2, <3>1, <3>2, <3>3 DEF SteadyOK
  <2>5. ASSUME Pass(p) \/ Crash(p) PROVE SteadyOK(p)'
    <3>0. CollectionStep(p) /\ cal' \in [Ids -> Event]
      BY <2>5, <1>1, Step, CollectionSteps DEF IInv, HNext, TypeOK, CalendarTypeOK
    <3>1. CASE Starts(p) /\ UNCHANGED <<healthy, view, garbage>>
      <4>1. pc'[p] = "fetch" /\ garbage'[p] = {} /\ healthy'[p] = {}
        BY <3>1 DEF Starts, SteadyOK, Collecting, IInv, PassOK, Knows
      <4> QED
        BY <2>2, <4>1 DEF SteadyOK, Doomed, Collecting
    <3>2. ASSUME NEW a \in todo[p], Fetch(p, a) PROVE SteadyOK(p)'
      <4>1. /\ pc' = pc /\ pc[p] = "fetch" /\ garbage' = garbage /\ cal' = cal
            /\ healthy'[p] = healthy[p] \cup {a} /\ config' = config
            /\ view'[p] = [i \in Ids |-> IF i \in ListEvents(a) THEN cal[i] ELSE view[p][i]]
        BY <3>2 DEF Fetch, calVars, IInv, TypeOK, LocalTypeOK
      <4>2. ~Starts(p) /\ Doomed(p)' = {} /\ garbage'[p] = {}
        BY <4>1 DEF Starts, Doomed, SteadyOK, Collecting
      <4>3. ASSUME NEW s \in steady'[p], cal'[s].acct \in healthy'[p]
            PROVE  BlocksTime(view'[p][s]) /\ view'[p][s].acct = cal'[s].acct
        <5>1. s \in Busy /\ s \in Ids /\ s \in steady[p]
          BY <2>2, <4>2 DEF SteadyOK
        <5>2. CASE cal[s].acct = a
          <6>1. s \in ListEvents(a)
            BY <5>1, <5>2 DEF Busy, ListEvents, BlocksTime
          <6> QED
            BY <4>1, <5>1, <6>1 DEF Busy
        <5>3. CASE cal[s].acct # a
          <6>1. s \notin ListEvents(a)
            BY <5>3 DEF ListEvents
          <6> QED
            BY <4>1, <4>3, <5>1, <5>3, <6>1 DEF SteadyOK
        <5> QED
          BY <5>2, <5>3
      <4> QED
        BY <2>2, <4>2, <4>3 DEF SteadyOK
    <3>3. CASE Ends(p) /\ (garbage[p] = {} \/ pc[p] \in Collecting => garbage'[p] = {})
      <4>1. garbage'[p] = {} /\ pc'[p] = "idle" /\ Doomed(p)' = {}
        BY <3>3 DEF SteadyOK, Ends, Doomed
      <4> QED
        BY <2>4, <3>3, <4>1 DEF Ends, Starts
    <3>4. CASE Collect(p)
      <4>1. /\ pc[p] = "propagate" /\ pc'[p] = "collect" /\ garbage'[p] = Stale(p)
            /\ UNCHANGED <<healthy, view, cal>>
        BY <3>4 DEF Collect, Go, IInv, TypeOK, LocalTypeOK, calVars
      <4>2. ~Starts(p) /\ Doomed(p)' = Stale(p)
        BY <4>1 DEF Starts, Doomed
      <4>3. \A b \in Stale(p) : /\ cal[b].state # "unused"
                                /\ HasIdentity(cal[b]) => cal[b].source[2] \notin steady[p]
        BY <4>1, StaleNotSteady
      <4>4. pc'[p] # "idle" => \A s \in steady'[p] :
               cal'[s].acct \in healthy'[p] => BlocksTime(view'[p][s]) /\ view'[p][s].acct = cal'[s].acct
        BY <2>2, <4>1, <4>2 DEF SteadyOK
      <4> QED
        BY <2>2, <4>1, <4>2, <4>3, <4>4 DEF SteadyOK, Collecting
    <3>5. CASE /\ pc[p] # "idle" /\ pc'[p] # "idle" /\ UNCHANGED <<healthy, view>>
               /\ garbage'[p] \subseteq garbage[p] /\ Doomed(p)' \subseteq Doomed(p)
               /\ pc'[p] \in Collecting <=> pc[p] \in Collecting
      BY <2>4, <3>5 DEF Starts
    <3> QED
      BY <3>0, <3>1, <3>2, <3>3, <3>4, <3>5 DEF CollectionStep
  <2>6. ASSUME ~(Pass(p) \/ Crash(p)) PROVE SteadyOK(p)'
    <3>1. /\ pc'[p] = pc[p] /\ held'[p] = held[p] /\ healthy'[p] = healthy[p]
          /\ view'[p] = view[p] /\ garbage'[p] = garbage[p]
      BY <1>1, <2>6, CollectionSteps DEF HNext, Next, OutageEnds, local, plan, op, IInv
    <3>2. Doomed(p)' = Doomed(p) /\ ~Starts(p)
      BY <3>1 DEF Doomed, Starts
    <3>3. pc[p] = "idle" => garbage[p] = {}
      BY DEF SteadyOK, Collecting
    <3> QED
      BY <2>4, <3>1, <3>2, <3>3
  <2> QED
    BY <2>5, <2>6
<1> QED
  BY <1>0, <1>1

LEMMA HistoryStep == IInv /\ HistoryInv /\ [HNext]_hvars => HistoryInv'
<1> SUFFICES ASSUME IInv, HistoryInv, [HNext]_hvars PROVE HistoryInv'
  OBVIOUS
<1>1. TagsOK' /\ ListingsOK'
  BY ListingsStep, ForgetsStep DEF HistoryInv
<1> QED
  BY <1>1, SteadyStep DEF HistoryInv

\* An event of the engine's that a pass makes vanish is the one it is deleting.
LEMMA Deletes ==
    ASSUME IInv, NEW p \in Clients, Pass(p) \/ Crash(p), NEW b \in Ids,
           cal[b].state # "gone", cal'[b].state = "gone"
    PROVE  held[p] = b /\ pc[p] = "delete"
<1> USE DEF IInv, TypeOK, CalendarTypeOK
<1>1. CASE Plans(p) \/ Ensures(p)
  BY <1>1 DEF Plans, Ensures, Start, TooFewHealthy, Propagate, Collect, Finish, End, Crash,
     Fetch, FetchFails, CollectNext, EnsureIndexed, EnsureLookedUp, EnsureLookupFails, calVars
<1>2. CASE Put(p) \/ PutUnanswered(p)
  <2>1. pc[p] = "put" /\ Store(held[p], [cal[held[p]] EXCEPT !.span = TargetSpan(p)])
    BY <1>2 DEF Put, PutUnanswered, UpdateEvent
  <2>2. held[p] \in Ids /\ cal[held[p]] \in Event /\ TargetSpan(p) \in Spans
    BY <2>1, PairTypes DEF PassOK, Knows, Writing
  <2>3. [cal[held[p]] EXCEPT !.span = TargetSpan(p)].state = cal[held[p]].state
    BY <2>2, DerivedEvents
  <2> QED
    BY <2>1, <2>2, <2>3 DEF Store
<1>3. CASE Post(p) \/ PostUnanswered(p)
  <2>1. cal' = cal \/ \E i \in Fresh : Store(i, Block(Target(p), TargetSpan(p), TargetSource(p)))
    BY <1>3 DEF Post, PostUnanswered, InsertEvent
  <2> QED
    BY <2>1, FreshIds DEF Store, Block
<1>4. CASE Delete(p) \/ DeleteUnanswered(p)
  <2>1. pc[p] = "delete" /\ (cal' = cal \/ Store(held[p], Gone))
    BY <1>4 DEF Delete, DeleteUnanswered, DeleteEvent
  <2> QED
    BY <2>1 DEF Store
<1>5. CASE \/ FindFails(p) \/ PutConflict(p) \/ PutRefused(p) \/ InsertReads(p) \/ UpdateReads(p)
           \/ PostRefused(p) \/ Reconcile(p) \/ DeleteConflict(p) \/ DeleteReads(p)
           \/ DeleteFindsNothing(p) \/ DeleteRefused(p)
  <2>1. cal' = cal
    BY <1>5 DEF FindFails, PutConflict, PutRefused, InsertReads, UpdateReads, PostRefused, Reconcile,
       DeleteConflict, DeleteReads, DeleteFindsNothing, DeleteRefused, calVars
  <2> QED
    BY <2>1
<1> QED
  BY <1>1, <1>2, <1>3, <1>4, <1>5, PassSteps DEF Requests

LEMMA HistoryInitially == HInit => HistoryInv
<1> SUFFICES ASSUME HInit PROVE HistoryInv
  OBVIOUS
<1>1. \A i \in Ids : ~HasIdentity(cal[i])
  BY DEF HInit, Init, CalendarInit, RealEvent, Unused, HasIdentity
<1>2. \A p \in Clients, i \in Ids : ~Live(view[p][i])
  BY DEF HInit, Init, NoView, Unused, Live
<1>3. \A p \in Clients : pc[p] = "idle" /\ garbage[p] = {} /\ steady[p] = {}
  BY DEF HInit, Init
<1> QED
  BY <1>1, <1>2, <1>3 DEF HistoryInv, TagsOK, ListingsOK, ListedOK, SteadyOK, Doomed

\* Tags and listings stay true, and what passes collect was stale all along.
THEOREM HistoryInvariant == HSpec => []HistoryInv
<1>1. HSpec => []IInv
  BY Forgets, Invariant, PTL
<1> QED
  BY <1>1, HistoryInitially, HistoryStep, PTL DEF HSpec

\* No pass ever deletes the block of an event that blocked time ever since the
\* pass began, whichever accounts failed to answer and however many passes,
\* renames and edits there are: gcStale collects only what no fetched event
\* accounts for, and only for accounts whose fetch succeeded.
THEOREM SteadyKept == HSpec => SteadyBlocksKept
<1> DEFINE Kept == edits' = edits => \A b \in Ids :
       (IsOwnedBlock(cal[b]) /\ HasIdentity(cal[b]) /\ cal'[b].state = "gone") =>
           \E p \in Clients : held[p] = b /\ cal[b].source[2] \notin steady[p]
<1>1. IInv /\ HistoryInv /\ [HNext]_hvars => [Kept]_hvars
  <2> SUFFICES ASSUME IInv, HistoryInv, HNext, edits' = edits, NEW b \in Ids,
                      IsOwnedBlock(cal[b]), HasIdentity(cal[b]), cal'[b].state = "gone"
               PROVE  \E p \in Clients : held[p] = b /\ cal[b].source[2] \notin steady[p]
    OBVIOUS
  <2>1. cal'[b] # cal[b]
    BY DEF IsOwnedBlock, Live
  <2>2. PICK p \in Clients : Pass(p) \/ Crash(p)
    <3>1. ~OwnersAct
      BY OwnersEffect DEF IInv, TypeOK
    <3>2. ~\E c \in Accounts, d \in Spare : Rename(c, d)
      BY DEF Rename, Edit, IInv, TypeOK, CalendarTypeOK
    <3> QED
      BY <2>1, <3>1, <3>2 DEF HNext, Next, OutageEnds, calVars
  <2>3. held[p] = b /\ pc[p] = "delete"
    BY <2>2, Deletes DEF IsOwnedBlock, Live
  <2> QED
    BY <2>3 DEF HistoryInv, SteadyOK, Doomed
<1>2. HSpec => []IInv
  BY Forgets, Invariant, PTL
<1> QED
  BY <1>1, <1>2, HistoryInvariant, PTL DEF HSpec, SteadyBlocksKept

----------------------------------------------------------------------------
(* A pass that runs undisturbed. *)

\* What pass p would list now of event i, if it listed the accounts it has
\* listed so far once more.
Listing(p, i) == IF Live(cal[i]) /\ cal[i].acct \in healthy[p] /\ cal[i].span \in Window
                 THEN cal[i] ELSE Unused

Exact(p) == \A i \in Ids : view[p][i] = Listing(p, i)

\* The listings are exact as far as real events go: a pass writes none.
RealExact(p) == \A i \in Ids :
    /\ Live(view[p][i]) => view[p][i].span \in Window
    /\ Live(view[p][i]) /\ ~view[p][i].owner => cal[i] = view[p][i]
    /\ Live(cal[i]) /\ ~cal[i].owner /\ cal[i].acct \in healthy[p] /\ cal[i].span \in Window
          => view[p][i] = cal[i]

\* In calendars c, b is a block for pair x; some block for x is as it should be.
BlockOf(c, p, b, x) == Mirrors(c[b], x[2], Identity(p, x[1]))
Done(c, p, x) == \E b \in Ids : BlockOf(c, p, b, x) /\ c[b].span = view[p][x[1]].span

\* The pairs pass p has not finished with.
Pending(p) == work[p] \cup {x \in {cur[p]} : pc[p] \in Writing}

ListingPhase(p) ==
    /\ healthy[p] \cup todo[p] = config
    /\ pc[p] = "fetch" => Exact(p)
    /\ RealExact(p)

\* What is not pending is done, and the listed blocks of what is on the work
\* list are still as they were listed.
PairsPhase(p) == pc[p] # "fetch" =>
    /\ \A x \in Pairs(p) : x \in Pending(p) \/ Done(cal, p, x)
    /\ \A x \in work[p] : /\ pc[p] \in Writing => x # cur[p]
                          /\ \A b \in Indexed(p, x[1], x[2]) : cal[b] = view[p][b]

\* What the lookups so far say of the pair being written.
CallPhase(p) ==
    /\ pc[p] \in {"update", "put"} => \E b \in Ids : BlockOf(cal, p, b, cur[p])
    /\ pc[p] = "put" => BlockOf(cal, p, held[p], cur[p])
    /\ pc[p] \in {"insert", "post"} => \A b \in Ids : ~BlockOf(cal, p, b, cur[p])
    /\ pc[p] = "reconcile" =>
          \A b \in Ids : BlockOf(cal, p, b, cur[p]) => cal[b].span = TargetSpan(p)

\* An orphan that bears the name of a configured account.
Lost(b) == Orphan(b) /\ cal[b].source[1] \in config

\* Every block was listed, or mirrors an event that was; what is collected
\* mirrors none that was; and no orphan escapes the collection.
CollectPhase(p) ==
    /\ pc[p] # "fetch" => \A b \in Ids :
          (IsOwnedBlock(cal[b]) /\ HasIdentity(cal[b]) /\ cal[b].span \in Window) =>
              IsOwnedBlock(view[p][b]) \/ cal[b].source \in LiveSources(p)
    /\ \A b \in Doomed(p) : HasIdentity(cal[b]) => cal[b].source \notin LiveSources(p)
    /\ pc[p] \in Collecting => \A b \in Ids : Lost(b) => b \in Doomed(p)

Phases(p) == ListingPhase(p) /\ PairsPhase(p) /\ CallPhase(p) /\ CollectPhase(p)

\* After a clean pass a pass finds nothing to write.
Settled(p) == pc[p] # "idle" =>
    /\ pc[p] \notin WriteCalls /\ res[p] = NoWrites
    /\ Exact(p) /\ garbage[p] = {}

Quiet(p) ==
    /\ quiet \in {0, 1, 2}
    /\ quiet = 1 => pc[p] # "idle" /\ (~err[p] => Phases(p))
    /\ quiet = 2 => Complete /\ (\A b \in Ids : ~Lost(b)) /\ Settled(p)

----------------------------------------------------------------------------
(* Facts about pairs, blocks and listings. *)

LEMMA OnePair ==
    ASSUME NEW p, NEW x \in Ids \X Names, NEW y \in Ids \X Names, NEW c, NEW b,
           BlockOf(c, p, b, x), BlockOf(c, p, b, y)
    PROVE  x = y
<1>1. x[2] = y[2] /\ Identity(p, x[1]) = Identity(p, y[1])
  BY DEF BlockOf, Mirrors
<1>2. x[1] = y[1]
  BY <1>1 DEF Identity
<1> QED
  BY <1>1, <1>2

ExactIsReal == \A p \in Clients : Exact(p) => RealExact(p)

LEMMA ExactReal == ExactIsReal
<1> SUFFICES ASSUME NEW p \in Clients, Exact(p) PROVE RealExact(p)
  BY DEF ExactIsReal
<1>1. ~Live(Unused)
  BY DEF Live, Unused
<1>2. ASSUME NEW i \in Ids
      PROVE  \/ /\ Live(cal[i]) /\ cal[i].acct \in healthy[p] /\ cal[i].span \in Window
                /\ view[p][i] = cal[i]
             \/ /\ ~(Live(cal[i]) /\ cal[i].acct \in healthy[p] /\ cal[i].span \in Window)
                /\ view[p][i] = Unused
  BY DEF Exact, Listing
<1> QED
  BY <1>1, <1>2 DEF RealExact

LEMMA PairsType ==
    ASSUME TypeOK, NEW p \in Clients
    PROVE  Pairs(p) \subseteq Ids \X Names
BY DEF TypeOK, LocalTypeOK, Pairs

\* A busy event of a listed account was listed, and what was listed is busy.
LEMMA BusyListed ==
    ASSUME IInv, NEW p \in Clients, RealExact(p), NEW s \in Ids
    PROVE  /\ s \in Busy /\ cal[s].acct \in healthy[p] => view[p][s] = cal[s]
           /\ BlocksTime(view[p][s]) => s \in Busy /\ cal[s] = view[p][s]
<1>1. Live(view[p][s]) => view[p][s].acct \in config
  BY DEF IInv, NamesOK
<1> QED
  BY <1>1 DEF Busy, BlocksTime, RealExact

\* A real event is written by nobody but its owner.
LEMMA RealStays ==
    ASSUME IInv, HistoryInv, NEW p \in Clients, RealExact(p), Effect(p),
           view'[p] = view[p], healthy'[p] = healthy[p]
    PROVE  RealExact(p)'
<1> DEFINE Touches(i) == /\ cal[i].state = "unused" \/ IsOwnedBlock(cal[i])
                         /\ IsOwnedBlock(cal'[i]) \/ ~Live(cal'[i])
<1> USE DEF IInv, TypeOK, CalendarTypeOK
<1>1. \A i \in Ids : cal'[i] = cal[i] \/ Touches(i)
  <2>1. CASE cal' = cal
    BY <2>1
  <2>2. ASSUME NEW i \in Ids, NEW s \in Spans, Moves(i, s) PROVE \A j \in Ids : cal'[j] = cal[j] \/ Touches(j)
    <3>1. cal[i] \in Event /\ IsOwnedBlock([cal[i] EXCEPT !.span = s])
      BY <2>2 DEF Moves, IsOwnedBlock, Live, Event
    <3> QED
      BY <2>2, <3>1 DEF Moves, Store
  <2>3. ASSUME NEW i \in Ids, Removes(i) PROVE \A j \in Ids : cal'[j] = cal[j] \/ Touches(j)
    BY <2>3 DEF Removes, Store, Gone, Unused, Live
  <2>4. ASSUME Inserts(p) PROVE \A j \in Ids : cal'[j] = cal[j] \/ Touches(j)
    <3>1. PICK i \in Fresh : Store(i, Block(Target(p), TargetSpan(p), TargetSource(p)))
      BY <2>4 DEF Inserts, InsertEvent
    <3> QED
      BY <3>1, FreshIds DEF Store, Block, IsOwnedBlock, Live
  <2> QED
    BY <2>1, <2>2, <2>3, <2>4 DEF Effect
<1>2. ASSUME NEW i \in Ids
      PROVE  /\ Live(view[p][i]) => view[p][i].span \in Window
             /\ Live(view[p][i]) /\ ~view[p][i].owner => cal'[i] = view[p][i]
             /\ Live(cal'[i]) /\ ~cal'[i].owner /\ cal'[i].acct \in healthy[p] /\ cal'[i].span \in Window
                   => view[p][i] = cal'[i]
  <2>1. Live(view[p][i]) => cal[i].state # "unused"
    BY DEF HistoryInv, ListingsOK, ListedOK
  <2>2. CASE cal'[i] = cal[i]
    BY <2>2 DEF RealExact
  <2>3. CASE Touches(i)
    BY <2>1, <2>3 DEF RealExact, IsOwnedBlock
  <2> QED
    BY <1>1, <2>2, <2>3
<1> QED
  BY <1>2 DEF RealExact

----------------------------------------------------------------------------
(* Writing blocks. *)

\* Pass p gives the pair it is writing the block it should have.
WritesPair(p, j) ==
    /\ \A b \in Ids \ {j} : cal'[b] = cal[b]
    /\ BlockOf(cal', p, j, cur[p]) /\ cal'[j].span = TargetSpan(p)
    /\ cal[j].state = "unused" \/ BlockOf(cal, p, j, cur[p])

LEMMA PutWrites ==
    ASSUME IInv, NEW p \in Clients, Put(p) \/ PutUnanswered(p), CallPhase(p)
    PROVE  held[p] \in Ids /\ WritesPair(p, held[p])
<1> USE DEF IInv, TypeOK, CalendarTypeOK
<1>1. pc[p] = "put" /\ Store(held[p], [cal[held[p]] EXCEPT !.span = TargetSpan(p)])
  BY DEF Put, PutUnanswered, UpdateEvent
<1>2. held[p] \in Ids /\ cal[held[p]] \in Event /\ BlockOf(cal, p, held[p], cur[p])
  BY <1>1 DEF PassOK, Knows, CallPhase
<1>3. cal'[held[p]] = [cal[held[p]] EXCEPT !.span = TargetSpan(p)]
  BY <1>1, <1>2 DEF Store
<1>4. BlockOf(cal', p, held[p], cur[p]) /\ cal'[held[p]].span = TargetSpan(p)
  BY <1>2, <1>3 DEF BlockOf, Mirrors, IsOwnedBlock, Live, Event
<1> QED
  BY <1>1, <1>2, <1>4 DEF WritesPair, Store

LEMMA PostWrites ==
    ASSUME IInv, NEW p \in Clients, InsertEvent(Block(Target(p), TargetSpan(p), TargetSource(p)))
    PROVE  \E j \in Ids : WritesPair(p, j)
<1>1. PICK j \in Fresh : Store(j, Block(Target(p), TargetSpan(p), TargetSource(p)))
  BY DEF InsertEvent
<1>2. j \in Ids /\ cal[j].state = "unused"
  BY FreshIds
<1>3. cal'[j] = Block(Target(p), TargetSpan(p), TargetSource(p)) /\ \A b \in Ids \ {j} : cal'[b] = cal[b]
  BY <1>1, <1>2 DEF Store, IInv, TypeOK, CalendarTypeOK
<1>4. BlockOf(cal', p, j, cur[p]) /\ cal'[j].span = TargetSpan(p)
  BY <1>3 DEF BlockOf, Mirrors, Block, IsOwnedBlock, Live, Target, TargetSource
<1> QED
  BY <1>2, <1>3, <1>4 DEF WritesPair

\* The write of one pair does what it is to do, and disturbs no other pair.
LEMMA OthersDone ==
    ASSUME IInv, HistoryInv, NEW p \in Clients, pc[p] \in Writing, PairsPhase(p),
           NEW j \in Ids, WritesPair(p, j)
    PROVE  /\ Done(cal', p, cur[p])
           /\ \A x \in Ids \X Names : Done(cal, p, x) => Done(cal', p, x)
           /\ \A x \in work[p] : \A b \in Indexed(p, x[1], x[2]) : cal'[b] = view[p][b]
<1> USE DEF IInv, TypeOK, LocalTypeOK
<1>1. cur[p] \in Ids \X Names
  BY PairTypes
<1>0. \A x : BlockOf(cal, p, j, x) => BlockOf(cal, p, j, cur[p])
  BY DEF WritesPair, BlockOf, Mirrors, IsOwnedBlock, Live
<1>2. Done(cal', p, cur[p])
  BY DEF Done, WritesPair, TargetSpan
<1>3. ASSUME NEW x \in Ids \X Names, Done(cal, p, x), x # cur[p] PROVE Done(cal', p, x)
  <2>1. PICK b \in Ids : BlockOf(cal, p, b, x) /\ cal[b].span = view[p][x[1]].span
    BY <1>3 DEF Done
  <2>2. b # j
    BY <1>0, <1>1, <1>3, <2>1, OnePair
  <2>3. cal'[b] = cal[b]
    BY <2>2 DEF WritesPair
  <2> QED
    BY <2>1, <2>3 DEF Done, BlockOf
<1>4. ASSUME NEW x \in work[p], NEW b \in Indexed(p, x[1], x[2]) PROVE cal'[b] = view[p][b]
  <2>1. b \in Ids /\ cal[b] = view[p][b] /\ x # cur[p] /\ x \in Ids \X Names
    BY <1>4 DEF PairsPhase, Indexed, Writing
  <2>2. BlockOf(cal, p, b, x)
    BY <2>1 DEF Indexed, BlockOf
  <2>3. b # j
    BY <1>0, <1>1, <2>1, <2>2, OnePair
  <2> QED
    BY <2>1, <2>3 DEF WritesPair
<1> QED
  BY <1>2, <1>3, <1>4

\* A step of pass p between two requests for its pairs.
WorkStep(p) ==
    /\ pc[p] \in {"propagate"} \cup Writing /\ pc'[p] \in {"propagate"} \cup Writing
    /\ UNCHANGED <<config, todo, healthy, view, garbage>>
    /\ work'[p] \subseteq work[p]
    /\ cal' = cal \/ (pc[p] \in Writing /\ \E j \in Ids : WritesPair(p, j))
    /\ \A x \in Pending(p) : x \in Pending(p)' \/ Done(cal', p, x)
    /\ pc'[p] \in Writing => cur'[p] \notin work'[p]

LEMMA WorkPhases ==
    ASSUME IInv, HistoryInv, NEW p \in Clients, Pass(p), Phases(p), WorkStep(p)
    PROVE  ListingPhase(p)' /\ PairsPhase(p)' /\ CollectPhase(p)'
<1> USE DEF IInv, TypeOK, LocalTypeOK, Phases
<1>1. pc[p] \notin {"fetch", "idle"} \cup Collecting /\ pc'[p] \notin {"fetch", "idle"} \cup Collecting
  BY DEF WorkStep, Writing, Collecting
<1>2. ListingPhase(p)'
  <2>1. RealExact(p)'
    BY RealStays, PassEffect DEF WorkStep, ListingPhase
  <2> QED
    BY <1>1, <2>1 DEF WorkStep, ListingPhase
<1>3. /\ \A x \in Ids \X Names : Done(cal, p, x) => Done(cal', p, x)
      /\ \A x \in work[p] : \A b \in Indexed(p, x[1], x[2]) : cal'[b] = view[p][b]
  <2>1. CASE cal' = cal
    BY <1>1, <2>1 DEF PairsPhase
  <2>2. ASSUME NEW j \in Ids, WritesPair(p, j), pc[p] \in Writing
        PROVE  /\ \A x \in Ids \X Names : Done(cal, p, x) => Done(cal', p, x)
               /\ \A x \in work[p] : \A b \in Indexed(p, x[1], x[2]) : cal'[b] = view[p][b]
    BY <2>2, OthersDone
  <2> QED
    BY <2>1, <2>2 DEF WorkStep
<1>4. PairsPhase(p)'
  <2>1. view' = view /\ healthy' = healthy
    BY DEF WorkStep
  <2>2. /\ Pairs(p)' = Pairs(p)
        /\ \A x : Done(cal, p, x)' = Done(cal', p, x)
        /\ \A s, d : Indexed(p, s, d)' = Indexed(p, s, d)
    BY <2>1 DEF Pairs, Done, BlockOf, Identity, Indexed
  <2>3. ASSUME NEW x \in Pairs(p) PROVE x \in Pending(p)' \/ Done(cal', p, x)
    <3>1. x \in Pending(p) \/ Done(cal, p, x)
      BY <1>1 DEF PairsPhase
    <3> QED
      BY <1>3, <3>1, PairsType DEF WorkStep
  <2>4. ASSUME NEW x \in work'[p]
        PROVE  /\ pc'[p] \in Writing => x # cur'[p]
               /\ \A b \in Indexed(p, x[1], x[2]) : cal'[b] = view'[p][b]
    BY <1>3, <2>1 DEF WorkStep
  <2> QED
    BY <2>2, <2>3, <2>4 DEF PairsPhase
<1>5. CollectPhase(p)'
  <2>1. Doomed(p)' = {} /\ LiveSources(p)' = LiveSources(p) /\ view' = view
    <3>1. garbage[p] = {}
      BY <1>1 DEF HistoryInv, SteadyOK
    <3> QED
      BY <1>1, <3>1 DEF WorkStep, Doomed, LiveSources, Identity, Collecting
  <2>2. ASSUME NEW b \in Ids, IsOwnedBlock(cal'[b]), HasIdentity(cal'[b]), cal'[b].span \in Window
        PROVE  IsOwnedBlock(view[p][b]) \/ cal'[b].source \in LiveSources(p)
    <3>1. CASE cal'[b] = cal[b]
      BY <1>1, <2>2, <3>1 DEF CollectPhase
    <3>2. ASSUME pc[p] \in Writing, BlockOf(cal', p, b, cur[p]) PROVE cal'[b].source \in LiveSources(p)
      BY <3>2 DEF BlockOf, Mirrors, LiveSources, PassOK, Knows, ToMirror
    <3> QED
      BY <3>1, <3>2 DEF WorkStep, WritesPair
  <2> QED
    BY <1>1, <2>1, <2>2 DEF CollectPhase
<1> QED
  BY <1>2, <1>4, <1>5

LEMMA ErrorShows ==
    ASSUME TypeOK, NEW p \in Clients, ReturnErr(p) \/ Fails(p)
    PROVE  err'[p]
<1>1. err' = [err EXCEPT ![p] = TRUE] /\ err \in [Clients -> BOOLEAN]
  BY DEF ReturnErr, Fails, TypeOK, LocalTypeOK
<1> QED
  BY <1>1

\* ensureBlock leaves a pair that is done, or begins the call that is to do it.
LEMMA EnsurePhases ==
    ASSUME IInv, HistoryInv, NEW p \in Clients \ DryRun, Phases(p), NEW s \in Ids, NEW d \in healthy[p],
           EnsureIndexed(p, s, d) \/ EnsureLookedUp(p, s, d)
    PROVE  WorkStep(p) /\ CallPhase(p)'
<1> DEFINE x == <<s, d>>
<1> USE DEF IInv, TypeOK, LocalTypeOK
<1>1. /\ pc[p] = "propagate" /\ x \in work[p] /\ work'[p] = work[p] \ {x}
      /\ UNCHANGED <<config, todo, healthy, view, garbage, cal>>
  BY DEF EnsureIndexed, EnsureLookedUp, Take, calVars
<1>2. Pending(p) = work[p] /\ \A y \in work[p] : y = x \/ y \in work'[p]
  BY <1>1 DEF Pending, Writing
\* A block was found: it is right, or about to be moved.
<1>3. ASSUME NEW b \in Ids, BlockOf(cal, p, b, x), Reassert(p, s, d, cal[b].span)
      PROVE  WorkStep(p) /\ CallPhase(p)'
  <2>1. CASE cal[b].span = view[p][s].span
    <3>1. pc'[p] = "propagate" /\ Done(cal', p, x)
      BY <1>1, <1>3, <2>1 DEF Reassert, Done
    <3> QED
      BY <1>1, <1>2, <3>1 DEF WorkStep, CallPhase, Pending, Writing
  <2>2. CASE cal[b].span # view[p][s].span
    <3>1. pc'[p] = "update" /\ cur'[p] = x
      BY <1>1, <1>3, <2>2 DEF Reassert, Call, Go
    <3>2. BlockOf(cal, p, b, cur[p])'
      BY <1>1, <1>3, <3>1 DEF BlockOf, Identity
    <3> QED
      BY <1>1, <1>2, <3>1, <3>2 DEF WorkStep, CallPhase, Pending, Writing
  <2> QED
    BY <2>1, <2>2
<1>4. CASE EnsureIndexed(p, s, d)
  <2>1. PICK b \in Indexed(p, s, d) : Reassert(p, s, d, view[p][b].span)
    BY <1>4 DEF EnsureIndexed
  <2>2. b \in Ids /\ cal[b] = view[p][b]
    BY <1>1, <2>1 DEF Phases, PairsPhase, Indexed
  <2>3. BlockOf(cal, p, b, x)
    BY <2>1, <2>2 DEF BlockOf, Indexed
  <2> QED
    BY <1>3, <2>1, <2>2, <2>3
<1>5. CASE EnsureLookedUp(p, s, d)
  <2>1. PICK b \in FindBlockBySource(d, Identity(p, s)) :
           IF b # NoId THEN Reassert(p, s, d, cal[b].span) ELSE Call(p, s, d, "insert")
    BY <1>5 DEF EnsureLookedUp
  <2>2. CASE b # NoId
    <3>1. b \in Ids /\ BlockOf(cal, p, b, x)
      BY <2>1, <2>2, FoundTypes DEF BlockOf
    <3> QED
      BY <1>3, <2>1, <2>2, <3>1
  <2>3. CASE b = NoId
    <3>1. pc'[p] = "insert" /\ cur'[p] = x
      BY <1>1, <2>1, <2>3 DEF Call, Go
    <3>2. Identity(p, s) \in Names \X Ids
      <4>1. view[p][s] \in Event
        OBVIOUS
      <4> QED
        BY <4>1, FieldTypes DEF Identity
    <3>3. \A i \in Ids : ~Mirrors(cal[i], d, Identity(p, s))
      BY <2>1, <2>3, <3>2, NotFound
    <3>4. \A i \in Ids : ~BlockOf(cal, p, i, cur[p])'
      <4>1. cal' = cal /\ view' = view /\ cur'[p][1] = s /\ cur'[p][2] = d
        BY <1>1, <3>1
      <4> QED
        BY <3>3, <4>1 DEF BlockOf, Identity
    <3> QED
      BY <1>1, <1>2, <3>1, <3>4 DEF WorkStep, CallPhase, Pending, Writing
  <2> QED
    BY <2>2, <2>3
<1> QED
  BY <1>4, <1>5

\* A write call goes on, or returns with its pair done, if it reports no error.
LEMMA WritePhases ==
    ASSUME IInv, HistoryInv, NEW p \in Clients, Phases(p), Requests(p), ~err'[p], pc[p] \in Writing
    PROVE  WorkStep(p) /\ CallPhase(p)'
<1> DEFINE x == cur[p]
<1> USE DEF IInv, TypeOK, LocalTypeOK
<1>0. /\ ~ReturnErr(p) /\ CallPhase(p) /\ x \in Ids \X Names
      /\ x \notin work[p] /\ Pending(p) = work[p] \cup {x}
  BY ErrorShows, PairTypes DEF Phases, PairsPhase, Pending, Writing
<1>1. /\ TargetSource(p) = Identity(p, x[1]) /\ Target(p) = x[2] /\ TargetSource(p) \in Names \X Ids
      /\ TargetSpan(p) = view[p][x[1]].span
      /\ \A c, b : BlockOf(c, p, b, x) <=> Mirrors(c[b], Target(p), TargetSource(p))
  BY PairTypes DEF TargetSource, Target, TargetSpan, BlockOf
\* The call returns, its pair done.
<1>2. ASSUME Return(p), config' = config, Done(cal', p, x), cal' = cal \/ \E j \in Ids : WritesPair(p, j)
      PROVE  WorkStep(p) /\ CallPhase(p)'
  <2>1. pc'[p] = "propagate" /\ UNCHANGED plan
    BY <1>2 DEF Return, Go, Writing
  <2> QED
    BY <1>0, <1>2, <2>1 DEF WorkStep, CallPhase, Pending, Writing, plan
\* The call goes on at another location.
<1>3. ASSUME pc'[p] \in Writing, UNCHANGED <<config, plan, cur>>,
             cal' = cal \/ \E j \in Ids : WritesPair(p, j)
      PROVE  WorkStep(p) /\ \A b : BlockOf(cal, p, b, cur[p])' <=> BlockOf(cal', p, b, x)
  BY <1>0, <1>3 DEF WorkStep, Pending, plan, BlockOf, Identity
<1>4. CASE UpdateReads(p)
  <2>1. PICK b \in FindBlockBySource(Target(p), TargetSource(p)) :
           IF b = NoId THEN TRUE
           ELSE /\ Go(p, "put") /\ held' = [held EXCEPT ![p] = b]
                /\ UNCHANGED <<config, cal, plan, cur>>
    BY <1>4 DEF UpdateReads
  <2>2. b # NoId
    BY <1>0, <1>1, <1>4, <2>1, NotFound DEF UpdateReads, CallPhase
  <2>3. pc'[p] = "put" /\ held'[p] = b /\ b \in Ids /\ BlockOf(cal', p, b, x)
    BY <1>1, <2>1, <2>2, FoundTypes DEF Go
  <2> QED
    BY <1>3, <2>1, <2>2, <2>3 DEF CallPhase, Writing
<1>5. CASE Put(p)
  <2>1. WritesPair(p, held[p]) /\ held[p] \in Ids /\ Return(p) /\ config' = config
    BY <1>0, <1>5, PutWrites DEF Put, ReturnOk
  <2>2. Done(cal', p, x)
    BY <1>1, <2>1 DEF WritesPair, Done
  <2> QED
    BY <1>2, <2>1, <2>2
<1>6. CASE PutUnanswered(p)
  <2>1. WritesPair(p, held[p]) /\ held[p] \in Ids /\ UNCHANGED <<config, pc, plan, cur, held>> /\ pc[p] = "put"
    BY <1>0, <1>6, PutWrites DEF PutUnanswered
  <2> QED
    BY <1>3, <2>1 DEF CallPhase, Writing, WritesPair
<1>7. CASE PutConflict(p)
  <2>1. Go(p, "update") /\ UNCHANGED <<config, cal, plan, cur>> /\ pc[p] = "put"
    BY <1>0, <1>7 DEF PutConflict, Conflict, calVars
  <2>2. pc'[p] = "update"
    BY <2>1 DEF Go
  <2> QED
    BY <1>0, <1>3, <2>1, <2>2 DEF CallPhase, Writing
<1>8. CASE InsertReads(p)
  <2>1. PICK b \in FindBlockBySource(Target(p), TargetSource(p)) :
           b # NoId \/ (Go(p, "post") /\ UNCHANGED <<plan, op>>)
    BY <1>8 DEF InsertReads
  <2>2. pc[p] = "insert" /\ UNCHANGED <<config, cal>>
    BY <1>8 DEF InsertReads, calVars
  <2>3. b = NoId
    BY <1>0, <1>1, <2>1, <2>2, FoundTypes DEF CallPhase
  <2>4. pc'[p] = "post" /\ UNCHANGED <<plan, cur>>
    BY <2>1, <2>3 DEF Go, op
  <2> QED
    BY <1>0, <1>3, <2>2, <2>4 DEF CallPhase, Writing
<1>9. CASE Post(p)
  <2>1. Return(p) /\ config' = config /\ \E j \in Ids : WritesPair(p, j)
    BY <1>9, PostWrites DEF Post, ReturnOk
  <2>2. Done(cal', p, x)
    BY <1>1, <2>1 DEF WritesPair, Done
  <2> QED
    BY <1>2, <2>1, <2>2
<1>10. CASE PostUnanswered(p)
  <2>1. /\ pc[p] = "post" /\ pc'[p] = "reconcile" /\ UNCHANGED <<config, plan, cur>>
        /\ cal' = cal \/ \E j \in Ids : WritesPair(p, j)
    BY <1>10, PostWrites DEF PostUnanswered, op, Go
  <2>2. ASSUME NEW b \in Ids, BlockOf(cal', p, b, x) PROVE cal'[b].span = TargetSpan(p)
    BY <1>0, <2>1, <2>2 DEF CallPhase, WritesPair, BlockOf
  <2>3. TargetSpan(p)' = TargetSpan(p)
    BY <2>1 DEF TargetSpan, plan
  <2> QED
    BY <1>3, <2>1, <2>2, <2>3 DEF CallPhase, Writing
<1>11. CASE Reconcile(p)
  <2>1. PICK b \in FindBlockBySource(Target(p), TargetSource(p)) :
           IF b # NoId THEN Return(p) ELSE Go(p, "post") /\ UNCHANGED <<plan, op>>
    BY <1>0, <1>11 DEF Reconcile, ReturnOk
  <2>2. pc[p] = "reconcile" /\ UNCHANGED <<config, cal>>
    BY <1>11 DEF Reconcile, calVars
  <2>3. CASE b # NoId
    <3>1. b \in Ids /\ BlockOf(cal, p, b, x)
      BY <1>1, <2>1, <2>3, FoundTypes
    <3>2. Done(cal', p, x)
      BY <1>0, <1>1, <2>2, <3>1 DEF CallPhase, Done
    <3> QED
      BY <1>2, <2>1, <2>2, <2>3, <3>2
  <2>4. CASE b = NoId
    <3>1. \A i \in Ids : ~BlockOf(cal', p, i, x)
      BY <1>1, <2>1, <2>2, <2>4, NotFound
    <3>2. pc'[p] = "post" /\ UNCHANGED <<plan, cur>>
      BY <2>1, <2>4 DEF Go, op
    <3> QED
      BY <1>3, <2>2, <3>1, <3>2 DEF CallPhase, Writing
  <2> QED
    BY <2>3, <2>4
<1>12. CASE FindFails(p) \/ PutRefused(p) \/ PostRefused(p)
  BY <1>0, <1>12 DEF FindFails, PutRefused, PostRefused
<1>13. ~(\/ DeleteReads(p) \/ Delete(p) \/ DeleteUnanswered(p) \/ DeleteConflict(p)
         \/ DeleteFindsNothing(p) \/ DeleteRefused(p))
  BY DEF DeleteReads, Delete, DeleteUnanswered, DeleteConflict, DeleteFindsNothing, DeleteRefused, Writing
<1> QED
  BY <1>4, <1>5, <1>6, <1>7, <1>8, <1>9, <1>10, <1>11, <1>12, <1>13 DEF Requests

----------------------------------------------------------------------------
(* Listing and collecting. *)

LEMMA FetchExact ==
    ASSUME TypeOK, NEW p \in Clients, NEW a \in todo[p], Fetch(p, a), Exact(p)
    PROVE  Exact(p)'
<1>1. /\ cal' = cal /\ healthy'[p] = healthy[p] \cup {a}
      /\ view'[p] = [i \in Ids |-> IF i \in ListEvents(a) THEN cal[i] ELSE view[p][i]]
  BY DEF Fetch, calVars, TypeOK, LocalTypeOK
<1> SUFFICES ASSUME NEW i \in Ids PROVE view'[p][i] = Listing(p, i)'
  BY DEF Exact
<1>2. view[p][i] = Listing(p, i)
  BY DEF Exact
<1> QED
  BY <1>1, <1>2 DEF Listing, ListEvents

LEMMA FetchPhases ==
    ASSUME IInv, HistoryInv, NEW p \in Clients, Phases(p), NEW a \in todo[p], Fetch(p, a)
    PROVE  Phases(p)'
<1> USE DEF IInv, TypeOK, LocalTypeOK
<1>1. /\ pc[p] = "fetch" /\ pc'[p] = "fetch" /\ cal' = cal /\ config' = config
      /\ todo'[p] = todo[p] \ {a} /\ healthy'[p] = healthy[p] \cup {a}
      /\ view'[p] = [i \in Ids |-> IF i \in ListEvents(a) THEN cal[i] ELSE view[p][i]]
      /\ garbage' = garbage
  BY DEF Fetch, calVars
<1>2. Exact(p)'
  BY <1>1, FetchExact DEF Phases, ListingPhase
<1>3. ListingPhase(p)'
  <2>1. ExactIsReal'
    BY ExactReal, PTL
  <2> QED
    BY <1>1, <1>2, <2>1 DEF Phases, ListingPhase, ExactIsReal
<1>4. Doomed(p)' = {}
  BY <1>1 DEF Doomed, HistoryInv, SteadyOK, Collecting
<1>5. PairsPhase(p)' /\ CallPhase(p)' /\ CollectPhase(p)'
  BY <1>1, <1>4 DEF PairsPhase, CallPhase, CollectPhase, Collecting
<1> QED
  BY <1>3, <1>5 DEF Phases

LEMMA PropagatePhases ==
    ASSUME IInv, HistoryInv, NEW p \in Clients, Phases(p), Propagate(p)
    PROVE  Phases(p)'
<1> USE DEF IInv, TypeOK, LocalTypeOK
<1>1. /\ pc[p] = "fetch" /\ todo[p] = {} /\ pc'[p] = "propagate" /\ work'[p] = Pairs(p)
      /\ UNCHANGED <<cal, config, todo, healthy, view, garbage>>
  BY DEF Propagate, Go, calVars
<1>2. Exact(p) /\ healthy[p] = config
  BY <1>1 DEF Phases, ListingPhase
<1>3. ListingPhase(p)'
  BY <1>1 DEF Phases, ListingPhase, RealExact
<1>4. \A b \in Ids : Live(view[p][b]) => cal[b] = view[p][b]
  <2>1. ~Live(Unused)
    BY DEF Live, Unused
  <2> QED
    BY <1>2, <2>1 DEF Exact, Listing
<1>5. PairsPhase(p)'
  <2>1. Pairs(p)' = Pairs(p) /\ \A s, d : Indexed(p, s, d)' = Indexed(p, s, d)
    BY <1>1 DEF Pairs, Indexed, Identity
  <2> QED
    BY <1>1, <1>4, <2>1 DEF PairsPhase, Pending, Writing, Indexed, Mirrors, IsOwnedBlock
<1>6. CollectPhase(p)'
  <2>1. Doomed(p)' = {}
    BY <1>1 DEF Doomed, HistoryInv, SteadyOK, Collecting
  <2>2. ASSUME NEW b \in Ids, IsOwnedBlock(cal[b]), cal[b].span \in Window PROVE IsOwnedBlock(view[p][b])
    <3>1. cal[b].acct \in healthy[p]
      BY <1>2, <2>2 DEF NamesOK, IsOwnedBlock
    <3> QED
      BY <1>2, <2>2, <3>1 DEF Exact, Listing, IsOwnedBlock
  <2> QED
    BY <1>1, <2>1, <2>2 DEF CollectPhase, Collecting
<1>7. CallPhase(p)'
  BY <1>1 DEF CallPhase
<1> QED
  BY <1>3, <1>5, <1>6, <1>7 DEF Phases

\* gcStale finds every orphan, and nothing that mirrors a listed event.
LEMMA CollectPhases ==
    ASSUME IInv, HistoryInv, NEW p \in Clients, Phases(p), Collect(p)
    PROVE  Phases(p)'
<1> USE DEF IInv, TypeOK, LocalTypeOK
<1>1. /\ pc[p] = "propagate" /\ work[p] = {} /\ pc'[p] = "collect" /\ garbage'[p] = Stale(p)
      /\ UNCHANGED <<cal, config, todo, healthy, view, work>>
  BY DEF Collect, Go, calVars
<1>2. healthy[p] = config /\ RealExact(p)
  BY <1>1 DEF Phases, ListingPhase, PassOK, Knows
<1>3. ListingPhase(p)'
  BY <1>1 DEF Phases, ListingPhase, RealExact
<1>4. PairsPhase(p)'
  <2>1. Pairs(p)' = Pairs(p) /\ \A x : Done(cal, p, x)' = Done(cal, p, x)
    BY <1>1 DEF Pairs, Done, BlockOf, Identity
  <2>2. Pending(p) = {} /\ work'[p] = {}
    BY <1>1 DEF Pending, Writing
  <2> QED
    BY <1>1, <2>1, <2>2 DEF PairsPhase, Phases
<1>5. CollectPhase(p)'
  <2>1. Doomed(p)' = Stale(p) /\ LiveSources(p)' = LiveSources(p) /\ Busy' = Busy
    BY <1>1 DEF Doomed, LiveSources, Identity, Busy
  <2>2. ASSUME NEW b \in Stale(p), HasIdentity(cal[b]) PROVE cal[b].source \notin LiveSources(p)
    BY <2>2 DEF Stale, IsOwnedBlock, HistoryInv, ListingsOK, ListedOK
  <2>3. ASSUME NEW b \in Ids, Lost(b) PROVE b \in Stale(p)
    <3>1. IsOwnedBlock(view[p][b]) \/ cal[b].source \in LiveSources(p)
      BY <1>1, <2>3 DEF Phases, CollectPhase, Lost, Orphan
    <3>2. cal[b].source \notin LiveSources(p)
      <4> SUFFICES ASSUME NEW s \in Ids, BlocksTime(view[p][s]), cal[b].source = Identity(p, s)
                   PROVE  FALSE
        BY DEF LiveSources
      <4>1. s \in Busy /\ cal[s] = view[p][s]
        BY <1>2, BusyListed
      <4> QED
        BY <2>3, <4>1 DEF Lost, Orphan, Identity
    <3>3. cal[b].source = view[p][b].source
      BY <2>3, <3>1, <3>2 DEF Lost, Orphan, IsOwnedBlock, HistoryInv, ListingsOK, ListedOK
    <3> QED
      BY <1>2, <2>3, <3>1, <3>2, <3>3 DEF Stale, Lost, Orphan, HasIdentity
  <2>4. \A b : Lost(b)' = Lost(b)
    BY <1>1, <2>1 DEF Lost, Orphan
  <2> QED
    BY <1>1, <2>1, <2>2, <2>3, <2>4 DEF Phases, CollectPhase
<1>6. CallPhase(p)'
  BY <1>1 DEF CallPhase
<1> QED
  BY <1>3, <1>4, <1>5, <1>6 DEF Phases

\* A step of pass p that deletes the block it holds, or finds out about it.
DeleteStep(p) ==
    /\ pc[p] \in Collecting /\ pc'[p] \in Collecting
    /\ UNCHANGED <<config, todo, healthy, view, work>>
    /\ Doomed(p)' \subseteq Doomed(p)
    /\ \/ cal' = cal
       \/ /\ held[p] \in Doomed(p) /\ IsOwnedBlock(cal[held[p]]) /\ cal'[held[p]] = Gone
          /\ \A b \in Ids \ {held[p]} : cal'[b] = cal[b]
    /\ \A b \in Doomed(p) : b \in Doomed(p)' \/ ~IsOwnedBlock(cal'[b])

LEMMA DeletePhases ==
    ASSUME IInv, HistoryInv, NEW p \in Clients, Pass(p), Phases(p), DeleteStep(p)
    PROVE  Phases(p)'
<1> USE DEF IInv, TypeOK, LocalTypeOK, CalendarTypeOK
<1>1. /\ pc[p] \notin {"fetch", "idle", "propagate"} \cup Writing
      /\ pc'[p] \notin {"fetch", "idle", "propagate"} \cup Writing
      /\ UNCHANGED <<config, todo, healthy, view, work>> /\ work[p] = {}
  BY DEF DeleteStep, Writing, Collecting, PassOK, Knows
<1>2. ListingPhase(p)'
  <2>1. RealExact(p)'
    BY <1>1, RealStays, PassEffect DEF Phases, ListingPhase
  <2> QED
    BY <1>1, <2>1 DEF Phases, ListingPhase
\* What is deleted mirrors no event that was listed.
<1>3. ASSUME NEW b \in Ids, cal'[b] # cal[b]
      PROVE  /\ IsOwnedBlock(cal[b]) /\ ~IsOwnedBlock(cal'[b])
             /\ HasIdentity(cal[b]) => cal[b].source \notin LiveSources(p)
  <2>1. b = held[p] /\ b \in Doomed(p) /\ IsOwnedBlock(cal[b]) /\ cal'[b] = Gone
    BY <1>3 DEF DeleteStep
  <2> QED
    BY <2>1 DEF Phases, CollectPhase, IsOwnedBlock, Live, Gone, Unused
<1>4. PairsPhase(p)'
  <2>1. /\ Pairs(p)' = Pairs(p) /\ \A x : Done(cal, p, x)' = Done(cal', p, x)
        /\ Pending(p) = {} /\ work'[p] = {}
    BY <1>1 DEF Pairs, Done, BlockOf, Identity, Pending
  <2>2. ASSUME NEW x \in Pairs(p) PROVE Done(cal', p, x)
    <3>1. PICK b \in Ids : BlockOf(cal, p, b, x) /\ cal[b].span = view[p][x[1]].span
      BY <1>1, <2>1 DEF Phases, PairsPhase, Done
    <3>2. cal[b].source \in LiveSources(p) /\ HasIdentity(cal[b])
      <4>1. x[1] \in Ids /\ BlocksTime(view[p][x[1]]) /\ view[p][x[1]] \in Event
        BY DEF Pairs
      <4>2. cal[b].source = Identity(p, x[1]) /\ Identity(p, x[1]) \in Names \X Ids
        BY <3>1, <4>1, FieldTypes DEF BlockOf, Mirrors, Identity
      <4> QED
        BY <4>1, <4>2, EventsAssumption DEF LiveSources, HasIdentity
    <3>3. cal'[b] = cal[b]
      BY <1>3, <3>2
    <3> QED
      BY <3>1, <3>3 DEF Done, BlockOf
  <2> QED
    BY <1>1, <2>1, <2>2 DEF PairsPhase
<1>5. CollectPhase(p)'
  <2>1. LiveSources(p)' = LiveSources(p)
    BY <1>1 DEF LiveSources, Identity
  <2>2. ASSUME NEW b \in Ids, IsOwnedBlock(cal'[b]), HasIdentity(cal'[b]), cal'[b].span \in Window
        PROVE  IsOwnedBlock(view[p][b]) \/ cal'[b].source \in LiveSources(p)
    BY <1>1, <1>3, <2>2 DEF Phases, CollectPhase
  <2>3. ASSUME NEW b \in Doomed(p)', HasIdentity(cal'[b]) PROVE cal'[b].source \notin LiveSources(p)
    <3>1. b \in Ids /\ b \in Doomed(p)
      BY DEF DeleteStep, Doomed, PassOK, Knows
    <3>2. HasIdentity(cal[b]) => cal[b].source \notin LiveSources(p)
      BY <3>1 DEF Phases, CollectPhase
    <3>3. cal'[b] = cal[b] \/ cal'[b] = Gone
      BY <3>1 DEF DeleteStep
    <3> QED
      BY <2>3, <3>2, <3>3 DEF Gone, Unused, HasIdentity
  <2>4. ASSUME NEW b \in Ids, Lost(b)' PROVE b \in Doomed(p)'
    <3>1. IsOwnedBlock(cal'[b]) /\ cal'[b] = cal[b]
      BY <1>3, <2>4 DEF Lost, Orphan
    <3>2. \A s \in Busy : s \in Busy' /\ cal'[s] = cal[s]
      BY <1>1, <1>3 DEF Busy, BlocksTime, IsOwnedBlock
    <3>3. Lost(b)
      BY <1>1, <2>4, <3>1, <3>2 DEF Lost, Orphan
    <3>4. b \in Doomed(p)
      BY <3>3 DEF DeleteStep, Phases, CollectPhase
    <3> QED
      BY <3>1, <3>4 DEF DeleteStep
  <2> QED
    BY <1>1, <2>1, <2>2, <2>3, <2>4 DEF CollectPhase
<1>6. CallPhase(p)'
  BY <1>1 DEF CallPhase, Writing
<1> QED
  BY <1>2, <1>4, <1>5, <1>6 DEF Phases

LEMMA DeleteSteps ==
    ASSUME IInv, NEW p \in Clients \ DryRun, ~err'[p],
           \/ pc[p] \in {"get", "delete"} /\ Requests(p)
           \/ \E b \in garbage[p] : CollectNext(p, b)
    PROVE  DeleteStep(p)
<1> USE DEF IInv, TypeOK, LocalTypeOK, CalendarTypeOK
<1>1. ASSUME NEW b \in garbage[p], CollectNext(p, b) PROVE DeleteStep(p)
  <2>1. /\ pc[p] = "collect" /\ garbage'[p] = garbage[p] \ {b}
        /\ UNCHANGED <<cal, config, todo, healthy, view, work>>
    BY <1>1 DEF CollectNext, calVars
  <2>2. pc'[p] = "get" /\ held'[p] = b
    BY <1>1 DEF CollectNext, Go
  <2>3. Doomed(p)' = Doomed(p)
    BY <2>1, <2>2 DEF Doomed
  <2> QED
    BY <2>1, <2>2, <2>3 DEF DeleteStep, Collecting
<1>2. ASSUME pc[p] \in {"get", "delete"}, Requests(p) PROVE DeleteStep(p)
  <2>0. /\ ~ReturnErr(p) /\ held[p] \in Ids /\ held[p] \in Doomed(p)
        /\ Doomed(p) = garbage[p] \cup {held[p]}
    BY <1>2, ErrorShows DEF Doomed, PassOK, Knows
  \* The call goes on.
  <2>1. ASSUME pc'[p] \in {"get", "delete"}, UNCHANGED <<config, plan, held>>,
               cal' = cal \/ (Matches(p, held[p]) /\ Store(held[p], Gone) /\ pc[p] = "delete")
        PROVE  DeleteStep(p)
    <3>1. Doomed(p)' = Doomed(p) /\ UNCHANGED <<todo, healthy, view, work>>
      BY <1>2, <2>1 DEF Doomed, plan
    <3>2. cal' = cal \/ (/\ IsOwnedBlock(cal[held[p]]) /\ cal'[held[p]] = Gone
                         /\ \A b \in Ids \ {held[p]} : cal'[b] = cal[b])
      BY <2>0, <2>1 DEF Store, ETagOK, HoldsOwn
    <3> QED
      BY <1>2, <2>0, <2>1, <3>1, <3>2 DEF DeleteStep, Collecting
  \* The call returns, the block deleted or gone already.
  <2>2. ASSUME Return(p), config' = config,
               \/ cal' = cal /\ ~Live(cal[held[p]])
               \/ Matches(p, held[p]) /\ Store(held[p], Gone) /\ pc[p] = "delete"
        PROVE  DeleteStep(p)
    <3>1. /\ pc'[p] = "collect" /\ UNCHANGED <<todo, healthy, view, work, garbage>>
          /\ Doomed(p)' = garbage[p]
      BY <1>2, <2>2 DEF Return, Go, plan, Doomed
    <3>2. /\ ~IsOwnedBlock(cal'[held[p]])
          /\ cal' = cal \/ (/\ IsOwnedBlock(cal[held[p]]) /\ cal'[held[p]] = Gone
                            /\ \A b \in Ids \ {held[p]} : cal'[b] = cal[b])
      <4>1. CASE cal' = cal /\ ~Live(cal[held[p]])
        BY <4>1 DEF IsOwnedBlock
      <4>2. CASE Matches(p, held[p]) /\ Store(held[p], Gone) /\ pc[p] = "delete"
        <5>1. cal'[held[p]] = Gone /\ \A b \in Ids \ {held[p]} : cal'[b] = cal[b]
          BY <2>0, <4>2 DEF Store
        <5>2. ~IsOwnedBlock(Gone)
          BY DEF IsOwnedBlock, Live, Gone, Unused
        <5> QED
          BY <4>2, <5>1, <5>2 DEF ETagOK, HoldsOwn
      <4> QED
        BY <2>2, <4>1, <4>2
    <3> QED
      BY <1>2, <2>0, <2>2, <3>1, <3>2 DEF DeleteStep, Collecting
  <2>3. CASE DeleteReads(p)
    <3>1. \/ Return(p) /\ ~Live(cal[held[p]]) /\ UNCHANGED <<config, cal>>
          \/ Go(p, "delete") /\ UNCHANGED <<config, cal, plan, held>>
      BY <2>0, <2>3 DEF DeleteReads, ReturnOk, calVars, op
    <3>2. Go(p, "delete") => pc'[p] = "delete"
      BY DEF Go
    <3> QED
      BY <2>1, <2>2, <3>1, <3>2
  <2>4. CASE Delete(p)
    BY <2>2, <2>4 DEF Delete, DeleteEvent, ReturnOk
  <2>5. CASE DeleteUnanswered(p)
    BY <2>1, <2>5 DEF DeleteUnanswered, DeleteEvent
  <2>6. CASE DeleteConflict(p)
    <3>1. Go(p, "get") /\ UNCHANGED <<config, cal, plan, held>>
      BY <2>0, <2>6 DEF DeleteConflict, Conflict, calVars
    <3>2. pc'[p] = "get"
      BY <3>1 DEF Go
    <3> QED
      BY <2>1, <3>1, <3>2
  <2>7. CASE DeleteFindsNothing(p)
    <3>1. Return(p) /\ ~Live(cal[held[p]]) /\ UNCHANGED <<config, cal>>
      BY <2>0, <2>7 DEF DeleteFindsNothing, ReturnOk, calVars
    <3> QED
      BY <2>2, <3>1
  <2>8. CASE FindFails(p) \/ DeleteRefused(p)
    BY <2>0, <2>8 DEF FindFails, DeleteRefused
  <2>9. ~(\/ UpdateReads(p) \/ Put(p) \/ PutUnanswered(p) \/ PutConflict(p) \/ PutRefused(p)
          \/ InsertReads(p) \/ Post(p) \/ PostUnanswered(p) \/ PostRefused(p) \/ Reconcile(p))
    BY <1>2 DEF UpdateReads, Put, PutUnanswered, PutConflict, PutRefused, InsertReads, Post,
       PostUnanswered, PostRefused, Reconcile
  <2> QED
    BY <1>2, <2>3, <2>4, <2>5, <2>6, <2>7, <2>8, <2>9 DEF Requests
<1> QED
  BY <1>1, <1>2

----------------------------------------------------------------------------
(* A pass that ran undisturbed, and the one after it. *)

LEMMA StartPhases ==
    ASSUME IInv, HistoryInv, NEW p \in Clients, Start(p)
    PROVE  Phases(p)'
<1> USE DEF IInv, TypeOK, LocalTypeOK
<1>1. /\ pc[p] = "idle" /\ pc'[p] = "fetch" /\ todo'[p] = config /\ config' = config
      /\ UNCHANGED <<healthy, view, garbage>> /\ healthy[p] = {} /\ view[p] = NoView
  BY DEF Start, Go, calVars, PassOK, Knows
<1>2. Exact(p)'
  BY <1>1 DEF Exact, Listing, NoView
<1>3. ListingPhase(p)'
  <2>1. ExactIsReal'
    BY ExactReal, PTL
  <2> QED
    BY <1>1, <1>2, <2>1 DEF ListingPhase, ExactIsReal
<1>4. Doomed(p)' = {}
  BY <1>1 DEF Doomed, HistoryInv, SteadyOK, Collecting
<1> QED
  BY <1>1, <1>3, <1>4 DEF Phases, PairsPhase, CallPhase, CollectPhase, Collecting

LEMMA ErrorStays ==
    ASSUME TypeOK, NEW p \in Clients, Pass(p) \/ Crash(p), pc[p] # "idle", err[p]
    PROVE  err'[p]
<1> USE DEF TypeOK, LocalTypeOK
<1>1. err' = err \/ Fails(p)
  <2>1. CASE Plans(p)
    BY <2>1 DEF Plans, Start, TooFewHealthy, Propagate, Collect, Finish, Crash, Fetch, FetchFails,
       CollectNext
  <2>2. CASE Ensures(p)
    BY <2>2 DEF Ensures, EnsureIndexed, EnsureLookedUp, EnsureLookupFails, Reassert, Call
  <2>3. CASE Requests(p)
    BY <2>3 DEF Requests, FindFails, UpdateReads, Put, PutUnanswered, PutConflict, PutRefused,
       InsertReads, Post, PostUnanswered, PostRefused, Reconcile, DeleteReads, Delete,
       DeleteUnanswered, DeleteConflict, DeleteFindsNothing, DeleteRefused, Conflict, ReturnOk, ReturnErr
  <2> QED
    BY <2>1, <2>2, <2>3, PassSteps
<1> QED
  BY <1>1, ErrorShows

\* A pass that is over and has no error to report has finished.
LEMMA EndsWell ==
    ASSUME TypeOK, NEW p \in Clients, Pass(p) \/ Crash(p), Ends(p), ~err'[p]
    PROVE  Finish(p)
<1> USE DEF TypeOK, LocalTypeOK
<1>1. ~Requests(p)
  <2> SUFFICES ASSUME Requests(p) PROVE FALSE
    OBVIOUS
  <2>1. RequestMoves(p)
    BY RequestSteps DEF Requests
  <2>2. pc'[p] \in {"collect", "propagate", "update", "post", "reconcile", "put", "get", "delete"}
    BY <2>1 DEF RequestMoves, Return, Go
  <2> QED
    BY <2>2 DEF Ends
<1>2. ~Ensures(p)
  <2> SUFFICES ASSUME Ensures(p) PROVE FALSE
    OBVIOUS
  <2>1. pc[p] = "propagate" /\ (pc' = pc \/ Go(p, "update") \/ Go(p, "insert"))
    BY DEF Ensures, EnsureIndexed, EnsureLookedUp, EnsureLookupFails, Reassert, Call, Take
  <2> QED
    BY <2>1 DEF Ends, Go
<1>3. ~(TooFewHealthy(p) \/ Crash(p))
  BY ErrorShows DEF TooFewHealthy, Crash
<1>4. ~(\/ Start(p) \/ Propagate(p) \/ Collect(p)
        \/ (\E a \in todo[p] : Fetch(p, a) \/ FetchFails(p, a))
        \/ \E b \in garbage[p] : CollectNext(p, b))
  BY DEF Ends, Start, Propagate, Collect, Fetch, FetchFails, CollectNext, Go
<1> QED
  BY <1>1, <1>2, <1>3, <1>4, PassSteps DEF Plans

LEMMA PhasesStep ==
    ASSUME IInv, HistoryInv, NEW p \in Clients \ DryRun, Pass(p) \/ Crash(p), Phases(p),
           pc[p] # "idle", pc'[p] # "idle", ~err'[p]
    PROVE  Phases(p)'
<1> USE DEF IInv, TypeOK, LocalTypeOK
<1>0. Pass(p)
  BY DEF Crash, Go
<1>1. CASE WorkStep(p) /\ CallPhase(p)'
  BY <1>0, <1>1, WorkPhases DEF Phases
<1>2. CASE Requests(p)
  <2>1. CASE pc[p] \in Writing
    BY <1>1, <1>2, <2>1, WritePhases
  <2>2. CASE pc[p] \in {"get", "delete"}
    BY <1>0, <1>2, <2>2, DeleteSteps, DeletePhases
  <2> QED
    BY <1>2, <2>1, <2>2, RequestSteps DEF Requests
<1>3. CASE Ensures(p)
  BY <1>1, <1>3, EnsurePhases, ErrorShows DEF Ensures, EnsureLookupFails
<1>4. CASE Plans(p)
  <2>1. ~(Start(p) \/ TooFewHealthy(p) \/ Finish(p) \/ Crash(p))
    BY DEF Start, TooFewHealthy, Finish, Crash, End, Go
  <2>2. ASSUME NEW a \in todo[p], Fetch(p, a) \/ FetchFails(p, a) PROVE Phases(p)'
    BY <2>2, FetchPhases, ErrorShows DEF FetchFails
  <2>3. ASSUME NEW b \in garbage[p], CollectNext(p, b) PROVE Phases(p)'
    BY <1>0, <2>3, DeleteSteps, DeletePhases
  <2> QED
    BY <1>4, <2>1, <2>2, <2>3, PropagatePhases, CollectPhases DEF Plans
<1> QED
  BY <1>2, <1>3, <1>4, PassSteps

LEMMA FinishCompletes ==
    ASSUME IInv, HistoryInv, NEW p \in Clients, Phases(p), Finish(p)
    PROVE  Complete /\ \A b \in Ids : ~Lost(b)
<1> USE DEF IInv, TypeOK, LocalTypeOK
<1>1. /\ pc[p] = "collect" /\ garbage[p] = {} /\ work[p] = {} /\ todo[p] = {}
  BY DEF Finish, PassOK, Knows, Writing
<1>2. healthy[p] = config /\ RealExact(p) /\ Pending(p) = {} /\ Doomed(p) = {}
  BY <1>1 DEF Phases, ListingPhase, Pending, Doomed, Writing
<1>3. \A b \in Ids : ~Lost(b)
  BY <1>1, <1>2 DEF Phases, CollectPhase, Collecting
<1>4. ASSUME NEW s \in Busy, NEW d \in config \ {cal[s].acct}
      PROVE  \E b \in BlocksFor(s, d) : cal[b].span = cal[s].span
  <2>1. s \in Ids /\ view[p][s] = cal[s] /\ BlocksTime(cal[s])
    BY <1>2, <1>4, BusyListed DEF Busy
  <2>2. <<s, d>> \in Pairs(p)
    BY <1>2, <2>1 DEF Pairs
  <2>3. PICK b \in Ids : BlockOf(cal, p, b, <<s, d>>) /\ cal[b].span = view[p][s].span
    BY <1>1, <1>2, <2>2 DEF Phases, PairsPhase, Done
  <2>4. b \in BlocksFor(s, d)
    BY <2>1, <2>3 DEF BlockOf, BlocksFor, Identity
  <2> QED
    BY <2>1, <2>3, <2>4
<1> QED
  BY <1>3, <1>4 DEF Complete

\* Once the calendars are complete, every block for a listed event is right.
LEMMA RightBlock ==
    ASSUME IInv, AtMostOneBlock, Complete, NEW p \in Clients, RealExact(p), NEW s \in Ids, NEW d \in config,
           ToMirror(p, <<s, d>>)
    PROVE  /\ \E b \in Ids : Mirrors(cal[b], d, Identity(p, s))
           /\ \A b \in Ids : Mirrors(cal[b], d, Identity(p, s)) => cal[b].span = view[p][s].span
           /\ Identity(p, s) \in Names \X Ids
<1> USE DEF IInv, TypeOK, LocalTypeOK, CalendarTypeOK
<1>1. s \in Busy /\ cal[s] = view[p][s] /\ d # cal[s].acct
  BY BusyListed DEF ToMirror
<1>2. PICK b \in BlocksFor(s, d) : cal[b].span = cal[s].span
  BY <1>1 DEF Complete
<1>3. b \in Ids /\ Mirrors(cal[b], d, Identity(p, s))
  BY <1>1, <1>2 DEF BlocksFor, Identity
<1>4. Identity(p, s) \in Names \X Ids
  <2>1. view[p][s] \in Event
    OBVIOUS
  <2> QED
    BY <2>1, FieldTypes DEF Identity
<1>5. ASSUME NEW c \in Ids, Mirrors(cal[c], d, Identity(p, s)) PROVE c = b
  BY <1>3, <1>4, <1>5, EventsAssumption DEF AtMostOneBlock, UniqueBlocks, Mirrors, HasIdentity
<1> QED
  BY <1>1, <1>2, <1>3, <1>4, <1>5

\* No pass writes while the calendars are as they should be.
LEMMA SettledStep ==
    ASSUME IInv, HistoryInv, AtMostOneBlock, Complete, \A b \in Ids : ~Lost(b),
           NEW p \in Clients \ DryRun, Settled(p), Pass(p) \/ Crash(p)
    PROVE  cal' = cal /\ config' = config /\ Settled(p)'
<1> USE DEF IInv, TypeOK, LocalTypeOK
<1>1. ~Requests(p)
  <2> SUFFICES ASSUME Requests(p) PROVE FALSE
    OBVIOUS
  <2>1. pc[p] \in Writing \/ pc[p] \in {"get", "delete"}
    BY RequestSteps DEF Requests
  <2> QED
    BY <2>1 DEF Settled, WriteCalls, Writing
<1>2. cal' = cal /\ config' = config
  BY <1>1, PassSteps DEF Plans, Ensures, Start, TooFewHealthy, Propagate, Collect, Finish, End, Crash,
     Fetch, FetchFails, CollectNext, EnsureIndexed, EnsureLookedUp, EnsureLookupFails, calVars
<1>3. CASE Start(p)
  <2>1. /\ pc[p] = "idle" /\ pc'[p] = "fetch" /\ res'[p] = NoWrites
        /\ UNCHANGED <<healthy, view, garbage>> /\ healthy[p] = {} /\ view[p] = NoView
    BY <1>3 DEF Start, Go, PassOK, Knows
  <2>2. Exact(p)' /\ garbage'[p] = {}
    BY <2>1 DEF Exact, Listing, NoView, HistoryInv, SteadyOK, Collecting
  <2> QED
    BY <1>2, <2>1, <2>2 DEF Settled, WriteCalls
<1>4. CASE TooFewHealthy(p) \/ Finish(p) \/ Crash(p)
  <2>1. pc'[p] = "idle"
    BY <1>4 DEF TooFewHealthy, Finish, Crash, End, Go
  <2> QED
    BY <1>2, <2>1 DEF Settled
\* Otherwise the pass is underway, and stays so.
<1>5. ASSUME pc[p] # "idle", pc'[p] \in {"fetch", "propagate", "collect"}, UNCHANGED <<healthy, view, res>>,
             garbage'[p] = {}
      PROVE  Settled(p)'
  <2>1. Exact(p)'
    BY <1>2, <1>5 DEF Settled, Exact, Listing
  <2> QED
    BY <1>5, <2>1 DEF Settled, WriteCalls
<1>6. CASE Propagate(p) \/ \E a \in todo[p] : FetchFails(p, a)
  <2>1. /\ pc[p] = "fetch" /\ pc'[p] \in {"fetch", "propagate"}
        /\ UNCHANGED <<healthy, view, res, garbage>>
    BY <1>6 DEF Propagate, FetchFails, Go
  <2>2. pc[p] # "idle" /\ garbage'[p] = {}
    BY <2>1 DEF Settled
  <2>3. pc'[p] \in {"fetch", "propagate", "collect"} /\ UNCHANGED <<healthy, view, res>>
    BY <2>1
  <2> QED
    BY <1>2, <1>5, <2>2, <2>3
<1>7. ASSUME NEW a \in todo[p], Fetch(p, a) PROVE Settled(p)'
  <2>1. pc[p] = "fetch" /\ UNCHANGED <<pc, garbage, res>>
    BY <1>7 DEF Fetch
  <2>2. Exact(p)'
    BY <1>7, <2>1, FetchExact DEF Settled
  <2> QED
    BY <2>1, <2>2 DEF Settled
<1>8. pc[p] # "idle" => Exact(p) /\ RealExact(p) /\ garbage[p] = {}
  BY ExactReal DEF Settled, ExactIsReal
<1> HIDE DEF IInv
<1>9. ASSUME pc[p] # "idle", NEW b \in Ids, Live(view[p][b])
       PROVE  cal[b] = view[p][b] /\ cal[b].span \in Window
  <2>1. ~Live(Unused)
    BY DEF Live, Unused
  <2>2. view[p][b] = Listing(p, b)
    BY <1>8, <1>9 DEF Exact
  <2> QED
    BY <1>9, <2>1, <2>2 DEF Listing
<1> USE DEF IInv
<1>10. ~\E b \in garbage[p] : CollectNext(p, b)
  BY <1>8 DEF CollectNext
<1>11. ASSUME Collect(p) PROVE Settled(p)'
  <2>1. /\ pc[p] = "propagate" /\ pc'[p] = "collect" /\ garbage'[p] = Stale(p)
        /\ UNCHANGED <<healthy, view, res>>
    BY <1>11 DEF Collect, Go
  <2>2. ASSUME NEW b \in Stale(p) PROVE FALSE
    <3>1. b \in Ids /\ cal[b] = view[p][b] /\ cal[b].span \in Window
      BY <1>9, <2>1 DEF Stale, IsOwnedBlock
    <3>2. /\ IsOwnedBlock(cal[b]) /\ HasIdentity(cal[b]) /\ cal[b].source[1] \in healthy[p]
          /\ cal[b].source \notin LiveSources(p)
      BY <3>1 DEF Stale
    <3>3. cal[b].source[1] \in config
      BY <3>2 DEF PassOK, Knows
    <3>4. PICK s \in Busy : cal[b].source = <<cal[s].acct, s>>
      BY <3>1, <3>2, <3>3 DEF Lost, Orphan
    <3>5. s \in Ids /\ view[p][s] = cal[s] /\ BlocksTime(cal[s])
      BY <1>8, <2>1, <3>2, <3>4, BusyListed DEF Busy
    <3> QED
      BY <3>2, <3>4, <3>5 DEF LiveSources, Identity
  <2>3. Stale(p) = {}
    BY <2>2
  <2> QED
    BY <1>5, <2>1, <2>3
<1>12. ASSUME NEW s \in Ids, NEW d \in healthy[p],
              EnsureIndexed(p, s, d) \/ EnsureLookedUp(p, s, d) \/ EnsureLookupFails(p, s, d)
       PROVE  Settled(p)'
  <2>1. /\ pc[p] = "propagate" /\ <<s, d>> \in work[p] /\ UNCHANGED <<healthy, view, garbage>>
    BY <1>12 DEF EnsureIndexed, EnsureLookedUp, EnsureLookupFails, Take
  <2>2. d \in config /\ ToMirror(p, <<s, d>>)
    BY <2>1 DEF PassOK, Knows
  <2>3. /\ \E b \in Ids : Mirrors(cal[b], d, Identity(p, s))
        /\ \A b \in Ids : Mirrors(cal[b], d, Identity(p, s)) => cal[b].span = view[p][s].span
        /\ Identity(p, s) \in Names \X Ids
    BY <1>8, <2>1, <2>2, RightBlock
  <2>4. UNCHANGED <<pc, res>>
    <3>1. CASE EnsureIndexed(p, s, d)
      <4>1. PICK b \in Indexed(p, s, d) : Reassert(p, s, d, view[p][b].span)
        BY <3>1 DEF EnsureIndexed
      <4>2. b \in Ids /\ cal[b] = view[p][b]
        BY <1>9, <2>1, <4>1 DEF Indexed, Mirrors, IsOwnedBlock
      <4>3. view[p][b].span = view[p][s].span
        BY <2>3, <4>1, <4>2 DEF Indexed
      <4> QED
        BY <4>1, <4>3 DEF Reassert
    <3>2. CASE EnsureLookedUp(p, s, d)
      <4>1. PICK b \in FindBlockBySource(d, Identity(p, s)) : b # NoId => Reassert(p, s, d, cal[b].span)
        BY <3>2 DEF EnsureLookedUp
      <4>2. b # NoId
        BY <2>3, <4>1, NotFound
      <4>3. b \in Ids /\ cal[b].span = view[p][s].span
        BY <2>3, <4>1, <4>2, FoundTypes
      <4> QED
        BY <4>1, <4>2, <4>3 DEF Reassert
    <3>3. CASE EnsureLookupFails(p, s, d)
      BY <3>3 DEF EnsureLookupFails
    <3> QED
      BY <1>12, <3>1, <3>2, <3>3
  <2> QED
    BY <1>5, <1>8, <2>1, <2>4
<1> QED
  BY <1>1, <1>2, <1>3, <1>4, <1>6, <1>7, <1>10, <1>11, <1>12, PassSteps DEF Plans, Ensures

LEMMA OnlyStartStarts ==
    ASSUME TypeOK, NEW p \in Clients, Pass(p) \/ Crash(p), pc[p] = "idle"
    PROVE  Start(p)
<1>1. ~Requests(p)
  BY RequestSteps DEF Requests, Writing
<1>2. ~Ensures(p)
  BY DEF Ensures, EnsureIndexed, EnsureLookedUp, EnsureLookupFails, Take
<1> QED
  BY <1>1, <1>2, PassSteps DEF Plans, TooFewHealthy, Propagate, Collect, Finish, Crash,
     Fetch, FetchFails, CollectNext

\* The promise is about the calendars and what the pass itself holds.
LEMMA QuietStays ==
    ASSUME NEW p \in Clients, Quiet(p), Stays(p), cal' = cal, config' = config, quiet' = quiet
    PROVE  Quiet(p)'
<1> USE DEF Stays
<1>1. Phases(p)' <=> Phases(p)
  BY DEF Phases, ListingPhase, Exact, Listing, RealExact, PairsPhase,
     Pairs, Pending, Done, BlockOf, Identity, Indexed, CallPhase, TargetSpan, CollectPhase, Doomed,
     LiveSources, Lost, Orphan, Busy
<1>2. Complete' <=> Complete
  BY DEF Complete, Busy, BlocksFor
<1>3. \A b \in Ids : Lost(b)' <=> Lost(b)
  BY DEF Lost, Orphan, Busy
<1>4. Settled(p)' <=> Settled(p)
  BY DEF Settled, Exact, Listing
<1> QED
  BY <1>1, <1>2, <1>3, <1>4 DEF Quiet

\* What a step makes of the promise about a pass that writes.
LEMMA QuietStep ==
    ASSUME Alone, IInv, HistoryInv, DryRunReads, AtMostOneBlock, HNext,
           NEW p \in Clients \ DryRun, Quiet(p)
    PROVE  Quiet(p)'
<1> USE DEF IInv, TypeOK
<1>1. CASE edits' # edits
  <2>1. UNCHANGED local
    <3>1. \A q \in Clients : ~(Pass(q) \/ Crash(q))
      BY <1>1, PassEffect DEF Effect
    <3> QED
      BY <1>1, <3>1 DEF HNext, Next, OutageEnds, Rename, calVars, local
  <2>2. \A q \in Clients : ~Starts(q) /\ ~Ends(q)
    BY <2>1 DEF Starts, Ends, local
  <2>3. quiet' = 0
    BY <1>1, <2>2, Zenon DEF HNext, RememberQuiet
  <2> QED
    BY <2>3 DEF Quiet
<1>2. Clients \ DryRun = {p}
  BY DEF Alone
\* Whoever else runs is a dry run, and writes nothing.
<1>3. ASSUME edits' = edits, ~(Pass(p) \/ Crash(p))
      PROVE  cal' = cal /\ config' = config /\ Stays(p)
  <2>1. OwnersAct => edits' # edits
    BY OwnersEffect
  <2>2. \A c \in Accounts, d \in Spare : Rename(c, d) => edits' # edits
    BY DEF Rename, Edit, CalendarTypeOK
  <2>3. ASSUME NEW q \in Clients, Pass(q) \/ Crash(q) PROVE q \in DryRun /\ p \in Clients \ {q}
    BY <1>2, <1>3, <2>3
  <2>4. ASSUME NEW q \in Clients, Pass(q) \/ Crash(q) PROVE cal' = cal /\ config' = config /\ Stays(p)
    BY <2>3, <2>4, DryStep, OthersKeep DEF calVars
  <2>5. CASE OutageEnds
    BY <2>5 DEF OutageEnds, calVars, local, plan, op, Stays
  <2> QED
    BY <1>3, <2>1, <2>2, <2>4, <2>5 DEF HNext, Next
<1>5. ASSUME edits' = edits
      PROVE  quiet' = CASE quiet = 0 /\ Starts(p) -> 1
                        [] quiet = 1 /\ Ends(p) /\ err'[p] -> 0
                        [] quiet = 1 /\ Ends(p) /\ ~err'[p] -> 2
                        [] OTHER -> quiet
  BY <1>2, <1>5 DEF HNext, RememberQuiet
<1>6. ASSUME edits' = edits, ~(Pass(p) \/ Crash(p)) PROVE Quiet(p)'
  <2>1. cal' = cal /\ config' = config /\ Stays(p)
    BY <1>3, <1>6
  <2>2. ~Starts(p) /\ ~Ends(p)
    BY <2>1 DEF Starts, Ends, Stays
  <2>3. quiet' = quiet
    BY <1>5, <1>6, <2>2 DEF Quiet
  <2> QED
    BY <2>1, <2>3, QuietStays
<1>7. ASSUME edits' = edits, Pass(p) \/ Crash(p) PROVE Quiet(p)'
  <2>1. CASE quiet = 0
    <3>1. CASE Starts(p)
      <4>1. Start(p) /\ pc'[p] # "idle"
        BY <1>7, <3>1, OnlyStartStarts DEF Starts
      <4>2. Phases(p)'
        BY <4>1, StartPhases
      <4>3. quiet' = 1
        BY <1>5, <1>7, <2>1, <3>1
      <4> QED
        BY <1>7, <4>1, <4>2, <4>3 DEF Quiet
    <3>2. CASE ~Starts(p)
      <4>1. quiet' = 0
        BY <1>5, <1>7, <2>1, <3>2
      <4> QED
        BY <4>1 DEF Quiet
    <3> QED
      BY <3>1, <3>2
  <2>2. CASE quiet = 1
    <3>1. pc[p] # "idle" /\ (~err[p] => Phases(p)) /\ (err[p] => err'[p])
      BY <1>7, <2>2, ErrorStays DEF Quiet
    <3>2. CASE ~Ends(p)
      <4>1. quiet' = 1 /\ pc'[p] # "idle"
        BY <1>5, <1>7, <2>2, <3>1, <3>2 DEF Ends
      <4>2. ~err'[p] => Phases(p)'
        BY <1>7, <3>1, <4>1, PhasesStep
      <4> QED
        BY <1>7, <4>1, <4>2 DEF Quiet
    <3>3. CASE Ends(p) /\ err'[p]
      <4>1. quiet' = 0
        BY <1>5, <1>7, <2>2, <3>3
      <4> QED
        BY <4>1 DEF Quiet
    <3>4. CASE Ends(p) /\ ~err'[p]
      <4>1. quiet' = 2 /\ pc'[p] = "idle"
        BY <1>5, <1>7, <2>2, <3>4 DEF Ends
      <4>2. Finish(p) /\ Phases(p)
        BY <1>7, <3>1, <3>4, EndsWell
      <4>3. Complete /\ (\A b \in Ids : ~Lost(b)) /\ cal' = cal /\ config' = config
        BY <4>2, FinishCompletes DEF Finish, End, calVars
      <4>4. Complete' /\ (\A b \in Ids : ~Lost(b)')
        BY <4>3 DEF Complete, Busy, BlocksFor, Lost, Orphan
      <4>5. Settled(p)'
        BY <4>1 DEF Settled
      <4> QED
        BY <1>7, <4>1, <4>4, <4>5 DEF Quiet
    <3> QED
      BY <3>2, <3>3, <3>4
  <2>3. CASE quiet = 2
    <3>1. quiet' = 2
      BY <1>5, <1>7, <2>3
    <3>2. Complete /\ (\A b \in Ids : ~Lost(b)) /\ Settled(p)
      BY <2>3 DEF Quiet
    <3>3. cal' = cal /\ config' = config /\ Settled(p)'
      BY <1>7, <3>2, SettledStep
    <3>4. Complete' /\ (\A b \in Ids : ~Lost(b)')
      BY <3>2, <3>3 DEF Complete, Busy, BlocksFor, Lost, Orphan
    <3> QED
      BY <1>7, <3>1, <3>3, <3>4 DEF Quiet
  <2> QED
    BY <2>1, <2>2, <2>3 DEF Quiet
<1> QED
  BY <1>1, <1>6, <1>7

\* While no account is renamed, every block is tagged with a name still in use.
TagsInUse == \A i \in Ids : HasIdentity(cal[i]) => cal[i].source[1] \in config

LEMMA TagsInUseStep ==
    ASSUME "rename" \notin Edits, IInv, TagsInUse, [Next]_vars
    PROVE  TagsInUse'
<1>1. CASE UNCHANGED vars
  BY <1>1 DEF TagsInUse, vars, calVars
<1>2. CASE Next
  <2>1. ~\E a \in Accounts, b \in Spare : Rename(a, b)
    BY DEF Rename, Edit
  <2>2. /\ config' = config
        /\ \A j \in Ids : HasIdentity(cal'[j]) => Known(cal'[j].source)
    BY <1>2, <2>1, Ages
  <2>3. ASSUME NEW src, Known(src) PROVE src[1] \in config
    <3>1. CASE \E j \in Ids : HasIdentity(cal[j]) /\ cal[j].source = src
      BY <3>1 DEF TagsInUse
    <3>2. ASSUME NEW p \in Clients, pc[p] \in Writing, src = TargetSource(p) PROVE src[1] \in config
      <4>1. ToMirror(p, cur[p]) /\ cur[p][1] \in Ids
        BY <3>2 DEF IInv, PassOK, Knows, ToMirror
      <4>2. view[p][cur[p][1]].acct \in config
        BY <4>1 DEF IInv, NamesOK, ToMirror, BlocksTime
      <4> QED
        BY <3>2, <4>2 DEF TargetSource, Identity
    <3> QED
      BY <2>3, <3>1, <3>2 DEF Known
  <2> QED
    BY <2>2, <2>3 DEF TagsInUse
<1> QED
  BY <1>1, <1>2

LEMMA TagsInUseAlways == "rename" \notin Edits => (HSpec => []TagsInUse)
<1> SUFFICES ASSUME "rename" \notin Edits PROVE HSpec => []TagsInUse
  OBVIOUS
<1>1. Init => TagsInUse
  BY DEF Init, CalendarInit, RealEvent, Unused, HasIdentity, TagsInUse
<1>2. IInv /\ TagsInUse /\ [Next]_vars => TagsInUse'
  BY TagsInUseStep
<1> QED
  BY <1>1, <1>2, Forgets, Invariant, PTL DEF Spec

\* A pass that runs alone and undisturbed, by edits or by errors, does all its
\* work, whatever the passes before it had left behind, and keeps the promise
\* until the next edit.  Alone: no other pass writes to the calendars (dry
\* runs may look on), and nobody copies a block together with its tags.
QuietAlways == \A p \in Clients \ DryRun : Quiet(p)

THEOREM QuietInvariant == Alone => (HSpec => []QuietAlways)
<1> SUFFICES ASSUME Alone PROVE HSpec => []QuietAlways
  OBVIOUS
<1>1. HInit => QuietAlways
  BY DEF HInit, QuietAlways, Quiet
<1>2. IInv /\ HistoryInv /\ DryRunReads /\ AtMostOneBlock /\ QuietAlways /\ [HNext]_hvars => QuietAlways'
  <2> SUFFICES ASSUME IInv, HistoryInv, DryRunReads, AtMostOneBlock, QuietAlways,
                      [HNext]_hvars, NEW p \in Clients \ DryRun
               PROVE  Quiet(p)'
    BY DEF QuietAlways
  <2>1. CASE UNCHANGED hvars
    <3>1. Stays(p) /\ cal' = cal /\ config' = config /\ quiet' = quiet
      BY <2>1 DEF hvars, vars, calVars, local, plan, op, Stays
    <3> QED
      BY <3>1, QuietStays DEF QuietAlways
  <2> QED
    BY <2>1, QuietStep DEF QuietAlways
<1>3. HSpec => []IInv /\ []DryRunReads /\ []AtMostOneBlock
  BY Forgets, Invariant, DryRunWritesNothing, OneBlock, PTL
<1> QED
  BY <1>1, <1>2, <1>3, HistoryInvariant, PTL DEF HSpec

\* Only a pass makes the promise: someone made it.
Promised == quiet = 2 => Clients \ DryRun # {}

LEMMA SomePass == HSpec => []Promised
<1>1. HInit => Promised
  BY DEF HInit, Promised
<1>2. Promised /\ [HNext]_hvars => Promised'
  <2> SUFFICES ASSUME Clients \ DryRun = {}, quiet # 2, [HNext]_hvars PROVE quiet' # 2
    BY DEF Promised
  <2>1. CASE UNCHANGED hvars
    BY <2>1 DEF hvars
  <2>2. CASE HNext
    <3>2. quiet' = 0 \/ quiet' = quiet
      BY <2>2, Zenon DEF HNext, RememberQuiet
    <3> QED
      BY <3>2
  <2> QED
    BY <2>1, <2>2
<1> QED
  BY <1>1, <1>2, PTL DEF HSpec

\* After a pass that ended without an error, and since whose start nobody edited
\* anything, every busy event has its block on every other account, with its
\* span, whatever earlier passes that failed or were killed had left behind.
THEOREM CleanPassComplete == Alone => (HSpec => []CleanPassCompletes)
<1> SUFFICES ASSUME Alone PROVE HSpec => []CleanPassCompletes
  OBVIOUS
<1>1. QuietAlways /\ Promised => CleanPassCompletes
  BY DEF Promised, QuietAlways, Quiet, CleanPassCompletes
<1> QED
  BY <1>1, QuietInvariant, SomePass, PTL

\* After such a pass no block in the window mirrors an event that is not busy.
\* Renames are excluded: a block tagged with a name that is no longer configured
\* is never collected, since gcStale only asks of accounts it has fetched.
THEOREM CleanPassCollected == Alone /\ "rename" \notin Edits => (HSpec => []CleanPassCollects)
<1> SUFFICES ASSUME Alone, "rename" \notin Edits PROVE HSpec => []CleanPassCollects
  OBVIOUS
<1>1. QuietAlways /\ Promised /\ TagsInUse => CleanPassCollects
  BY DEF Promised, QuietAlways, Quiet, CleanPassCollects, NoOrphans, Lost, Orphan, TagsInUse
<1> QED
  BY <1>1, QuietInvariant, SomePass, TagsInUseAlways, PTL

\* The pass after such a pass has nothing to write, and requests no write.
THEOREM SecondPassIdle == Alone => (HSpec => []SecondPassWritesNothing)
<1> SUFFICES ASSUME Alone PROVE HSpec => []SecondPassWritesNothing
  OBVIOUS
<1>1. QuietAlways => SecondPassWritesNothing
  BY DEF QuietAlways, Quiet, Settled, SecondPassWritesNothing
<1> QED
  BY <1>1, QuietInvariant, PTL

----------------------------------------------------------------------------
(* What a dry run counts. *)

\* The pairs dealt with so far that have no block, or one that lies elsewhere
\* in time than their event, and the stale blocks dealt with so far.
Dealt(p) == Pairs(p) \ work[p]
Lacking(p) == {x \in Dealt(p) : BlocksFor(x[1], x[2]) = {}}
Misplaced(p) == {x \in Dealt(p) : \E b \in BlocksFor(x[1], x[2]) : cal[b].span # cal[x[1]].span}
Collected(p) == Stale(p) \ garbage[p]

\* n is the size of S.
Size(S, n) == IsFiniteSet(S) /\ n = Cardinality(S)

Counted(p) ==
    /\ healthy[p] = config
    /\ Size(Lacking(p), res[p].created)
    /\ UniqueBlocks(cal) => Size(Misplaced(p), res[p].updated)
    /\ garbage[p] \subseteq Stale(p)
    /\ IF pc[p] = "collect" THEN Size(Collected(p), res[p].deleted)
                            ELSE garbage[p] = {} /\ res[p].deleted = 0

\* As long as the calendars stand still and nothing failed, what a dry run has
\* listed is what there is, and it has counted what it has dealt with.
Preview(p) == (pc[p] # "idle" /\ still[p] /\ ~err[p]) =>
    /\ Exact(p)
    /\ pc[p] = "fetch" => healthy[p] \cup todo[p] = config /\ res[p] = NoWrites
    /\ pc[p] # "fetch" => Counted(p)

LEMMA Empty == Size({}, 0)
BY FS_EmptySet DEF Size

LEMMA OneMore ==
    ASSUME NEW S, NEW n, NEW x, Size(S, n), x \notin S
    PROVE  Size(S \cup {x}, n + 1)
BY FS_AddElement DEF Size

\* A step leaves a counter alone, or adds one to it.
LEMMA CountsOne ==
    ASSUME LocalTypeOK, NEW p \in Clients, NEW k \in Counters, Counts(p, k)
    PROVE  /\ res'[p][k] = res[p][k] + 1
           /\ \A l \in Counters \ {k} : res'[p][l] = res[p][l]
BY DEF LocalTypeOK, Counts

\* While the listing is exact, the blocks for a pair are those the lookup finds.
LEMMA ExactBlocks ==
    ASSUME IInv, NEW p \in Clients, Exact(p), NEW s \in Ids, NEW d, ToMirror(p, <<s, d>>)
    PROVE  /\ BlocksFor(s, d) = {b \in Ids : Mirrors(cal[b], d, Identity(p, s))}
           /\ Indexed(p, s, d) \subseteq BlocksFor(s, d)
           /\ \A b \in Indexed(p, s, d) : view[p][b] = cal[b]
           /\ view[p][s] = cal[s] /\ Identity(p, s) \in Names \X Ids
<1> USE DEF IInv, TypeOK, LocalTypeOK
<1>1. ~Live(Unused)
  BY DEF Live, Unused
<1>2. \A b \in Ids : Live(view[p][b]) => view[p][b] = cal[b]
  BY <1>1 DEF Exact, Listing
<1>3. view[p][s] = cal[s]
  BY <1>2 DEF ToMirror, BlocksTime
<1>4. Identity(p, s) \in Names \X Ids
  <2>1. view[p][s] \in Event
    OBVIOUS
  <2> QED
    BY <2>1, FieldTypes DEF Identity
<1>5. BlocksFor(s, d) = {b \in Ids : Mirrors(cal[b], d, Identity(p, s))}
  BY <1>3 DEF BlocksFor, Identity
<1>6. \A b \in Indexed(p, s, d) : view[p][b] = cal[b]
  BY <1>2 DEF Indexed, Mirrors, IsOwnedBlock
<1>7. Indexed(p, s, d) \subseteq BlocksFor(s, d)
  BY <1>5, <1>6 DEF Indexed
<1> QED
  BY <1>3, <1>4, <1>5, <1>6, <1>7

\* A dry run that deals with a pair counts it where it belongs.
LEMMA EnsureCounts ==
    ASSUME IInv, NEW p \in Clients, p \in DryRun, Exact(p), NEW s \in Ids, NEW d,
           ToMirror(p, <<s, d>>), EnsureIndexed(p, s, d) \/ EnsureLookedUp(p, s, d)
    PROVE  /\ UNCHANGED <<pc, err>>
           /\ \/ /\ UNCHANGED res /\ BlocksFor(s, d) # {}
                 /\ UniqueBlocks(cal) => \A b \in BlocksFor(s, d) : cal[b].span = cal[s].span
              \/ Counts(p, "created") /\ BlocksFor(s, d) = {}
              \/ Counts(p, "updated") /\ \E b \in BlocksFor(s, d) : cal[b].span # cal[s].span
<1>1. /\ BlocksFor(s, d) = {b \in Ids : Mirrors(cal[b], d, Identity(p, s))}
      /\ Indexed(p, s, d) \subseteq BlocksFor(s, d)
      /\ \A b \in Indexed(p, s, d) : view[p][b] = cal[b]
      /\ view[p][s] = cal[s] /\ Identity(p, s) \in Names \X Ids
  BY ExactBlocks
<1>2. UniqueBlocks(cal) => \A b, c \in BlocksFor(s, d) : b = c
  BY <1>1, EventsAssumption DEF UniqueBlocks, Mirrors, HasIdentity
<1>3. ASSUME NEW b \in BlocksFor(s, d), Reassert(p, s, d, cal[b].span)
      PROVE  /\ UNCHANGED <<pc, err>>
             /\ \/ /\ UNCHANGED res /\ BlocksFor(s, d) # {}
                   /\ UniqueBlocks(cal) => \A c \in BlocksFor(s, d) : cal[c].span = cal[s].span
                \/ Counts(p, "updated") /\ \E c \in BlocksFor(s, d) : cal[c].span # cal[s].span
  <2>1. CASE cal[b].span = cal[s].span
    BY <1>1, <1>2, <1>3, <2>1 DEF Reassert
  <2>2. CASE cal[b].span # cal[s].span
    BY <1>1, <1>3, <2>2 DEF Reassert
  <2> QED
    BY <2>1, <2>2
<1>4. CASE EnsureIndexed(p, s, d)
  <2>1. PICK b \in Indexed(p, s, d) : Reassert(p, s, d, view[p][b].span)
    BY <1>4 DEF EnsureIndexed
  <2> QED
    BY <1>1, <1>3, <2>1
<1>5. CASE EnsureLookedUp(p, s, d)
  <2>1. PICK b \in FindBlockBySource(d, Identity(p, s)) :
           IF b # NoId THEN Reassert(p, s, d, cal[b].span)
           ELSE Counts(p, "created") /\ UNCHANGED <<pc, op, err>>
    BY <1>5 DEF EnsureLookedUp
  <2>2. CASE b = NoId
    <3>1. \A i \in Ids : ~Mirrors(cal[i], d, Identity(p, s))
      BY <1>1, <2>1, <2>2, NotFound
    <3> QED
      BY <1>1, <2>1, <2>2, <3>1
  <2>3. CASE b # NoId
    <3>1. b \in BlocksFor(s, d)
      BY <1>1, <2>1, <2>3, FoundTypes
    <3> QED
      BY <1>3, <2>1, <2>3, <3>1
  <2> QED
    BY <2>2, <2>3
<1> QED
  BY <1>4, <1>5

LEMMA PreviewStays ==
    ASSUME NEW p \in Clients, Preview(p), Stays(p), config' = config,
           still'[p] => still[p] /\ cal' = cal
    PROVE  Preview(p)'
<1> SUFFICES ASSUME pc'[p] # "idle", still'[p], ~err'[p], cal' = cal
             PROVE  /\ Exact(p)'
                    /\ pc'[p] = "fetch" => healthy'[p] \cup todo'[p] = config' /\ res'[p] = NoWrites
                    /\ pc'[p] # "fetch" => Counted(p)'
  BY DEF Preview
<1>1. /\ Exact(p)
      /\ pc[p] = "fetch" => healthy[p] \cup todo[p] = config /\ res[p] = NoWrites
      /\ pc[p] # "fetch" => Counted(p)
  BY DEF Preview, Stays
<1>2. Exact(p)'
  BY <1>1 DEF Stays, Exact, Listing
<1>3. Counted(p)' <=> Counted(p)
  BY DEF Stays, Counted, Lacking, Misplaced, Collected, Dealt, Pairs, Stale, LiveSources, Identity,
     BlocksFor
<1> QED
  BY <1>1, <1>2, <1>3 DEF Stays

LEMMA PreviewStep ==
    ASSUME IInv, HistoryInv, DryRunReads, NEW p \in DryRun, Preview(p),
           Pass(p) \/ Crash(p), still'[p] => Starts(p) \/ still[p]
    PROVE  Preview(p)'
<1> USE EngineAssumption DEF IInv, TypeOK, LocalTypeOK
<1> SUFFICES ASSUME pc'[p] # "idle", still'[p], ~err'[p]
             PROVE  /\ Exact(p)'
                    /\ pc'[p] = "fetch" => healthy'[p] \cup todo'[p] = config' /\ res'[p] = NoWrites
                    /\ pc'[p] # "fetch" => Counted(p)'
  BY DEF Preview
<1>1. cal' = cal /\ config' = config
  BY DryStep DEF calVars
<1>2. ~Requests(p)
  <2> SUFFICES ASSUME Requests(p) PROVE FALSE
    OBVIOUS
  <2>1. pc[p] \in Writing \/ pc[p] \in {"get", "delete"}
    BY RequestSteps DEF Requests
  <2> QED
    BY <2>1 DEF DryRunReads, WriteCalls, Writing
<1>3. ASSUME Start(p) PROVE pc'[p] = "fetch" /\ Exact(p)' /\ healthy'[p] \cup todo'[p] = config' /\ res'[p] = NoWrites
  <2>1. /\ pc[p] = "idle" /\ pc'[p] = "fetch" /\ todo'[p] = config /\ res'[p] = NoWrites
        /\ UNCHANGED <<healthy, view>> /\ healthy[p] = {} /\ view[p] = NoView
    BY <1>3 DEF Start, Go, PassOK, Knows
  <2>2. Exact(p)'
    BY <2>1 DEF Exact, Listing, NoView
  <2> QED
    BY <1>1, <2>1, <2>2
<1>4. CASE pc[p] = "idle"
  BY <1>3, <1>4, OnlyStartStarts
<1>5. ASSUME pc[p] # "idle"
      PROVE  /\ Exact(p)
             /\ pc[p] = "fetch" => healthy[p] \cup todo[p] = config /\ res[p] = NoWrites
             /\ pc[p] # "fetch" => Counted(p)
  <2>1. ~err[p]
    BY <1>5, ErrorStays
  <2>2. still[p]
    BY <1>5 DEF Starts
  <2> QED
    BY <1>5, <2>1, <2>2 DEF Preview
<1>6. ASSUME NEW a \in todo[p], Fetch(p, a)
      PROVE  pc'[p] = "fetch" /\ Exact(p)' /\ healthy'[p] \cup todo'[p] = config' /\ res'[p] = NoWrites
  <2>1. /\ pc[p] = "fetch" /\ UNCHANGED <<pc, res>>
        /\ todo'[p] = todo[p] \ {a} /\ healthy'[p] = healthy[p] \cup {a}
    BY <1>6 DEF Fetch
  <2>2. Exact(p)'
    BY <1>5, <1>6, <2>1, FetchExact
  <2> QED
    BY <1>1, <1>5, <2>1, <2>2
\* From here on the pass keeps its listings.
<1>7. ASSUME pc[p] # "idle", UNCHANGED <<healthy, view>>
      PROVE  /\ Exact(p)' /\ Pairs(p)' = Pairs(p) /\ Stale(p)' = Stale(p)
             /\ \A x : BlocksFor(x[1], x[2])' = BlocksFor(x[1], x[2])
  BY <1>1, <1>5, <1>7 DEF Exact, Listing, Pairs, Stale, LiveSources, Identity, BlocksFor
<1>8. CASE Propagate(p)
  <2>1. /\ pc[p] = "fetch" /\ todo[p] = {} /\ pc'[p] = "propagate" /\ work'[p] = Pairs(p)
        /\ UNCHANGED <<healthy, view, garbage, res>>
    BY <1>8 DEF Propagate, Go
  <2>2. /\ healthy[p] = config /\ garbage[p] = {}
        /\ res[p].created = 0 /\ res[p].updated = 0 /\ res[p].deleted = 0
    <3>1. res[p] = NoWrites /\ healthy[p] = config
      BY <1>5, <2>1
    <3>2. garbage[p] = {}
      BY <2>1 DEF HistoryInv, SteadyOK, Collecting
    <3> QED
      BY <3>1, <3>2 DEF NoWrites, Counters
  <2>3. Lacking(p)' = {} /\ Misplaced(p)' = {}
    BY <1>7, <2>1 DEF Lacking, Misplaced, Dealt
  <2>4. Counted(p)'
    BY <1>1, <2>1, <2>2, <2>3, Empty DEF Counted
  <2> QED
    BY <1>7, <2>1, <2>4
<1>9. CASE Collect(p)
  <2>1. /\ pc[p] = "propagate" /\ pc'[p] = "collect" /\ garbage'[p] = Stale(p)
        /\ UNCHANGED <<healthy, view, work, res>>
    BY <1>9 DEF Collect, Go
  <2>2. Lacking(p)' = Lacking(p) /\ Misplaced(p)' = Misplaced(p)
    BY <1>1, <1>7, <2>1 DEF Lacking, Misplaced, Dealt
  <2>3. Collected(p)' = {}
    BY <1>7, <2>1 DEF Collected
  <2>4. Counted(p)'
    BY <1>1, <1>5, <1>7, <2>1, <2>2, <2>3, Empty DEF Counted
  <2> QED
    BY <1>7, <2>1, <2>4
<1>10. ASSUME NEW b \in garbage[p], CollectNext(p, b)
       PROVE  pc'[p] # "fetch" /\ Exact(p)' /\ Counted(p)'
  <2>1. /\ pc[p] = "collect" /\ garbage'[p] = garbage[p] \ {b} /\ Counts(p, "deleted")
        /\ UNCHANGED <<pc, healthy, view, work>>
    BY <1>10 DEF CollectNext
  <2>2. Lacking(p)' = Lacking(p) /\ Misplaced(p)' = Misplaced(p)
    BY <1>1, <1>7, <2>1 DEF Lacking, Misplaced, Dealt
  <2>3. /\ res'[p].deleted = res[p].deleted + 1
        /\ res'[p].created = res[p].created /\ res'[p].updated = res[p].updated
    BY <2>1, CountsOne DEF Counters
  <2>4. Collected(p)' = Collected(p) \cup {b} /\ b \notin Collected(p)
    BY <1>5, <1>7, <2>1 DEF Collected, Counted
  <2>5. Size(Collected(p)', res'[p].deleted)
    BY <1>5, <2>1, <2>3, <2>4, OneMore DEF Counted
  <2>6. /\ Size(Lacking(p)', res'[p].created)
        /\ UniqueBlocks(cal') => Size(Misplaced(p)', res'[p].updated)
    BY <1>1, <1>5, <2>1, <2>2, <2>3 DEF Counted
  <2>7. healthy'[p] = config' /\ garbage'[p] \subseteq Stale(p)'
    BY <1>1, <1>5, <1>7, <2>1 DEF Counted
  <2>8. Counted(p)'
    BY <2>1, <2>5, <2>6, <2>7 DEF Counted, Size
  <2> QED
    BY <1>7, <2>1, <2>8
<1>11. ASSUME NEW s \in Ids, NEW d \in healthy[p], EnsureIndexed(p, s, d) \/ EnsureLookedUp(p, s, d)
       PROVE  pc'[p] # "fetch" /\ Exact(p)' /\ Counted(p)'
  <2> DEFINE x == <<s, d>>
  <2>1. /\ pc[p] = "propagate" /\ x \in work[p] /\ work'[p] = work[p] \ {x}
        /\ UNCHANGED <<healthy, view, garbage>>
    BY <1>11 DEF EnsureIndexed, EnsureLookedUp, Take
  <2>2. ToMirror(p, x) /\ x \in Pairs(p)
    BY <2>1 DEF PassOK, Knows, ToMirror, Pairs
  <2>3. /\ UNCHANGED <<pc, err>>
        /\ \/ /\ UNCHANGED res /\ BlocksFor(s, d) # {}
              /\ UniqueBlocks(cal) => \A b \in BlocksFor(s, d) : cal[b].span = cal[s].span
           \/ Counts(p, "created") /\ BlocksFor(s, d) = {}
           \/ Counts(p, "updated") /\ \E b \in BlocksFor(s, d) : cal[b].span # cal[s].span
    BY <1>5, <1>11, <2>1, <2>2, EnsureCounts
  <2>4. Dealt(p)' = Dealt(p) \cup {x} /\ x \notin Dealt(p)
    BY <1>7, <2>1, <2>2 DEF Dealt
  <2>5. /\ Lacking(p)' = IF BlocksFor(s, d) = {} THEN Lacking(p) \cup {x} ELSE Lacking(p)
        /\ x \notin Lacking(p)
    BY <1>7, <2>1, <2>4 DEF Lacking
  <2>6. /\ Misplaced(p)' = IF \E b \in BlocksFor(s, d) : cal[b].span # cal[s].span
                           THEN Misplaced(p) \cup {x} ELSE Misplaced(p)
        /\ x \notin Misplaced(p)
    BY <1>1, <1>7, <2>1, <2>4 DEF Misplaced
  <2>7. Counted(p)
    BY <1>5, <2>1
  <2>8. /\ res'[p].deleted = res[p].deleted
        /\ res'[p].created = IF BlocksFor(s, d) = {} THEN res[p].created + 1 ELSE res[p].created
        /\ UniqueBlocks(cal) =>
              res'[p].updated = IF \E b \in BlocksFor(s, d) : cal[b].span # cal[s].span
                                THEN res[p].updated + 1 ELSE res[p].updated
    <3>1. CASE /\ UNCHANGED res /\ BlocksFor(s, d) # {}
               /\ UniqueBlocks(cal) => \A b \in BlocksFor(s, d) : cal[b].span = cal[s].span
      BY <3>1
    <3>2. CASE Counts(p, "created") /\ BlocksFor(s, d) = {}
      BY <3>2, CountsOne DEF Counters
    <3>3. CASE Counts(p, "updated") /\ \E b \in BlocksFor(s, d) : cal[b].span # cal[s].span
      BY <3>3, CountsOne DEF Counters
    <3> QED
      BY <2>3, <3>1, <3>2, <3>3
  <2>9. Size(Lacking(p)', res'[p].created)
    <3>1. Size(Lacking(p), res[p].created)
      BY <2>7 DEF Counted
    <3>2. CASE BlocksFor(s, d) = {}
      <4>1. Size(Lacking(p) \cup {x}, res[p].created + 1)
        BY <2>5, <3>1, OneMore
      <4> QED
        BY <2>5, <2>8, <3>2, <4>1
    <3>3. CASE BlocksFor(s, d) # {}
      BY <2>5, <2>8, <3>1, <3>3
    <3> QED
      BY <3>2, <3>3
  <2>10. ASSUME UniqueBlocks(cal) PROVE Size(Misplaced(p)', res'[p].updated)
    <3> DEFINE Elsewhere == \E b \in BlocksFor(s, d) : cal[b].span # cal[s].span
    <3>1. Size(Misplaced(p), res[p].updated)
      BY <2>7, <2>10 DEF Counted
    <3>2. CASE Elsewhere
      <4>1. Size(Misplaced(p) \cup {x}, res[p].updated + 1)
        BY <2>6, <3>1, OneMore
      <4> QED
        BY <2>6, <2>8, <2>10, <3>2, <4>1
    <3>3. CASE ~Elsewhere
      BY <2>6, <2>8, <2>10, <3>1, <3>3
    <3> QED
      BY <3>2, <3>3
  <2>11. Counted(p)'
    BY <1>1, <1>7, <2>1, <2>3, <2>7, <2>8, <2>9, <2>10 DEF Counted, Size
  <2> QED
    BY <1>7, <2>1, <2>3, <2>11
<1>12. CASE Crash(p) \/ TooFewHealthy(p) \/ Finish(p)
  BY <1>12 DEF Crash, TooFewHealthy, Finish, End, Go
<1>13. CASE \/ \E a \in todo[p] : FetchFails(p, a)
            \/ \E s \in Ids, d \in healthy[p] : EnsureLookupFails(p, s, d)
  BY <1>13 DEF FetchFails, EnsureLookupFails, Fails
<1>14. CASE Start(p)
  BY <1>3, <1>14
<1>15. CASE Plans(p)
  BY <1>6, <1>8, <1>9, <1>10, <1>12, <1>13, <1>14, <1>15 DEF Plans
<1>16. CASE Ensures(p)
  BY <1>11, <1>13, <1>16 DEF Ensures
<1> QED
  BY <1>2, <1>15, <1>16, PassSteps

Previews == \A p \in DryRun : Preview(p)

LEMMA PreviewsStep ==
    ASSUME IInv, HistoryInv, DryRunReads, Previews, [HNext]_hvars
    PROVE  Previews'
<1> USE EngineAssumption
<1> SUFFICES ASSUME NEW p \in DryRun PROVE Preview(p)'
  BY DEF Previews
<1>1. CASE UNCHANGED hvars
  <2>1. Stays(p) /\ cal' = cal /\ config' = config /\ still' = still
    BY <1>1 DEF hvars, vars, calVars, local, plan, op, Stays
  <2> QED
    BY <2>1, PreviewStays DEF Previews
<1>2. CASE HNext /\ (Pass(p) \/ Crash(p))
  <2>1. still'[p] => Starts(p) \/ still[p]
    BY <1>2 DEF HNext, RememberStill
  <2> QED
    BY <1>2, <2>1, PreviewStep DEF Previews
\* An account is renamed only while nothing runs.
<1>3. ASSUME NEW a \in Accounts, NEW b \in Spare, Rename(a, b) PROVE Preview(p)'
  <2>1. pc'[p] = "idle"
    BY <1>3 DEF Rename, local
  <2> QED
    BY <2>1 DEF Preview
<1>4. CASE HNext /\ ~(Pass(p) \/ Crash(p)) /\ ~\E a \in Accounts, b \in Spare : Rename(a, b)
  <2>1. Stays(p) /\ config' = config
    <3>1. ASSUME NEW q \in Clients, Pass(q) \/ Crash(q) PROVE Stays(p) /\ config' = config
      <4>1. p \in Clients \ {q}
        BY <1>4, <3>1
      <4> QED
        BY <3>1, <4>1, OthersKeep, PassEffect DEF IInv, Effect
    <3>2. UNCHANGED local => Stays(p)
      BY DEF local, plan, op, Stays
    <3>3. OwnersAct => config' = config
      BY OwnersEffect DEF IInv, TypeOK
    <3> QED
      BY <1>4, <3>1, <3>2, <3>3 DEF HNext, Next, OutageEnds, calVars
  <2>2. still'[p] => still[p] /\ cal' = cal
    BY <1>4, <2>1 DEF HNext, RememberStill, Starts, Stays
  <2> QED
    BY <2>1, <2>2, PreviewStays DEF Previews
<1> QED
  BY <1>1, <1>2, <1>3, <1>4

\* What a dry run has counted when it is through is what the calendars lack.
LEMMA PreviewsTell == IInv /\ Previews => DryRunPreviews
<1> USE EngineAssumption DEF IInv, TypeOK, LocalTypeOK
<1> SUFFICES ASSUME IInv, Previews, NEW p \in DryRun,
                    pc[p] = "collect", garbage[p] = {}, still[p], ~err[p]
             PROVE  LET pairs == {x \in Busy \X config : x[2] # cal[x[1]].acct} IN
                    /\ res[p].created = Cardinality({x \in pairs : BlocksFor(x[1], x[2]) = {}})
                    /\ UniqueBlocks(cal) => res[p].updated = Cardinality({x \in pairs :
                          \E b \in BlocksFor(x[1], x[2]) : cal[b].span # cal[x[1]].span})
                    /\ res[p].deleted = Cardinality({b \in Ids : Orphan(b) /\ cal[b].source[1] \in config})
  BY DEF DryRunPreviews
<1> DEFINE pairs == {x \in Busy \X config : x[2] # cal[x[1]].acct}
<1>1. Exact(p) /\ Counted(p)
  BY DEF Previews, Preview
<1>2. healthy[p] = config /\ work[p] = {}
  BY <1>1 DEF Counted, PassOK, Knows, Writing
<1>3. \A i \in Ids : view[p][i] = IF Live(cal[i]) /\ cal[i].span \in Window THEN cal[i] ELSE Unused
  BY <1>1, <1>2 DEF Exact, Listing, NamesOK
<1>4. ~Live(Unused)
  BY DEF Live, Unused
<1>5. \A i \in Ids : /\ BlocksTime(view[p][i]) <=> i \in Busy
                     /\ i \in Busy => view[p][i] = cal[i]
  BY <1>3, <1>4 DEF Busy, BlocksTime, NamesOK
<1>6. Dealt(p) = pairs
  <2>1. Pairs(p) = {x \in Ids \X config : BlocksTime(view[p][x[1]]) /\ x[2] # view[p][x[1]].acct}
    BY <1>2 DEF Pairs
  <2>2. \A x \in Ids \X config : x \in Pairs(p) <=> x \in pairs
    BY <1>5, <2>1
  <2>3. pairs \subseteq Ids \X config /\ Pairs(p) \subseteq Ids \X config
    BY <2>1 DEF Busy
  <2> QED
    BY <1>2, <2>2, <2>3 DEF Dealt
<1>7. Stale(p) = {b \in Ids : Orphan(b) /\ cal[b].source[1] \in config}
  <2> SUFFICES ASSUME NEW b \in Ids PROVE b \in Stale(p) <=> Orphan(b) /\ cal[b].source[1] \in config
    BY DEF Stale
  <2>1. IsOwnedBlock(view[p][b]) <=> IsOwnedBlock(cal[b]) /\ cal[b].span \in Window
    BY <1>3, <1>4 DEF IsOwnedBlock
  <2>2. IsOwnedBlock(view[p][b]) => view[p][b] = cal[b]
    BY <1>3, <1>4 DEF IsOwnedBlock
  <2>3. cal[b].source \notin LiveSources(p) <=> \A s \in Busy : cal[b].source # <<cal[s].acct, s>>
    <3>1. {i \in Ids : BlocksTime(view[p][i])} = Busy /\ \A i \in Busy : Identity(p, i) = <<cal[i].acct, i>>
      BY <1>5 DEF Busy, Identity
    <3>2. \A i \in Busy : <<cal[i].acct, i>> \in LiveSources(p)
      BY <3>1 DEF LiveSources
    <3>3. \A src \in LiveSources(p) : \E i \in Busy : src = <<cal[i].acct, i>>
      BY <3>1 DEF LiveSources
    <3> QED
      BY <3>2, <3>3
  <2> QED
    BY <1>2, <2>1, <2>2, <2>3 DEF Stale, Orphan
<1>8. Collected(p) = {b \in Ids : Orphan(b) /\ cal[b].source[1] \in config}
  BY <1>7 DEF Collected
<1> QED
  BY <1>1, <1>6, <1>8 DEF Counted, Size, Lacking, Misplaced

\* A dry run during which the calendars stand still, and which had no error,
\* reports how many blocks the calendars lack, have in the wrong place (if none
\* is there twice) and have to be collected.  Any number of other passes may
\* have run before it, and may run beside it as long as they write nothing.
THEOREM DryRunTells == HSpec => []DryRunPreviews
<1>1. HInit => Previews
  BY EngineAssumption DEF HInit, Init, Previews, Preview
<1>2. IInv /\ HistoryInv /\ DryRunReads /\ Previews /\ [HNext]_hvars => Previews'
  BY PreviewsStep
<1>3. HSpec => []IInv /\ []DryRunReads
  BY Forgets, Invariant, DryRunWritesNothing, PTL
<1>4. HSpec => []Previews
  BY <1>1, <1>2, <1>3, HistoryInvariant, PTL DEF HSpec
<1> QED
  BY <1>3, <1>4, PreviewsTell, PTL
=============================================================================
