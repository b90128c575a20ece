----------------------------- MODULE SyncEngine -----------------------------
(***************************************************************************)
(* Engine.SyncOnce (internal/sync/sync.go) over the production client      *)
(* stack buildEngine assembles: providerClient, googleProvider,            *)
(* retryingClient, googleCalendarClient.  One action is one request to the *)
(* calendar service together with the local work up to the next request,   *)
(* so the calendars' owners and other passes can act between any two       *)
(* requests.                                                               *)
(*                                                                         *)
(* The passes are the members of Clients: the daemon's own, and whatever   *)
(* else runs against the same calendars (sync-once by hand, a daemon on a  *)
(* second machine, the web UI's "sync now").  A pass that ends is followed *)
(* by another one.                                                         *)
(*                                                                         *)
(* The order of accounts and events is the configuration's and the         *)
(* service's, so the model takes the members of a work list in any order.  *)
(* The index of a destination (blockIndex) is not a variable: each of its  *)
(* keys is looked up once in a pass, so what ensureBlock stores back in it *)
(* is never read, and "the block listed last wins" is a choice, at the     *)
(* lookup, among the blocks that were listed.                              *)
(*                                                                         *)
(* A definition with the parameters of the one after it that no action     *)
(* uses (LiveSourcesFree, ReconcileBlindly, ...) is a seeded fault: what a *)
(* plausible bug would make of the definition it precedes.                 *)
(***************************************************************************)
EXTENDS Calendar

CONSTANTS
    Unreliable, \* whether requests and processes may fail at first
    DryRun,     \* the passes that run with -dry-run (Engine.DryRun)
    Spare       \* names an account may be given later, never used before

ASSUME EngineAssumption ==
    /\ Unreliable \in BOOLEAN
    /\ DryRun \subseteq Clients
    /\ Spare \subseteq Names /\ Spare \cap Accounts = {}

VARIABLES
    flaky,      \* whether requests and processes may fail, still
    pc,         \* where pass p is
    todo,       \* accounts still to fetch
    healthy,    \* accounts whose fetch succeeded
    view,       \* the events as they were listed, Unused when they were not
    work,       \* (source event, destination) pairs still to ensure
    garbage,    \* stale blocks still to delete
    cur,        \* the pair being written
    held,       \* the block being written, as last looked up
    attempt,    \* how often the conditional write failed its precondition
    resent,     \* whether the request is a retry
    res,        \* Result.Created, Updated, Deleted
    err         \* whether an error was collected

plan == <<todo, healthy, view, work, garbage>>
op == <<cur, held, attempt, resent>>
local == <<pc, plan, op, res, err>>
vars == <<calVars, flaky, local>>

MaxAttempts == 2    \* of UpdateBlock and DeleteBlock

Locations == {"idle", "fetch", "propagate", "update", "put", "insert", "post",
              "reconcile", "collect", "get", "delete"}

Counters == {"created", "updated", "deleted"}
NoWrites == [k \in Counters |-> 0]
NoView == [i \in Ids |-> Unused]
NoPair == <<NoId, NoSource>>

----------------------------------------------------------------------------
(* What a pass computes from the listings. *)

\* The source identity of event s as pass p listed it.
Identity(p, s) == <<view[p][s].acct, s>>

LiveSourcesFree(p) == {Identity(p, s) : s \in {i \in Ids : Live(view[p][i])}}
LiveSourcesLeft(p) == {Identity(p, x[1]) : x \in work[p]}

LiveSources(p) == {Identity(p, s) : s \in {i \in Ids : BlocksTime(view[p][i])}}

PairsEverywhere(p) == {x \in Ids \X healthy[p] : BlocksTime(view[p][x[1]])}

\* Source event x[1] is to have a block on account x[2].
Pairs(p) == {x \in Ids \X healthy[p] :
    BlocksTime(view[p][x[1]]) /\ x[2] # view[p][x[1]].acct}

\* The blocks listed on d for source event s: the index keeps one of them.
Indexed(p, s, d) == {b \in Ids : Mirrors(view[p][b], d, Identity(p, s))}

StaleAnyAccount(p) == {b \in Ids :
    /\ IsOwnedBlock(view[p][b]) /\ HasIdentity(view[p][b])
    /\ view[p][b].source \notin LiveSources(p)}

\* Listed blocks whose source account was fetched and whose source is not live.
Stale(p) == {b \in Ids :
    /\ IsOwnedBlock(view[p][b])
    /\ HasIdentity(view[p][b])
    /\ view[p][b].source[1] \in healthy[p]
    /\ view[p][b].source \notin LiveSources(p)}

----------------------------------------------------------------------------
(* Bookkeeping. *)

Go(p, l) == pc' = [pc EXCEPT ![p] = l]

Fails(p) == err' = [err EXCEPT ![p] = TRUE]

Counts(p, k) == res' = [res EXCEPT ![p][k] = @ + 1]

NoOp(p) ==
    /\ cur' = [cur EXCEPT ![p] = NoPair]
    /\ held' = [held EXCEPT ![p] = NoId]
    /\ attempt' = [attempt EXCEPT ![p] = 0]
    /\ resent' = [resent EXCEPT ![p] = FALSE]

\* The write call in progress returns, and the pass goes on to the next one.
Return(p) ==
    /\ Go(p, IF pc[p] \in {"get", "delete"} THEN "collect" ELSE "propagate")
    /\ NoOp(p)
    /\ UNCHANGED <<plan, flaky>>

ReturnOk(p, k) == Return(p) /\ Counts(p, k) /\ UNCHANGED err

ReturnErr(p) == Return(p) /\ Fails(p) /\ UNCHANGED res

ConflictOnceMore(p, reread) ==
    IF attempt[p] < MaxAttempts
    THEN /\ Go(p, reread)
         /\ attempt' = [attempt EXCEPT ![p] = @ + 1]
         /\ resent' = [resent EXCEPT ![p] = FALSE]
         /\ UNCHANGED <<cur, held, plan, flaky, res, err>>
    ELSE ReturnErr(p)

\* The precondition failed: UpdateBlock and DeleteBlock re-read, once.  The
\* write after that is a new call of the retry layer.
Conflict(p, reread) ==
    IF attempt[p] + 1 < MaxAttempts
    THEN /\ Go(p, reread)
         /\ attempt' = [attempt EXCEPT ![p] = @ + 1]
         /\ resent' = [resent EXCEPT ![p] = FALSE]
         /\ UNCHANGED <<cur, held, plan, flaky, res, err>>
    ELSE ReturnErr(p)

----------------------------------------------------------------------------
(* Fetch. *)

Start(p) ==
    /\ pc[p] = "idle"
    /\ Go(p, "fetch")
    /\ todo' = [todo EXCEPT ![p] = config]
    /\ res' = [res EXCEPT ![p] = NoWrites]
    /\ err' = [err EXCEPT ![p] = FALSE]
    /\ UNCHANGED <<calVars, flaky, healthy, view, work, garbage, op>>

Fetch(p, a) ==
    /\ pc[p] = "fetch" /\ a \in todo[p]
    /\ todo' = [todo EXCEPT ![p] = @ \ {a}]
    /\ healthy' = [healthy EXCEPT ![p] = @ \cup {a}]
    /\ view' = [view EXCEPT ![p] = [i \in Ids |-> IF i \in ListEvents(a) THEN cal[i] ELSE @[i]]]
    /\ UNCHANGED <<calVars, flaky, pc, work, garbage, op, res, err>>

FetchFails(p, a) ==
    /\ flaky
    /\ pc[p] = "fetch" /\ a \in todo[p]
    /\ todo' = [todo EXCEPT ![p] = @ \ {a}]
    /\ Fails(p)
    /\ UNCHANGED <<calVars, flaky, pc, healthy, view, work, garbage, op, res>>

\* The pass is over; only its result and error outlive it.
End(p) ==
    /\ Go(p, "idle")
    /\ healthy' = [healthy EXCEPT ![p] = {}]
    /\ view' = [view EXCEPT ![p] = NoView]
    /\ UNCHANGED <<calVars, flaky, todo, work, garbage, op, res>>

TooFewHealthy(p) ==
    /\ pc[p] = "fetch" /\ todo[p] = {}
    /\ Cardinality(healthy[p]) < 2
    /\ End(p) /\ Fails(p)

Propagate(p) ==
    /\ pc[p] = "fetch" /\ todo[p] = {}
    /\ Cardinality(healthy[p]) >= 2
    /\ Go(p, "propagate")
    /\ work' = [work EXCEPT ![p] = Pairs(p)]
    /\ UNCHANGED <<calVars, flaky, todo, healthy, view, garbage, op, res, err>>

----------------------------------------------------------------------------
(* ensureBlock, for source event s and destination d. *)

Take(p, s, d) ==
    /\ pc[p] = "propagate" /\ <<s, d>> \in work[p]
    /\ work' = [work EXCEPT ![p] = @ \ {<<s, d>>}]

\* The write call of ensureBlock begins at location l.
Call(p, s, d, l) ==
    /\ Go(p, l)
    /\ cur' = [cur EXCEPT ![p] = <<s, d>>]
    /\ UNCHANGED <<held, attempt, resent, res, err>>

ReassertNever(p, s, d, span) == UNCHANGED <<pc, op, res, err>>
ReassertAlways(p, s, d, span) ==
    IF p \in DryRun THEN Counts(p, "updated") /\ UNCHANGED <<pc, op, err>>
    ELSE Call(p, s, d, "update")

\* A block exists, with this span: leave it, or move it to the source's span.
Reassert(p, s, d, span) ==
    IF span = view[p][s].span THEN UNCHANGED <<pc, op, res, err>>
    ELSE IF p \in DryRun THEN Counts(p, "updated") /\ UNCHANGED <<pc, op, err>>
    ELSE Call(p, s, d, "update")

EnsureIndexed(p, s, d) ==
    /\ Take(p, s, d)
    /\ \E b \in Indexed(p, s, d) : Reassert(p, s, d, view[p][b].span)
    /\ UNCHANGED <<calVars, flaky, todo, healthy, view, garbage>>

EnsureLookedUp(p, s, d) ==
    /\ Take(p, s, d)
    /\ Indexed(p, s, d) = {}
    /\ \E b \in FindBlockBySource(d, Identity(p, s)) :
          IF b # NoId THEN Reassert(p, s, d, cal[b].span)
          ELSE IF p \in DryRun THEN Counts(p, "created") /\ UNCHANGED <<pc, op, err>>
          ELSE Call(p, s, d, "insert")
    /\ UNCHANGED <<calVars, flaky, todo, healthy, view, garbage>>

EnsureLookupFails(p, s, d) ==
    /\ flaky
    /\ Take(p, s, d)
    /\ Indexed(p, s, d) = {}
    /\ Fails(p)
    /\ UNCHANGED <<calVars, flaky, pc, todo, healthy, view, garbage, op, res>>

----------------------------------------------------------------------------
(* Provider writes: each request of UpdateBlock, InsertBlock, DeleteBlock.  *)
(* A request that fails and is retried, or reports an error, leaves the     *)
(* calendars alone; one whose answer is lost does not.                      *)

Target(p) == cur[p][2]
TargetSource(p) == Identity(p, cur[p][1])
TargetSpan(p) == view[p][cur[p][1]].span

FindFails(p) ==
    /\ flaky
    /\ pc[p] \in {"update", "insert", "reconcile", "get"}
    /\ ReturnErr(p)
    /\ UNCHANGED calVars

\* UpdateBlock re-reads the block by its source, not by the ID it was given.
UpdateReads(p) ==
    /\ pc[p] = "update"
    /\ \E b \in FindBlockBySource(Target(p), TargetSource(p)) :
          IF b = NoId
          THEN /\ ReturnOk(p, "updated")      \* it vanished: a nil result, no error
               /\ UNCHANGED calVars
          ELSE /\ Go(p, "put")
               /\ held' = [held EXCEPT ![p] = b]
               /\ ReadETag(p, b)
               /\ UNCHANGED <<config, cal, edits, flaky, plan, cur, attempt, resent, res, err>>

Put(p) ==
    /\ pc[p] = "put"
    /\ UpdateEvent(p, held[p], TargetSpan(p))
    /\ ReturnOk(p, "updated")
    /\ UNCHANGED <<config, edits>>

\* Applied, but the answer is lost: the retry layer sends it again.
PutUnanswered(p) ==
    /\ flaky
    /\ pc[p] = "put"
    /\ UpdateEvent(p, held[p], TargetSpan(p))
    /\ resent' = [resent EXCEPT ![p] = TRUE]
    /\ UNCHANGED <<config, edits, flaky, pc, plan, cur, held, attempt, res, err>>

PutConflict(p) ==
    /\ pc[p] = "put"
    /\ ~Matches(p, held[p]) /\ Live(cal[held[p]])
    /\ Conflict(p, "update")
    /\ UNCHANGED calVars

PutRefused(p) ==
    /\ pc[p] = "put"
    /\ flaky \/ (~Matches(p, held[p]) /\ ~Live(cal[held[p]]))
    /\ ReturnErr(p)
    /\ UNCHANGED calVars

\* InsertBlock looks for a block to reuse, whatever its span, before it inserts.
InsertReads(p) ==
    /\ pc[p] = "insert"
    /\ \E b \in FindBlockBySource(Target(p), TargetSource(p)) :
          IF b # NoId
          THEN ReturnOk(p, "created")
          ELSE Go(p, "post") /\ UNCHANGED <<flaky, plan, op, res, err>>
    /\ UNCHANGED calVars

Post(p) ==
    /\ pc[p] = "post"
    /\ InsertEvent(Block(Target(p), TargetSpan(p), TargetSource(p)))
    /\ ReturnOk(p, "created")
    /\ UNCHANGED <<config, edits>>

\* A timeout: the block was created, or not, and nobody knows.
PostUnanswered(p) ==
    /\ flaky
    /\ pc[p] = "post"
    /\ \/ InsertEvent(Block(Target(p), TargetSpan(p), TargetSource(p)))
       \/ UNCHANGED <<cal, etag>>
    /\ Go(p, "reconcile")
    /\ UNCHANGED <<config, edits, flaky, plan, op, res, err>>

PostRefused(p) ==
    /\ flaky
    /\ pc[p] = "post"
    /\ ReturnErr(p)
    /\ UNCHANGED calVars

ReconcileBlindly(p) ==
    /\ pc[p] = "reconcile"
    /\ (Go(p, "post") /\ UNCHANGED <<flaky, plan, op, res, err>>) \/ ReturnErr(p)
    /\ UNCHANGED calVars

\* The lookup that tells: if nothing is there, insert again or give up.  (When
\* attempts are exhausted InsertBlock looks once more: the same lookup, later.)
Reconcile(p) ==
    /\ pc[p] = "reconcile"
    /\ \E b \in FindBlockBySource(Target(p), TargetSource(p)) :
          IF b # NoId THEN ReturnOk(p, "created")
          ELSE \/ Go(p, "post") /\ UNCHANGED <<flaky, plan, op, res, err>>
               \/ ReturnErr(p)
    /\ UNCHANGED calVars

----------------------------------------------------------------------------
(* Garbage collection. *)

Collect(p) ==
    /\ pc[p] = "propagate" /\ work[p] = {}
    /\ Go(p, "collect")
    /\ garbage' = [garbage EXCEPT ![p] = Stale(p)]
    /\ UNCHANGED <<calVars, flaky, todo, healthy, view, work, op, res, err>>

CollectNextUncounted(p, b) ==
    /\ pc[p] = "collect" /\ b \in garbage[p]
    /\ garbage' = [garbage EXCEPT ![p] = @ \ {b}]
    /\ IF p \in DryRun THEN UNCHANGED <<pc, held>>
       ELSE Go(p, "get") /\ held' = [held EXCEPT ![p] = b]
    /\ UNCHANGED <<calVars, flaky, todo, healthy, view, work, cur, attempt, resent, res, err>>

CollectNext(p, b) ==
    /\ pc[p] = "collect" /\ b \in garbage[p]
    /\ garbage' = [garbage EXCEPT ![p] = @ \ {b}]
    /\ IF p \in DryRun
       THEN Counts(p, "deleted") /\ UNCHANGED <<pc, held>>
       ELSE /\ Go(p, "get")
            /\ held' = [held EXCEPT ![p] = b]
            /\ UNCHANGED res
    /\ UNCHANGED <<calVars, flaky, todo, healthy, view, work, cur, attempt, resent, err>>

DeleteReadsAny(p) ==
    /\ pc[p] = "get"
    /\ LET e == cal[held[p]] IN
       \/ ~Live(e) /\ (ReturnOk(p, "deleted") \/ ReturnErr(p)) /\ UNCHANGED calVars
       \/ /\ Go(p, "delete")
          /\ ReadETag(p, held[p])
          /\ UNCHANGED <<config, cal, edits, flaky, plan, op, res, err>>

\* DeleteBlock.  Of a deleted event the service may say "not found", which is
\* success, or answer with what it keeps of it, marked cancelled.  That is
\* taken like any other event: refused if the owner tag is not there, deleted
\* once more if it is.
DeleteReads(p) ==
    /\ pc[p] = "get"
    /\ LET e == cal[held[p]] IN
       \/ ~Live(e) /\ ReturnOk(p, "deleted") /\ UNCHANGED calVars
       \/ ~IsOwnedBlock(e) /\ ReturnErr(p) /\ UNCHANGED calVars
       \/ /\ Live(e) => IsOwnedBlock(e)
          /\ Go(p, "delete")
          /\ ReadETag(p, held[p])
          /\ UNCHANGED <<config, cal, edits, flaky, plan, op, res, err>>

Delete(p) ==
    /\ pc[p] = "delete"
    /\ DeleteEvent(p, held[p])
    /\ ReturnOk(p, "deleted")
    /\ UNCHANGED <<config, edits>>

\* The request failed or its answer was lost: the retry layer sends it again.
DeleteUnanswered(p) ==
    /\ flaky
    /\ pc[p] = "delete"
    /\ DeleteEvent(p, held[p]) \/ UNCHANGED <<cal, etag>>
    /\ resent' = [resent EXCEPT ![p] = TRUE]
    /\ UNCHANGED <<config, edits, flaky, pc, plan, cur, held, attempt, res, err>>

DeleteConflict(p) ==
    /\ pc[p] = "delete"
    /\ ~Matches(p, held[p]) /\ Live(cal[held[p]])
    /\ Conflict(p, "get")
    /\ UNCHANGED calVars

\* "Not found" is success for a retry and an error for a first attempt.
DeleteFindsNothing(p) ==
    /\ pc[p] = "delete"
    /\ ~Live(cal[held[p]])
    /\ IF resent[p] THEN ReturnOk(p, "deleted") ELSE ReturnErr(p)
    /\ UNCHANGED calVars

DeleteRefused(p) ==
    /\ flaky
    /\ pc[p] = "delete"
    /\ ReturnErr(p)
    /\ UNCHANGED calVars

Finish(p) ==
    /\ pc[p] = "collect" /\ garbage[p] = {}
    /\ End(p) /\ UNCHANGED err

----------------------------------------------------------------------------
(* Around the passes. *)

\* The process is killed: what it knew is lost, the calendars stay as they are.
Crash(p) ==
    /\ flaky
    /\ pc[p] # "idle"
    /\ Go(p, "idle")
    /\ todo' = [todo EXCEPT ![p] = {}]
    /\ healthy' = [healthy EXCEPT ![p] = {}]
    /\ view' = [view EXCEPT ![p] = NoView]
    /\ work' = [work EXCEPT ![p] = {}]
    /\ garbage' = [garbage EXCEPT ![p] = {}]
    /\ NoOp(p)
    /\ res' = [res EXCEPT ![p] = NoWrites]
    /\ Fails(p)
    /\ UNCHANGED <<calVars, flaky>>

\* The network and the process settle: no failure from now on.
OutageEnds ==
    /\ flaky /\ flaky' = FALSE
    /\ UNCHANGED <<calVars, local>>

\* config.yaml is edited while nothing runs: account a is called b from now on.
Rename(a, b) ==
    /\ \A p \in Clients : pc[p] = "idle"
    /\ a \in config \ Spare /\ b \in Spare \ config
    /\ Edit("rename")
    /\ config' = (config \ {a}) \cup {b}
    /\ cal' = Renamed(cal, a, b)
    /\ UNCHANGED <<etag, flaky, local>>

Pass(p) ==
    \/ Start(p)
    \/ \E a \in todo[p] : Fetch(p, a) \/ FetchFails(p, a)
    \/ TooFewHealthy(p)
    \/ Propagate(p)
    \/ \E s \in Ids, d \in healthy[p] :
          EnsureIndexed(p, s, d) \/ EnsureLookedUp(p, s, d) \/ EnsureLookupFails(p, s, d)
    \/ FindFails(p)
    \/ UpdateReads(p) \/ Put(p) \/ PutUnanswered(p) \/ PutConflict(p) \/ PutRefused(p)
    \/ InsertReads(p) \/ Post(p) \/ PostUnanswered(p) \/ PostRefused(p) \/ Reconcile(p)
    \/ Collect(p)
    \/ \E b \in garbage[p] : CollectNext(p, b)
    \/ DeleteReads(p) \/ Delete(p) \/ DeleteUnanswered(p) \/ DeleteConflict(p)
    \/ DeleteFindsNothing(p) \/ DeleteRefused(p)
    \/ Finish(p)

Next ==
    \/ \E p \in Clients : Pass(p) \/ Crash(p)
    \/ OutageEnds
    \/ \E a \in Accounts, b \in Spare : Rename(a, b)
    \/ OwnersAct /\ UNCHANGED <<flaky, local>>

Init ==
    /\ CalendarInit
    /\ flaky = Unreliable
    /\ pc = [p \in Clients |-> "idle"]
    /\ todo = [p \in Clients |-> {}]
    /\ healthy = [p \in Clients |-> {}]
    /\ view = [p \in Clients |-> NoView]
    /\ work = [p \in Clients |-> {}]
    /\ garbage = [p \in Clients |-> {}]
    /\ cur = [p \in Clients |-> NoPair]
    /\ held = [p \in Clients |-> NoId]
    /\ attempt = [p \in Clients |-> 0]
    /\ resent = [p \in Clients |-> FALSE]
    /\ res = [p \in Clients |-> NoWrites]
    /\ err = [p \in Clients |-> FALSE]

Spec == Init /\ [][Next]_vars

\* A pass goes on as long as it can (its context is live) and is followed by
\* another one (the run loop's ticker); outages end.
Fairness == WF_vars(OutageEnds) /\ \A p \in Clients : WF_vars(Pass(p))

FairSpec == Spec /\ Fairness

----------------------------------------------------------------------------
(* Properties; SyncHistory has those that need a memory of earlier states. *)

LocalTypeOK ==
    /\ flaky \in BOOLEAN
    /\ pc \in [Clients -> Locations]
    /\ todo \in [Clients -> SUBSET Names]
    /\ healthy \in [Clients -> SUBSET Names]
    /\ view \in [Clients -> [Ids -> Event]]
    /\ work \in [Clients -> SUBSET (Ids \X Names)]
    /\ garbage \in [Clients -> SUBSET Ids]
    /\ cur \in [Clients -> (Ids \X Names) \cup {NoPair}]
    /\ held \in [Clients -> Ids \cup {NoId}]
    /\ attempt \in [Clients -> 0..(MaxAttempts - 1)]
    /\ resent \in [Clients -> BOOLEAN]
    /\ res \in [Clients -> [Counters -> Nat]]
    /\ err \in [Clients -> BOOLEAN]

\* The calendars and what every pass knows of them have their types, whichever
\* way the passes and the owners' edits interleave.
TypeOK == CalendarTypeOK /\ LocalTypeOK

Writing == {"update", "put", "insert", "post", "reconcile"}

\* A pair to write is a busy event, as listed, and another account than its own.
ToMirror(p, x) ==
    /\ x \in Ids \X config
    /\ BlocksTime(view[p][x[1]]) /\ x[2] # view[p][x[1]].acct

\* What a pass knows while it is underway, and that it knows nothing between passes.
Knows(p) ==
    /\ todo[p] \subseteq config /\ healthy[p] \subseteq config
    /\ \A x \in work[p] : ToMirror(p, x)
    /\ pc[p] \in Writing => ToMirror(p, cur[p])
    /\ pc[p] \in {"put", "get", "delete"} => held[p] \in Ids
    /\ pc[p] # "fetch" => todo[p] = {}
    /\ pc[p] \notin {"propagate"} \cup Writing => work[p] = {}
    /\ pc[p] = "idle" => healthy[p] = {} /\ view[p] = NoView

PassOK == \A p \in Clients : Knows(p)

\* As long as an ETag read for a write is current, the event is the engine's.
HoldsOwn(p) == Matches(p, held[p]) =>
    /\ pc[p] = "put" => IsOwnedBlock(cal[held[p]]) /\ HasIdentity(cal[held[p]])
    /\ pc[p] = "delete" => IsOwnedBlock(cal[held[p]])

ETagOK == \A p \in Clients : HoldsOwn(p)

\* Events lie on configured accounts, and no tag has a name not given yet.
NamesOK ==
    /\ \A i \in Ids : /\ Live(cal[i]) => cal[i].acct \in config
                      /\ HasIdentity(cal[i]) => cal[i].source[1] \in config \cup (Names \ Spare)
    /\ \A p \in Clients, i \in Ids : Live(view[p][i]) => view[p][i].acct \in config

IInv == TypeOK /\ PassOK /\ ETagOK /\ NamesOK

\* If one pass at a time writes, a block that was not there when the pass looked
\* is not there when it inserts it.
StillMissing == \A p \in Clients : pc[p] = "post" =>
    \A i \in Ids : ~Mirrors(cal[i], Target(p), TargetSource(p))

\* However inserts are retried, reconciled, interrupted by a crash and repeated
\* by the next pass, one source event has at most one block on a calendar:
\* FindOwnedBlock before the insert, and after an ambiguous one.
AtMostOneBlock == UniqueBlocks(cal)

\* Blocks never echo: none mirrors an event of the calendar it lies on.
NoEcho == NoEchoes(cal)

\* A pass never writes a real event, nor an event that lost its owner tag
\* after the pass last read it: the conditional write closes that window.
OnlyOwnedWritten == [][
    edits' = edits => \A i \in Ids : cal'[i] # cal[i] =>
        cal[i].state = "unused" \/ IsOwnedBlock(cal[i])]_vars

\* The calendars change as BusyMirror says: in one atomic step per block write,
\* each on an event that is the engine's own at that moment.
Mirror == INSTANCE BusyMirror
Refines == Mirror!Spec
=============================================================================
