# A TLA+ model of calendar-bridge

calendar-bridge keeps several calendars aware of each other: for every event
that blocks time on one of them it keeps a content-free *busy block* on every
other one. It stores nothing between passes. What it knows is in the calendars:
a block carries four private properties (`calendarBridgeOwner`, and the
account, calendar and event it mirrors), and every pass compares the listings
of all accounts with the blocks it finds.

What makes that hard to get right is everything that happens *between* two
requests of a pass: owners edit events and blocks, requests time out after they
were applied, the process is killed, an account does not answer, and a second
process runs a pass of its own. The modules here model a pass request by
request, so that all of this can happen at every point, and check and prove
what the engine promises nevertheless.

## 1. Inventory

| Component | Source | State it keeps | Operations | What is hard |
|---|---|---|---|---|
| Sync engine | `internal/sync/sync.go` | nothing between passes; in a pass: listings, index of blocks, healthy accounts, result, errors | `SyncOnce`, `ensureBlock` | stale listings, failed accounts, garbage collection |
| Provider bridge | `provider.go`, `provider_client.go`, `google_provider.go` | none | list, find, insert, update, delete a block, with ownership checks | check-and-write over two requests |
| Calendar client | `client.go` | none; the service holds the events and ETags | seven requests | pagination, 404/410, preconditions |
| Retry layer | `retrying_client.go`, `retry.go` | none | each request up to four times, backoff with jitter | lost answers, ambiguous inserts |
| Run loop | `cmd/calendar-bridge/main.go` (`runSync`), `state.go` | outcome of the last passes | pass, wait for tick, push or shutdown | shutdown in mid-pass, missed triggers |
| Push receiver | `internal/webhook/receiver.go` | timer, generation, one queued trigger | `ServeHTTP`, `Notify`, `fire` | timer races, lost notifications |
| Watch channels | `internal/webhook/manager.go`, `google_watcher.go` | one channel per calendar | register, renew, stop all | lapses, lost answers, shutdown |
| Web UI | `internal/webui` | `config.yaml` (a file), the sync lock | get/put config, status, sync now | read-merge-write, a second pass |
| OAuth tokens | `internal/googleauth` | token file, last token saved | `Token`, load, authorize | rotation, write failures |
| Atomic file | `internal/atomicfile` | a file and its directory | `Write` | crashes between its steps |
| Metrics, health | `internal/metrics` | counters, last success | `Observe`, `/readyz` | readiness threshold |
| Configuration | `internal/config` | `config.yaml` | load, validate, save | defaults, secrets carried forward |

The engine calls the stack that `buildEngine` assembles (`main.go:252`):
`providerClient` → `googleProvider` → `retryingClient` → `googleCalendarClient`.
The retry layer is *below* the provider, so one block write is several
independent requests (re-read, then conditional write), each retried on its
own. The run loop, `sync-once`, and the web UI's "sync now" all call
`SyncOnce`; in different processes nothing keeps them apart. Push notifications
only wake the run loop.

PROJECT.json lists every component with what is modelled of it, and every
hazard of the code with the property that covers it or the reason none does yet.

## 2. The modules

```
Events          events, blocks, tags: the data, and two properties of calendars
  Calendar      the service's requests and the owners' edits       (client.go)
    SyncEngine  SyncOnce over the production stack        (sync.go, *provider*.go)
      SyncHistory      history variables, the properties that need them
        MCSyncEngine   instances for TLC
        SyncEngineProofs TLAPS, of SyncEngine and SyncHistory
  BusyMirror    what the engine promises: every block write one atomic step
    BusyMirrorProofs   TLAPS
Daemon          the loop, its triggers, its deadline, readiness   (main.go, receiver.go)
  MCDaemon, DaemonProofs
WatchManager    watch channels over time               (manager.go, google_watcher.go)
  MCWatchManager, WatchManagerProofs
WriteCall       one call as its caller sees it, at the grain of SyncEngine
  RetryClient   the call attempt by attempt               (retrying_client.go, retry.go)
    MCRetryClient, RetryClientProofs
SafeFile        what a caller of atomicfile.Write may rely on
  AtomicFile    Write, one system call at a time                        (atomicfile.go)
    AtomicFileProofs   TLAPS: AtomicFile implements SafeFile
    TokenStore  the OAuth token over the file of AtomicFile             (googleauth.go)
      MCTokenStore, TokenStoreProofs
  WebUI         saves and passes on demand, over a SafeFile     (handlers.go, main.go)
    MCWebUI, WebUIProofs
```

The first four state machines look at the program at four grains. A pass of `Daemon`
is one listing between a start and an end; `SyncEngine` is such a pass request
by request; a request of `SyncEngine` is a call of `RetryClient`; and
`WatchManager` is where `Daemon`'s notifications come from, which may therefore
come late, twice or not at all.

**Events.** An event is a record: its state, the account it lies on, its span,
whether it blocks time, whether it has the owner tag, and the complete source
identity if it has one. There is no separate kind for blocks, as in the code:
the tag is all that tells a block from a real event, and an untagged block *is*
a real event (`isOwnedBlock`, `blocksTime`). Start, end and title are one value,
since the engine only compares them for equality.

**Calendar.** `cal` holds the events of all calendars by ID. `etag[c]` is the
set of events that did not change since client `c` read their ETag: a write
with `If-Match` is applied only if the event is still in it. The owners may add,
move, free, delete and duplicate events and blocks, and strip a block's tags
entirely (`OwnerUntags`) or in part (`OwnerMangles`).

**SyncEngine.** One action is one request with the local work up to the next.
The program counter `pc[p]` names the request that is next:

| `pc` | code |
|---|---|
| `fetch` | the loop over accounts, `sync.go:199` |
| `propagate` | the loop over (source event, destination), `sync.go:248`; a lookup on an index miss (`:350`) is the request |
| `update`, `put` | `UpdateBlock`: re-read by source, conditional write |
| `insert`, `post` | `InsertBlock`: lookup, insert |
| `reconcile` | the retry layer's lookup after an insert without an answer, and `InsertBlock`'s own |
| `collect` | the loop over stale blocks, `sync.go:280` |
| `get`, `delete` | `DeleteBlock`: re-read by ID, conditional delete |

`Put`, `PutUnanswered`, `PutConflict` and `PutRefused` are the four things that
can happen to a request: applied and answered; applied and not answered, so that
the retry layer sends it again; refused by its precondition; any other error.
`Crash` may come between any two requests.

Several passes may run at once (`Clients`). With one client the model is a
daemon alone; with two it is a daemon and, say, `sync-once` by hand.

**BusyMirror** is the abstract specification: blocks are created (only where
none is, and never on the source's own calendar), moved and removed, in one
atomic step each, and only if they are the engine's own *at that moment*. It
knows no listings, retries, ETags or crashes.

**SyncHistory** adds what the properties must remember of the past: which
events blocked time throughout a pass, whether anything changed during it, and
whether a pass ran undisturbed to a clean end.

**Daemon.** The calendars are a number, `changes`, and a pass sees the changes
there were when it listed (`listed`); `seen` is what the last successful one saw.
Of the debouncer it has everything: the generation, the timer (`armed`, `left`),
the callbacks that have started but wait for the lock (`firing`), the one queued
trigger. `Notify` may find an expired timer's callback among them; `Fire` then
discards it. `loop` is where `runSync` is: at the `top`, in a `pass`, in the
`wait` of its select, or `stopped`. Time advances by `Elapse`, never past what
the loop itself waits for (the poll interval, the deadline of the pass), but
callbacks and notifications may be as late as they like.

**WatchManager.** `left[c]` is how long the service still delivers for channel
`c`; `channels` is the manager's map. Time passes in units of 30 seconds, the
most a call may take. `Registered` is a successful `events.watch`,
`RegisterFails` one that had no effect or whose answer was lost, so that a
channel lives that nobody knows (`unknown`). The loop over the targets is the
same in `Run` and in `renewExpiring`, and so is its model.

**RetryClient.** One insert, update or delete from its first request to the
result: `Answered`, `Refused` and `Unanswered` are what can become of a request,
`Handle` the closure the client wraps around it, `Outcome` the decision of
`retry`. The context may expire or be cancelled at any moment, the owner may
change or remove the block, and with `Late` a request whose client gave up may
arrive afterwards.

**WriteCall** is the same call without attempts, waits, contexts and kinds of
error. Its actions are those `SyncEngine` has between the lookup before a call
and the call's return: a request succeeds, meets a conflict, finds nothing; one
without an answer had an effect or not (`Fate`); only a lookup that found
nothing lets an insert be sent again; a call may give up at any point, with an
error that says nothing. (An effect followed by an error is two steps in
`SyncEngine`, a request without an answer and a failure; `Arrives`, the late
request, is the one action `SyncEngine` has not.) `KeepsToCall` maps
`RetryClient` to it: what is `begin`, `request` or `sleep` there is "send" here,
`again` is that an attempt lies behind, and every result but "ok" and "conflict"
is an error. So what `SyncEngine` takes for granted of a call is what the retry
layer does.

**SafeFile and AtomicFile.** `AtomicFile` has the five steps of `Write`:
`CreateTemp`, `WriteData`, `SyncData`, `RenameTemp`, `SyncDir`, any of which may
fail (`WriteFails`), with several writers of one path side by side, killed at any
moment. A file is what it holds and whether that is on disk; `entry` is the one
the path names and `kept` the ones it may name after a loss of power: a rename
adds one, a synced directory leaves one. `SafeFile` is what a caller sees: the
contents, those that may survive, and the writes under way. `KeepsPromise` maps
the one to the other. That `Write` may return an error *after* the rename, when
the directory cannot be synced, is part of the promise: an error promises
nothing, and the new contents may be in place.

**TokenStore.** One account's token: `inner` is oauth2's source, which refreshes,
`last` what `persistingTokenSource` thinks is saved, `pc` where the process is in
`Token`. The pass loop and the watch manager share one client, whose transport
(`oauth2.NewClient`, `googleauth.go:126`) keeps the token it has while that is
valid and asks for another under a lock. Hence one thread at a time is in `Token`,
and only when `Asked`: at the first request after the start (`cached` is false), or
after the token has expired. `InnerToken` is the call before the mutex, `Save` the
decision under it, after which the process goes through the steps of `AtomicFile`
until `Saved` or `SaveFails`. After a failed save nothing asks until the token
expires; what is saved then is the next one. The
service either rotates refresh tokens, each refresh ending the previous one, or
leaves them alone and may omit them from its answers. `Client` starts a process
from whatever is on disk; `Authorize` is the `auth` command, a process of its
own, with another call of `Write` on the same path.

**WebUI.** A request is at one place of `handlePutConfig` (`decoded`, `merged`,
`saving`) or of `handleSync` (`reload`, `pass`). A save is three actions, since
nothing locks the file between them: `Merge` reads it, `Save` validates and
begins the write, `Replace` and `Saved` (or `SaveFails`) are `SafeFile`'s. The
configuration is its blocks; what the page edits is one of them. `Record` is all
of `syncState.record`: which pass the attempt, the success, the duration and the
counts belong to, by the time it started. `Edit` is the operator's editor, `Kill`,
`PowerFails` and `Start` end and start the `ui` command. `asked`, `latest` and
`told` remember what somebody asked for and what was reported saved.

`TokenStore` is checked over the detailed file, `WebUI` over the abstract one,
which `WriteIsAtomic` proves the detailed one implements.

Definitions without a use (`ReconcileBlindly`, `UpdateUnconditionally`, ...)
are seeded faults: replacing the definition that follows them by one of them
must make a property fail, which shows that the property constrains the code.

## 3. What the runs check

| Run | Instance | Shows |
|---|---|---|
| `one_pass` | 2 accounts, 1 event, 2 owner edits, failures, crashes; fairness | at most one block; a clean pass leaves the calendars complete and free of orphans; the one after it writes nothing; only own events are written; once edits and outages end, the calendars become and remain right |
| `three_accounts` | 3 accounts, 1 edit, failures, crashes | the inductive invariant of the proofs; an account that fails while the others go on costs none of its blocks, nor does an event that goes on blocking time lose one in any other way; the passes implement `BusyMirror` |
| `two_passes` | 2 passes interleaved, renames | no echo, without any coordination between the processes |
| `dry_run` | a dry run beside a real pass and one edit, which may copy a block | the counts of an undisturbed dry run are what the calendars lack |
| `two_inserts` | *violation* | two processes insert two blocks |
| `push` | 3 notifications, a change, failing and slow passes; fairness of loop and time only | no notified change is lost between timer, callback, queue and pass; triggers keep the quiet period; what `/readyz` goes by is no younger than what the calendars lack, and healthy passes keep the process ready; every change is seen by a successful pass; the loop ends when told |
| `channels` | 2 calendars, failures, lost answers, shutdown; fairness | no live channel is forgotten; a renewal never leaves a gap of its own, and a lapse lasts no longer than one renewal; after outages every calendar is watched again and again; `Run` returns when told |
| `call` | 4 attempts, late updates and deletes, 2 owner edits, fairness | one effect per call; results that tell the truth; attempts and waits within the policy, doubling ceilings included; the call is the one `WriteCall` describes; every call returns |
| `token_file` | the process and `auth`, 4 tokens, failing disk, kills, loss of power; fairness | the file is never torn nor stripped of its refresh token; if nothing is under way and the source takes the token in force for saved, a restart works; what a failed save missed is made up for by the next refresh; `Write` keeps the promise of `SafeFile` |
| `web_ui` | 2 requests, edits by hand, failing writes, kills, loss of power; fairness | no save costs the settings the page does not send; what was reported saved stays; the status is of one sequence of passes; the lock becomes free again |
| `metrics_wiped` | *violation* | a save from the page removes the metrics block |

The violations are places where a document and the code disagree; the
findings in PROJECT.json quote both. They are not equally grave. A second block
(`two_inserts`) is never removed while the event lives, because garbage
collection looks at sources only. `metrics_wiped` takes one click on "Save":
`handlePutConfig` carries `web_ui` and `webhook` over, and metrics were added to
the configuration later; `/metrics` and `/readyz` are gone at the next start.

Read closely, the code departs from its documents in some smaller ways that the
models contain without a run of their own:

- A block its owner changed after the listing is deleted all the same when its
  source is gone: `providerClient.DeleteEvent` (`provider_client.go:139`) drops
  the listed ETag and `DeleteBlock` sends that of its own re-read, while
  `docs/ARCHITECTURE.md:255` says the delete does not happen.
- With two blocks of one source, one of them duplicated on the calendar and
  moved, a pass may compare one and `UpdateBlock` move the other
  (`google_provider.go:202`), and so write again in every pass.
- Shutdown between the registration of a replacement channel and the stop of the
  old one sends that stop in a cancelled context (`manager.go:152`); the old
  channel lives until it expires.
- A lookup after a timed-out insert tells only what was applied by then
  (`retrying_client.go:120`). An insert the service applies later still leaves a
  second block; only an event ID chosen by the client would exclude it. `call`
  therefore lets only updates and deletes arrive late.
- A connection reset is not retried (`retry.go:77`), although the comment at
  `retry.go:48` lists it; the next pass's lookup settles what became of it.
- A renamed account's blocks stay for ever, beside the fresh ones, although
  `docs/adr/0002-extended-properties-ownership.md:53` says the next pass removes
  them: the guard that protects an account that merely failed
  (`accountIsHealthy`, `sync.go:290`) cannot tell it from one that no longer
  exists. (`CleanPassCollects` fails with `Edits = {"rename"}` and a spare name.)
- A watch channel may expire before its replacement is registered, although
  `manager.go:51` says it never lapses: it is due at the first tick that finds
  less than the skew left of it, and ticks are a whole skew apart.
- After a failed save of a rotated token the log says that "it will be refreshed
  again next start" (`googleauth.go:325`); the refresh token on disk no longer
  works then, unless the process lives to refresh once more, an hour or so later,
  and that save succeeds.
- When the directory cannot be synced the comment at `atomicfile.go:73` calls
  that "not fatal", but `Write` returns an error: `PUT /api/config` answers 400
  for a configuration that is in place, and a token that is on disk is logged as not persisted.
- After a pass on demand that fails before it begins, `/api/status` shows the
  time and the error of that attempt with the counts and the accounts' health of
  an earlier pass (`state.go:50`), though `server.go:69-73` calls both those of the
  last pass. `StatusTells` says what does fit together.
- Two saves, or a save and an editor, that overlap: the later one writes back what
  it read before the earlier one was in place. No document promises otherwise,
  and `NeverLockedOut` holds because what is written back was once asked for.
- With the default intervals, one pass that hangs until its deadline leaves
  nothing of `/readyz`'s threshold of three intervals (`metrics.go:110`).

**Bounds.** `MaxEdits` (1 or 2) bounds the owners, `Ids` the events ever
created, and `MaxAttempts` is the code's own. One event and two accounts are
enough for every interaction of a source with its block; three accounts are
needed for one to fail while two go on, which a pass requires. Two edits are
what it takes to change an event and then its block, or to change a thing back.
The spans are two in the fetch window and one beyond it, so that events and
blocks can leave and enter it. Passes are not bounded: the state has no pass
counter, so TLC explores any number of passes in sequence. IDs that are not in
use at first are interchangeable, and the service hands out one of them
(`NewIds`, an operator constant: the proofs hold whichever subset of the unused
IDs it offers); this keeps the state small without symmetry, which liveness
would not allow. Where IDs run out, inserts and the owners' additions are
disabled; that `Converges` holds shows that in `one_pass` they do not run out.

In `push` three notifications are what it takes for a third to come while the
callback of a first still waits and a second timer runs. The debounce interval,
the poll interval and the deadline of a pass are 2 units long, so that they
expire in every order; the threshold of readiness is the code's three poll
intervals, and ages are counted up to one above it. Channels are recycled: three
IDs per calendar are the current one, the one being replaced, and one that was
lost. A life is 3 or 4 units, less than or as long as asked for, against a skew
of two, the minute that is the least the code uses, and calls of up to one. `call`
uses the code's four attempts, with a ceiling that the third wait reaches.

In `token_file` four tokens are the one of a consent and three refreshes, or two
consents and two refreshes: enough for a refresh token to be rotated out while
its save has failed, for the next refresh to make up for it, and for `auth` to
come between. The last is kept for the process.
`web_ui` has two requests, two passes of a process (a third press finds the bound
and is answered like a configuration that does not load), two settings of the
operator, and bodies with a valid form, an invalid one, and a webhook block.

**Fairness.** `one_pass` assumes, for `Converges`, that a pass that can take a step eventually
does, and that a pass is followed by another: `runSync` loops for ever, every
request has a deadline (`syncCycleTimeout`), and `time.After(interval)` always
fires. It also assumes that outages end (`OutageEnds`), after which requests
succeed; nothing could be promised otherwise. Nothing is assumed of the order
in which accounts or events are visited. `push` assumes that the loop goes
on, that time passes and that outages end; of timers, callbacks and
notifications it assumes nothing, which is what "polling is the safety net"
means. `channels` assumes the same of the manager and of the calls it makes,
each of which is answered or times out (`watchCallTimeout`). `call` assumes that
a request returns: its context has a deadline. `token_file` assumes that access tokens
expire, that a running process comes to want another (its loop polls), and that a
call of `Token` goes on; that the disk is repaired is a premise of `EventuallySaved`.
`web_ui` assumes that a
pass ends, which `syncCycleTimeout` sees to.

## 4. What is proved

TLAPS checks these for every value of the constants: every number of accounts,
events, spans, passes and edits, any intervals, any number of calendars,
requests, writers and tokens.

| Theorem | Statement | Holds for |
|---|---|---|
| **SyncEngineProofs** | | |
| `TypeCorrect`, `Invariant` | `Spec => []TypeOK`, `Spec => []IInv` | always |
| `OwnedOnly` | `Spec => OnlyOwnedWritten` | always, any number of passes at once |
| `NoEchoEver` | `Spec => []NoEcho` | always, any number of passes, through renames |
| `HistoryInvariant` | `HSpec => []HistoryInv` | the same |
| `SteadyKept` | `HSpec => SteadyBlocksKept` | the same |
| `DryRunWritesNothing` | `Spec => []DryRunReads` | the same |
| `DryRunTells` | `HSpec => []DryRunPreviews` | the same |
| `MissingUntilInserted` | `Spec => []StillMissing` | `Alone` |
| `Implements` | `Spec => Refines` | `Alone` |
| `OneBlock` | `Spec => []AtMostOneBlock` | `Alone` |
| `QuietInvariant` | `HSpec => []QuietAlways` | `Alone` |
| `CleanPassComplete` | `HSpec => []CleanPassCompletes` | `Alone` |
| `SecondPassIdle` | `HSpec => []SecondPassWritesNothing` | `Alone` |
| `CleanPassCollected` | `HSpec => []CleanPassCollects` | `Alone`, no renames |
| **BusyMirrorProofs** | | |
| `MirrorKeeps` | `BusyMirror` keeps blocks unique and free of echoes | always |
| **DaemonProofs** | | |
| `Invariant`, `TypeCorrect` | `Spec => []IInv`, `Spec => []TypeOK` | always |
| `NotificationsKept` | `Spec => []NotificationKept` | always |
| `QuietPeriod` | `Spec => QuietBeforeTrigger` | always |
| `ReadyIsFresh` | `Spec => []ReadyMeansFresh` | always |
| `HealthyIsReady` | `Spec => []ReadyWhenHealthy` | always (the property names the default threshold) |
| **WatchManagerProofs** | | |
| `Invariant`, `TypeCorrect` | `Spec => []IInv`, `Spec => []TypeOK` | always |
| `NothingForgotten` | `Spec => []NoneForgotten` | always |
| `RenewalKeepsWatching` | `Spec => KeepsWatching` | every life the service grants exceeds a call's |
| `LapsesEnd` | `Spec => []LapseEnds` | finitely many calendars; lives that outlast the first round |
| **RetryClientProofs** | | |
| `Invariant` | `Spec => []IInv` | always |
| `AtMostOnce` | `Spec => []ChangedOnce` | always, late requests included |
| `DeleteTrue` | `Spec => []DeleteReported` | always, late requests included |
| `WithinPolicy` | `Spec => []WithinCeilings` | always |
| `Patient` | `Spec => []Patience` | always |
| `BoundedSteps` | `Spec => [](StepsLeft \in Nat) /\ [][FewerSteps]_vars` | always |
| `CallKept` | `Spec => KeepsToCall` | always, late requests included |
| `NoSecondBlock` | `Spec => []NoDuplicate` | no late inserts |
| `InsertReported` | `Spec => []InsertKnown` | no late inserts |
| **AtomicFileProofs** | | |
| `FileSafe` | `FileSpec => []FileInv` | always: calls interleaved, failing, cut short |
| `WriteIsAtomic` | `FileSpec => KeepsPromise` | always |
| **TokenStoreProofs** | | |
| `Invariant`, `TypeCorrect` | `Spec => []IInv`, `Spec => []TypeOK` | always |
| `RefreshTokenKept` | `Spec => []NeverStripped` | always |
| `InForceInvariant` | `Spec => []RInv` | always |
| `RotationSurvives` | `Spec => []RotationKept` | always |
| `StoreIsSafe` | `Spec => KeepsPromise` | always |
| **WebUIProofs** | | |
| `Invariant`, `TypeCorrect` | `Spec => []IInv`, `Spec => []TypeOK` | always |
| `OperatorKeepsAccess` | `Spec => []NeverLockedOut` | always |
| `ReportedSaveStays` | `Spec => []SavedStays` | always |
| `StatusConsistent` | `Spec => []StatusTells` | always |
| `PassesExclude` | `Spec => []OnePassAtATime` | always |

"Always" is under the named assumptions on the constants alone
(`EngineAssumption`, `DaemonAssumption`, ...), which TLC evaluates on every run.

**The hypotheses.** `Alone` says that one pass at most writes (any number of dry
runs may look on) and that owners do not duplicate blocks. Both are needed: `two_inserts` is the
counterexample without the first, and a duplicate is itself a second block.
`CleanPassCollected` excludes renames, since the blocks of a renamed account are
never collected (section 3). `NoSecondBlock` and `InsertReported` assume what no
code on this side can see to: that the service does not apply an insert after
the lookup for it (`"insert" \notin Late`). `RenewalKeepsWatching` and `LapsesEnd`
say how long a channel has to live: longer than a call may take, so that the new
channel lives when the old one is stopped; and at least the skew and one call for
each further calendar, since `Run` registers them one after the other and looks
at them again at the first tick. Google grants a week or what was asked for.
`channels` satisfies both, with the second as an equality.

**The engine.** The inductive invariant is `IInv == TypeOK /\ PassOK /\ ETagOK /\
NamesOK`. `OnlyOwnedWritten` is not inductive: that a `Put` writes an own block
follows only from what an earlier re-read saw *and* from the ETag. `ETagOK` says
exactly this: as long as the ETag held by a pass is current, the event is the
engine's. Each re-read establishes it, and every change of the event, by
whomever, makes the ETag stale. `PassOK` says what a pass knows between two
requests: what is left to do is a busy event, as listed, and another account than
its own. `NamesOK` keeps apart the names in use and those not yet given, which is
what a rename needs.

Uniqueness of blocks is proved through the abstract specification. `MirrorKeeps`
shows that `BusyMirror` preserves it, where the creation of a block is guarded
by its absence; `Implements` shows that every step of the engine is a step of
`BusyMirror` or leaves the calendars alone. The heart of that is `StillMissing`:
between the lookup that found nothing and the insert, nobody else can have put
the block there. That is where `Alone` enters, with `DryRunWritesNothing`: the
passes beside that one are dry runs.

**What a pass remembers.** A listing is old when it is used, and every account's
has another age. `HistoryInv` says what of it remains true. `TagsOK`: the source
identity of any block, whoever wrote it, names an event that existed, and, as
long as the account has that name, the account that event lies on. `ListingsOK`:
an event that was listed lies where it was and has the tags it had, or fewer.
`SteadyOK`: an event that blocked time since the pass began was listed as such if
its account was, and what is to be collected belongs to no such event. The last
follows from the first two where `Collect` compares the listings (`StaleNotSteady`),
and every later step keeps it. No condition on other passes is needed, which is
why `SteadyKept` is unconditional. `Ages` is the lemma below all of it: whatever
happens short of a rename, an event is not born twice, does not change its
account and gets no other identity than one that some event had or some pass is
about to write.

**A clean pass.** `CleanPassCompletes` holds at the end of a pass because of what
the pass achieved step by step. `Phases` says it for each place of `pc`, of a pass
that nobody disturbed: `ListingPhase`, the listings are the calendars (`Exact`)
until the first write, and afterwards as far as real events go (`RealExact`);
`PairsPhase`, every pair is on the work list, is being written, or has its block
with the right span, and the listed blocks of the pairs still to do are as they
were; `CallPhase`, what the lookup of the call in progress found, which an
unanswered insert turns into "a block with the right span, or none";
`CollectPhase`, every block of the engine in the window was listed or mirrors a
listed event, so that no orphan escapes `Stale`. That a pass writes only its own
pairs, and each pair's blocks only once (`OnePair`), is what keeps the parts about
the other pairs. `Quiet` ties this to the history variable: 0 promises nothing, 1
promises `Phases` unless an error was collected, 2 that the calendars are
complete, without orphans, and that a pass under way (`Settled`) has nothing to
write; there `AtMostOneBlock` is needed, or the pass might compare a second block.
Nothing is assumed of what was in the calendars before: a pass that failed, was
killed, or left an insert unanswered is made good by the next clean one.

**A dry run.** The counters of a dry run are the sizes of sets it never builds.
`Counted` names them: `Lacking` and `Misplaced` are the pairs it has dealt with
that have no block, or one elsewhere than their event; `Collected` are the stale
blocks it has passed. As long as the calendars stand still, its listings are what
there is (`Exact`), and each lookup finds what `BlocksFor` says; so each step adds
one pair or block to one of the sets and one to its counter, or neither
(`EnsureCounts`, `OneMore`). That holds of any number of passes at once. The count
of updates is exact if no block is there twice, since the index keeps either of
two; that of deletes is of the blocks that bear a configured account's name.

**The daemon.** The invariant has two parts beside the properties. `TimerInv`
ties the timer to the generation: it is armed for the last notification only,
what it has left and how long it has been quiet add up to the interval, and a
callback of the current generation exists only once the interval is over.
Without it a callback could be current and early. `ListedInv` says that a pass
lists no less than an earlier one saw, and that what it did not list is younger
than the pass; that is what makes the start of the last success, not its end,
the right thing for `/readyz` to go by. `HealthyInv` bounds the age of the last
success at each place of the loop: one interval of waiting, one pass and one pass
that has not ended. `DaemonAssumption` asks for intervals of at least one unit.

**Watch channels.** `CallInv` and `RunInv` say which calendar a call is about and
that the map has each calendar's own channels; with them `NoneForgotten` is
inductive. `NewLives` adds that while the old channel is being stopped, the new
one outlives that call, and `InTime` how much of its life each channel has left:
more than until the next tick, or, before the ticker starts, the skew and all
the registrations still ahead.

**Retries.** `ETagInv`: the ETag the caller read lets one request through, however
many were sent, in whichever order they arrive. `InsertInv`: before each attempt of an insert
there is no block and nothing under way. `DeleteInv` ties what an answer "gone"
means to whether this call has been there before. `PolicyInv` counts the waits by
the attempts, `PatienceInv` by the sum of their ceilings, which is
`BaseBackoff * (pow2[n] - 1)` for the first `n` (`SleptOneMore`).

`Patient` needs induction over numbers: that the recursive function `pow2` exists
and is what its definition says (`Pow2Def`), and that it grows (`Pow2Grows`). The
library's induction theorems take an operator, which no prover here can be given,
so `RetryClientProofs` derives one for *sets* of numbers (`Induction`) from the
least member of a set of naturals (`Least`), and that from the library's theorem
that the subsets of a finite set are well-founded. `pow2` is then the diagonal of
the finite tables of powers, each of which exists (`Tables`) and agrees with the
longer ones (`TablesAgree`).

`CallKept` goes by what a step looks like to the caller: `RequestSeen` for each
outcome of a request (answered, refused, without an answer, and what the closure
and `retry` make of it), `StepSeen` for the rest. It needs of the invariant the
types and `PolicyInv`, that is, that an attempt lies behind whoever sleeps.

**Files and tokens.** For the file the invariant is `FileInv == FileTypeOK /\
OnlyWhole`: every file the path names, or may name after a loss of power, is
synced and whole. It needs to know of each call what its temporary file holds at
each step, since that file is what `RenameTemp` makes the path name. From it
follows that a loss of power chooses among whole files only, so that
`SafeFile`'s `survives` is what they hold. The one assumption, `FileAssumption`,
is that "no file" and "part of a file" are not contents.

`TokenStoreProofs` builds on this. `FileMoves` shows that every step of
`TokenStore` is one of the file's, or none, and `StoreIsSafe` follows from
`WriteIsAtomic`. `NeverStripped` alone is not inductive: what is written is the
token of the answer, completed from `last`. `GivenFull` says that a token on its
way to the file has a refresh token, `CallsOK` that a process that runs has one
in `last`, which it took from the file (`Client`) or saved (`Saved`). The three
hold each other up. `TokenAssumption` says who writes: the process and `auth`.
`RotationKept` speaks of moments of rest, and `RInv` of all the others: every token
anywhere was issued before (`Numbered`); `last` has the refresh token in force when
it has the access token in force (`InForce`); what the process is saving is the token
in force, and once it is in place a restart works (`SavingOK`); and the refresh token
`auth` is about to write has no other holder, so that no refresh can end it
(`GrantOK`). `KeptInForce` is the property at any moment.

**The page.** `SavesOK` follows the carried blocks of each request from what was
sent over what was merged to what is being written: each is a value somebody asked
for. `LockOK` makes the request that holds the lock the one whose pass started
last, which is all `StatusTells` rests on. `LatestOK` is what `SavedStays` needs of
a save that replaced the file and has not returned.

**Only model-checked.** The liveness properties (`Converges`, `EveryChangeSeen`,
`StopsRunning`, `WatchedAgain`, `ShutsDown`, `Returns`, `EventuallySaved`,
`SyncFreed`), which are beyond TLAPS: it has no rules for fairness and `ENABLED`. Of
`Returns` the rest is proved: `BoundedSteps` counts down the steps a call may take.
Every other property of the passing runs is a theorem.

## 5. What is not modelled, and why

- A listing is one atomic read; the code reads it page by page.
- In `SyncEngine`, a request that is applied *after* its client gave up on it, and
  the number of attempts: a request may be repeated any number of times.
  `RetryClient` has both.
- A 5xx answer to a request that took effect all the same. The code takes every
  answer for final (`isAmbiguous`), and so does `RetryClient`.
- A temporary DNS failure is a timeout that had no effect.
- An empty `channel_ttl` with a service that grants no expiration.
- What the service answers to a GET of a deleted event. The client turns only a 404
  into "not found" (`client.go:148`), and a cancelled event passes for any other.
  `DeleteReads`, the one place that reads by ID, has all three cases: a 404, the
  cancelled event without its tags, and with them. Listings and lookups skip
  cancelled events, as the code does.
- Recurring events, time zones and event contents. The engine compares spans.
- Two processes that refresh the same token (`ui` or `sync-once` beside the
  daemon): `TokenStore` has one, beside `auth`. A daemon that has refreshed and
  not yet saved when `auth` finishes writes its older grant over the new one.
- The temporary file a killed process leaves behind. Nobody reads it.
- Windows, where the directory is not synced (`syncdir_windows.go`).
- Which requests the UI's guards let through, and what `Validate` looks at.
- Consent, HTML, flags, log lines, exposition format: I/O without a state of
  the system's own.

## 6. Plan

1. `Events`, `Calendar`, `SyncEngine`, `BusyMirror` and their proofs: done.
2. `Daemon`, `WatchManager` and `RetryClient`, with their proofs: done.
3. `SafeFile`, `AtomicFile`, `TokenStore` and `WebUI`, with their proofs: done.
4. `SyncHistory`: what a clean pass achieves, and that no pass takes a steady
   event's block, proved: done.
5. The counts of a dry run, proved: done.
6. `WriteCall`, the call `SyncEngine` uses, and `RetryClient` as a refinement of it,
   proved: done.
7. `TokenStore` and `WebUI` with several processes over one file.
