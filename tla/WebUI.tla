-------------------------------- MODULE WebUI --------------------------------
(***************************************************************************)
(* The ui command (runUI, cmd/calendar-bridge/main.go) and the handlers of *)
(* internal/webui: saves of the configuration and passes on demand, by     *)
(* requests that run side by side, while an editor may change the file.    *)
(*                                                                         *)
(* A save reads the file, takes from it what the request leaves out and    *)
(* writes the whole of it, with no lock around the three.  The file is     *)
(* what SafeFile promises of atomicfile.Write.                             *)
(*                                                                         *)
(* A configuration is its blocks.  The form stands for the accounts and    *)
(* the sync settings, which the page edits; of web_ui the listen address,  *)
(* carried over like the token, is left out, and so are the defaults Load  *)
(* fills in.  Requests are those that the guards of server.go let through. *)
(*                                                                         *)
(* ValidateNothing, MergedFormOnly, SaveFailsUnseen, PressSyncUnlocked and *)
(* ReloadFailsLocked are seeded faults: what a plausible bug would make of *)
(* the definition each precedes.                                           *)
(***************************************************************************)
EXTENDS Naturals

CONSTANTS
    Requests,   \* the requests the server handles at a time
    Forms,      \* what the form may hold
    GoodForms,  \* what of this Validate accepts
    Tokens, Hooks, Meters,  \* settings of web_ui.auth_token, webhook, metrics
    Unset,      \* a block or a string that is left out
    Bodies,     \* what requests send
    ByHand,     \* what the operator writes into the file
    Broken,     \* a file that Load refuses
    Missing,    \* no file
    MaxPasses   \* bound: passes of one process

Config == [form: Forms, token: Tokens \cup {Unset}, enabled: BOOLEAN,
           hook: Hooks \cup {Unset}, metrics: Meters \cup {Unset}]

ASSUME WebUIAssumption ==
    /\ GoodForms \subseteq Forms /\ MaxPasses \in Nat
    /\ Bodies \subseteq Config /\ ByHand \subseteq {c \in Config : c.form \in GoodForms}
    /\ Broken \notin Config /\ Missing \notin Config \cup {Broken} \cup Requests

VARIABLES
    file, survives, writing, landed,    \* see SafeFile
    up,         \* whether the ui command runs
    at,         \* where each request is
    has,        \* the configuration a save has decoded, or merged
    busy,       \* Server.syncing
    started,    \* when the pass of each request started
    clock,      \* the time: the last pass that started
    attempt, success, failed,   \* syncState: lastAttempt, lastSuccess, lastErr
    took, last, \* the passes that lastSuccessDur and last are of
    asked,      \* history: the settings somebody asked for
    latest,     \* history: whose save replaced the file last
    told        \* history: the file that was last reported saved, unless replaced

disk == <<file, survives, writing, landed>>
saves == <<has, latest, told>>
state == <<attempt, success, failed, took, last>>
passes == <<busy, started, clock, state>>
vars == <<disk, up, at, passes, asked, saves>>

Disk == INSTANCE SafeFile WITH
    Writers <- Requests, Contents <- Config \cup {Broken}, Nothing <- Missing, Done <- Missing

ValidateNothing(c) == TRUE

Validate(c) == c.form \in GoodForms

\* Load reads and parses the file, and Validate accepts it.
Loads == file \in Config /\ Validate(file)

Goes(r, from, to) == at[r] = from /\ at' = [at EXCEPT ![r] = to]

Blocks == {"token", "enabled", "hook", "metrics"}

\* What a request holds for a block that it leaves out.
Omitted(b) == IF b = "enabled" THEN FALSE ELSE Unset

\* What the request c sets joins what was asked for.
Asks(c) == asked' =
    [b \in Blocks |-> IF c[b] = Omitted(b) THEN asked[b] ELSE asked[b] \cup {c[b]}]

----------------------------------------------------------------------------
(* PUT /api/config: handlePutConfig. *)

Put(r) ==
    /\ up /\ Goes(r, "idle", "decoded")
    /\ \E b \in Bodies : has' = [has EXCEPT ![r] = b] /\ Asks(b)
    /\ UNCHANGED <<disk, up, passes, latest, told>>

Carry(sent, old) == IF sent = Unset THEN old ELSE sent

MergedFormOnly(sent, old) == [sent EXCEPT !.hook = Carry(@, old.hook)]

\* The metrics block is not carried over.
Merged(sent, old) ==
    [sent EXCEPT !.token = Carry(@, old.token), !.enabled = @ \/ old.enabled,
                 !.hook = Carry(@, old.hook)]

\* The file is read: if it does not load, the answer is an error.
Merge(r) ==
    /\ at[r] = "decoded"
    /\ IF Loads THEN Goes(r, "decoded", "merged") ELSE Goes(r, "decoded", "idle")
    /\ has' = [has EXCEPT ![r] = IF Loads THEN Merged(has[r], file) ELSE Missing]
    /\ UNCHANGED <<disk, up, passes, asked, latest, told>>

\* Save: an invalid configuration is refused before the file is touched.
Save(r) ==
    /\ at[r] = "merged"
    /\ IF Validate(has[r])
       THEN Goes(r, "merged", "saving") /\ Disk!Begin(r, has[r])
       ELSE Goes(r, "merged", "idle") /\ UNCHANGED disk
    /\ has' = [has EXCEPT ![r] = Missing]
    /\ UNCHANGED <<up, passes, asked, latest, told>>

Replace(r) ==
    /\ at[r] = "saving" /\ Disk!Replace(r)
    /\ latest' = r /\ told' = Missing
    /\ UNCHANGED <<up, at, passes, asked, has>>

Told(r) == told' = IF latest = r THEN file ELSE told

Saved(r) ==
    /\ Goes(r, "saving", "idle") /\ Disk!Succeed(r)
    /\ Told(r)
    /\ UNCHANGED <<up, passes, asked, has, latest>>

SaveFailsUnseen(r) ==
    /\ Goes(r, "saving", "idle") /\ Disk!Fail(r)
    /\ Told(r)
    /\ UNCHANGED <<up, passes, asked, has, latest>>

SaveFails(r) ==
    /\ Goes(r, "saving", "idle") /\ Disk!Fail(r)
    /\ UNCHANGED <<up, passes, asked, saves>>

----------------------------------------------------------------------------
(* POST /api/sync: handleSync and syncNow. *)

PressSyncUnlocked(r) ==
    /\ up /\ Goes(r, "idle", "reload")
    /\ busy' = TRUE
    /\ UNCHANGED <<disk, up, started, clock, state, asked, saves>>

\* TryLock: while another pass runs, the answer is 409 and nothing changes.
PressSync(r) ==
    /\ up /\ ~busy /\ Goes(r, "idle", "reload")
    /\ busy' = TRUE
    /\ UNCHANGED <<disk, up, started, clock, state, asked, saves>>

\* The configuration is loaded again.
Reload(r) ==
    /\ Loads /\ clock < MaxPasses
    /\ Goes(r, "reload", "pass")
    /\ clock' = clock + 1
    /\ started' = [started EXCEPT ![r] = clock']
    /\ UNCHANGED <<disk, up, busy, state, asked, saves>>

ReloadFailsLocked(r) ==
    /\ ~Loads
    /\ Goes(r, "reload", "idle")
    /\ UNCHANGED <<disk, up, passes, asked, saves>>

\* It does not load: nothing is recorded.  (Nor when the bound is reached.)
ReloadFails(r) ==
    /\ ~Loads \/ clock = MaxPasses
    /\ Goes(r, "reload", "idle")
    /\ busy' = FALSE
    /\ UNCHANGED <<disk, up, started, clock, state, asked, saves>>

\* syncState.record.
Record(start, ran, ok) ==
    /\ attempt' = start /\ failed' = ~ok
    /\ last' = IF ran THEN start ELSE last
    /\ success' = IF ok THEN start ELSE success
    /\ took' = IF ok THEN start ELSE took

\* The engine cannot be built, and there was no pass (Result{}); or SyncOnce
\* ends, with an error or without.
PassEnds(r, ran, ok) ==
    /\ ok => ran
    /\ Goes(r, "pass", "idle")
    /\ Record(started[r], ran, ok)
    /\ started' = [started EXCEPT ![r] = 0]
    /\ busy' = FALSE
    /\ UNCHANGED <<disk, up, clock, asked, saves>>

----------------------------------------------------------------------------
(* The process, the operator and the machine. *)

Gone ==
    /\ up' = FALSE
    /\ at' = [r \in Requests |-> "idle"]
    /\ has' = [r \in Requests |-> Missing]
    /\ busy' = FALSE /\ started' = [r \in Requests |-> 0] /\ clock' = 0
    /\ attempt' = 0 /\ success' = 0 /\ failed' = FALSE /\ took' = 0 /\ last' = 0
    /\ UNCHANGED <<asked, latest, told>>

Kill == up /\ Gone /\ Disk!Kill(Requests)

PowerFails == Gone /\ Disk!PowerLoss

\* runUI: the file loads, and enables the UI.
Start ==
    /\ ~up /\ up' = TRUE
    /\ Loads /\ file.enabled
    /\ UNCHANGED <<disk, at, passes, asked, saves>>

\* The operator's editor replaces the file, well or badly.
Edit ==
    /\ \E c \in ByHand \cup {Broken} :
          /\ file' = c /\ survives' = {c}
          /\ IF c \in Config THEN asked' = [b \in Blocks |-> asked[b] \cup {c[b]}]
             ELSE UNCHANGED asked
    /\ latest' = Missing /\ told' = Missing
    /\ UNCHANGED <<writing, landed, up, at, passes, has>>

Init ==
    /\ file \in ByHand /\ survives = {file}
    /\ writing = [r \in Requests |-> Missing] /\ landed = {}
    /\ up = FALSE /\ at = [r \in Requests |-> "idle"] /\ has = [r \in Requests |-> Missing]
    /\ busy = FALSE /\ started = [r \in Requests |-> 0] /\ clock = 0
    /\ attempt = 0 /\ success = 0 /\ failed = FALSE /\ took = 0 /\ last = 0
    /\ asked = [b \in Blocks |-> {file[b]}]
    /\ latest = Missing /\ told = Missing

SaveGoesOn(r) == Merge(r) \/ Save(r) \/ Replace(r) \/ Saved(r) \/ SaveFails(r)

SyncGoesOn(r) ==
    \/ Reload(r) \/ ReloadFails(r)
    \/ \E ran, ok \in BOOLEAN : PassEnds(r, ran, ok)

Next ==
    \/ \E r \in Requests : Put(r) \/ SaveGoesOn(r) \/ PressSync(r) \/ SyncGoesOn(r)
    \/ Kill \/ PowerFails \/ Start \/ Edit

Spec == Init /\ [][Next]_vars

\* A pass comes to an end: syncCycleTimeout cancels it, if nothing else does.
FairSpec == Spec /\ \A r \in Requests : WF_vars(SyncGoesOn(r))

----------------------------------------------------------------------------
TypeOK ==
    /\ file \in {c \in Config : c.form \in GoodForms} \cup {Broken}
    /\ survives \subseteq {c \in Config : c.form \in GoodForms} \cup {Broken}
    /\ writing \in [Requests -> Config \cup {Missing}] /\ landed \subseteq Requests
    /\ up \in BOOLEAN /\ busy \in BOOLEAN /\ failed \in BOOLEAN
    /\ at \in [Requests -> {"idle", "decoded", "merged", "saving", "reload", "pass"}]
    /\ has \in [Requests -> Config \cup {Missing}]
    /\ started \in [Requests -> 0..MaxPasses]
    /\ {clock, attempt, success, took, last} \subseteq 0..MaxPasses
    /\ latest \in Requests \cup {Missing} /\ told \in Config \cup {Missing}

\* Every file the path holds, or may hold after a loss of power, has the value
\* of b that somebody wrote or sent.
AsAsked(b) == \A c \in survives \cup {file} : c # Broken => c[b] \in asked[b]

\* "saving from the UI can never disable the UI or wipe its listen address /
\* auth token and lock the operator out", nor "silently disable push
\* notifications" (handlePutConfig), however saves, edits and crashes meet.
NeverLockedOut == AsAsked("token") /\ AsAsked("enabled") /\ AsAsked("hook")

\* "The metrics block must survive a save/load round trip, since the web UI
\* rewrites the whole file" (metrics_test.go), but the page does not send it and
\* handlePutConfig does not carry it over.
MetricsKept == AsAsked("metrics")

\* What was reported saved is the file, and stays it through a crash, until
\* another save or the operator replaces it.
SavedStays == told # Missing => file = told /\ survives = {told}

\* What the status shows together fits, while requests come and go: with no
\* pass under way, the last attempt is the last pass that started; it failed
\* unless it is the last success; the duration is the last success's; and the
\* counts are of no later pass.
StatusTells ==
    /\ ~busy => attempt = clock
    /\ failed <=> success # attempt
    /\ took = success /\ last <= attempt

\* However a pass ends, the next press of the button finds the lock free.
SyncFreed == busy ~> ~busy
=============================================================================
