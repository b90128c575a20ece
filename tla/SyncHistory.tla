---------------------------- MODULE SyncHistory -----------------------------
(***************************************************************************)
(* SyncEngine with three history variables, which restrict nothing: they     *)
(* remember what the properties relate a step to.                          *)
(***************************************************************************)
EXTENDS SyncEngine

VARIABLES
    steady,     \* events that blocked time ever since pass p began
    still,      \* whether the calendars are as they were when pass p began
    quiet       \* 2 once a pass ran without an edit since it began, nor an error

hvars == <<vars, steady, still, quiet>>

\* Source events the engine is to mirror, as the calendars stand.
Busy == {i \in Ids : BlocksTime(cal[i]) /\ cal[i].acct \in config /\ cal[i].span \in Window}

Starts(p) == pc[p] = "idle" /\ pc'[p] = "fetch"
Ends(p) == pc[p] # "idle" /\ pc'[p] = "idle"

RememberSteady ==
    steady' = [p \in Clients |-> IF Starts(p) THEN Busy' ELSE steady[p] \cap Busy']

RememberStill ==
    still' = [p \in Clients |-> Starts(p) \/ (still[p] /\ cal' = cal)]

\* 1: a pass began since the last edit; 2: it ended without an error.
RememberQuiet ==
    LET real == Clients \ DryRun IN
    quiet' = CASE edits' # edits -> 0
               [] quiet = 0 /\ \E p \in real : Starts(p) -> 1
               [] quiet = 1 /\ \E p \in real : Ends(p) /\ err'[p] -> 0
               [] quiet = 1 /\ \E p \in real : Ends(p) /\ ~err'[p] -> 2
               [] OTHER -> quiet

HInit ==
    /\ Init
    /\ steady = [p \in Clients |-> {}]
    /\ still = [p \in Clients |-> TRUE]
    /\ quiet = 0

HNext == Next /\ RememberSteady /\ RememberStill /\ RememberQuiet

HSpec == HInit /\ [][HNext]_hvars

HFairSpec == HSpec /\ Fairness

----------------------------------------------------------------------------
(* What the calendars look like when the engine has done its work. *)

\* Blocks on d for event s, under the name its account has now.
BlocksFor(s, d) == {b \in Ids : Mirrors(cal[b], d, <<cal[s].acct, s>>)}

\* Every busy event has a block with its span on every other account.
Complete == \A s \in Busy : \A d \in config \ {cal[s].acct} :
    \E b \in BlocksFor(s, d) : cal[b].span = cal[s].span

\* A block in the window that mirrors no busy event.
Orphan(b) ==
    /\ IsOwnedBlock(cal[b]) /\ HasIdentity(cal[b]) /\ cal[b].span \in Window
    /\ \A s \in Busy : cal[b].source # <<cal[s].acct, s>>

NoOrphans == \A b \in Ids : ~Orphan(b)

WriteCalls == {"update", "put", "insert", "post", "reconcile", "get", "delete"}

----------------------------------------------------------------------------
(* Invariants. *)

\* After a pass that ended without an error, and during which nobody edited
\* anything, the calendars are as they should be, whatever earlier passes that
\* failed or were killed had left behind.
CleanPassCompletes == quiet = 2 => Complete
CleanPassCollects == quiet = 2 => NoOrphans

\* The pass after it then has nothing to write ("Running two passes back to
\* back performs zero writes on the second", docs/ARCHITECTURE.md).
SecondPassWritesNothing == \A p \in Clients \ DryRun :
    (quiet = 2 /\ pc[p] # "idle") => pc[p] \notin WriteCalls /\ res[p] = NoWrites

\* A dry run reports what the calendars lack: the pairs without a block, the
\* blocks whose span is not their event's (when an event has two on a calendar,
\* the index keeps either), and the blocks to collect, which gcStale knows by
\* the name of a configured account.
DryRunPreviews == \A p \in DryRun :
    (pc[p] = "collect" /\ garbage[p] = {} /\ still[p] /\ ~err[p]) =>
        LET pairs == {x \in Busy \X config : x[2] # cal[x[1]].acct} IN
        /\ res[p].created = Cardinality({x \in pairs : BlocksFor(x[1], x[2]) = {}})
        /\ UniqueBlocks(cal) => res[p].updated = Cardinality({x \in pairs :
              \E b \in BlocksFor(x[1], x[2]) : cal[b].span # cal[x[1]].span})
        /\ res[p].deleted = Cardinality({b \in Ids : Orphan(b) /\ cal[b].source[1] \in config})

----------------------------------------------------------------------------
(* Action properties. *)

\* A pass never deletes the block of an event that blocked time all along,
\* whichever accounts failed to answer, and in whichever order they did.
SteadyBlocksKept == [][
    edits' = edits => \A b \in Ids :
        (IsOwnedBlock(cal[b]) /\ HasIdentity(cal[b]) /\ cal'[b].state = "gone") =>
            \E p \in Clients : held[p] = b /\ cal[b].source[2] \notin steady[p]]_hvars

----------------------------------------------------------------------------
(* Liveness. *)

\* Once owners stop editing and requests stop failing, the calendars become
\* and remain as they should be.
Converges == <>[](Complete /\ NoOrphans)
=============================================================================
