----------------------------- MODULE RetryClient -----------------------------
(***************************************************************************)
(* One call of retryingClient (internal/sync/retrying_client.go) under     *)
(* retry and its policy (retry.go): the requests it makes, what each does  *)
(* at the service and what the caller is told in the end.                  *)
(*                                                                         *)
(* The call inserts, updates or deletes one block.  Update and delete name *)
(* the ETag the caller read; the calendar's owner may change or remove the *)
(* block at any time.  SyncEngine has the calls of a pass in short: what   *)
(* they may do to the calendars and what the pass learns.                  *)
(*                                                                         *)
(* IsTransientReset, CeilingOneLater, OutcomeOnceMore, DeleteToldRefused,  *)
(* DeleteToldFirst, VerdictAnyETag, UnansweredHangs and ReconcileBlindly   *)
(* are seeded faults: what a plausible bug would make of the definition    *)
(* each precedes.                                                          *)
(***************************************************************************)
EXTENDS Integers

CONSTANTS
    Ops,            \* what may be called: "insert", "update", "delete"
    MaxAttempts,    \* of the policy; below 1 it means 1
    BaseBackoff,    \* the ceiling of the first wait
    MaxBackoff,     \* the ceiling of every wait
    Late,           \* calls whose requests may arrive after their client gave up
    MaxEdits        \* bound: how often the owner changes or removes the block

ASSUME RetryAssumption ==
    /\ Ops \subseteq {"insert", "update", "delete"}
    /\ MaxAttempts \in Int
    /\ BaseBackoff \in Nat \ {0} /\ MaxBackoff \in Nat \ {0}
    /\ Late \subseteq Ops
    /\ MaxEdits \in Nat

VARIABLES
    op,         \* what is called
    block,      \* at the service: how many blocks there are for the source
    current,    \* whether the caller's ETag is the block's
    applied,    \* history: how many requests of this call took effect
    flying,     \* requests given up on that the service may still apply
    edits,      \* the owner's so far
    ctx,        \* the context: "live", "expired" or "cancelled"
    pc,         \* where the call is
    attempt,    \* the attempts begun
    err,        \* the last request's error
    waited,     \* time slept in all
    result      \* what the caller is told

service == <<block, current, applied>>
vars == <<op, service, flying, edits, ctx, pc, attempt, err, waited, result>>

Attempts == IF MaxAttempts < 1 THEN 1 ELSE MaxAttempts

\* 2^n; that the code's stops growing at 2^62 no MaxBackoff lets anybody see.
pow2[n \in Nat] == IF n = 0 THEN 1 ELSE 2 * pow2[n - 1]

CeilingOneLater(n) ==
    LET ceiling == BaseBackoff * pow2[n]
    IN  IF ceiling > MaxBackoff THEN MaxBackoff ELSE ceiling

\* The ceiling of the wait after the n-th attempt, from 1 (backoffFor).
Ceiling(n) ==
    LET ceiling == BaseBackoff * pow2[n - 1]
    IN  IF ceiling > MaxBackoff THEN MaxBackoff ELSE ceiling

----------------------------------------------------------------------------
(* Errors: "limited" is a 429 or 5xx answer, "timeout" no answer in time,  *)
(* "reset" a connection that broke, "refused" any other answer, "gone" a   *)
(* 404 or 410, "conflict" a 412, "unknown" the ambiguousInsertError.       *)

IsTransientReset(e) == e \in {"limited", "timeout", "reset"}
IsTransient(e) == e \in {"limited", "timeout"}

IsAmbiguous(e) == e = "timeout"

Return(r) == pc' = "returned" /\ result' = r /\ UNCHANGED <<attempt, waited>>

OutcomeOnceMore(e) ==
    /\ err' = e
    /\ IF IsTransient(e) /\ attempt <= Attempts
       THEN pc' = "sleep" /\ UNCHANGED <<attempt, waited, result>>
       ELSE Return(e)

\* What retry makes of an attempt's outcome.
Outcome(e) ==
    /\ err' = e
    /\ IF IsTransient(e) /\ attempt < Attempts
       THEN pc' = "sleep" /\ UNCHANGED <<attempt, waited, result>>
       ELSE Return(e)

DeleteToldRefused(e) == Outcome(e)
DeleteToldFirst(e) == Outcome(IF e = "gone" THEN "ok" ELSE e)

\* The closure of DeleteEvent: on a retry, what is not there is deleted.
DeleteTold(e) == Outcome(IF e = "gone" /\ attempt > 1 THEN "ok" ELSE e)

\* The closures of the three operations, once the request returned.
Handle(e) ==
    \/ /\ op = "insert" /\ IsAmbiguous(e)
       /\ pc' = "reconcile" /\ err' = e /\ UNCHANGED <<attempt, waited, result>>
    \/ /\ op = "insert" /\ ~IsAmbiguous(e)
       /\ Outcome(e)
    \/ op = "update" /\ Outcome(e)
    \/ op = "delete" /\ DeleteTold(e)

----------------------------------------------------------------------------
(* The service. *)

VerdictAnyETag == IF op # "insert" /\ block = 0 THEN "gone" ELSE "ok"

\* Why it would not do what is asked, or "ok".
Verdict ==
    IF op = "insert" THEN "ok"
    ELSE IF block = 0 THEN "gone"
    ELSE IF current THEN "ok" ELSE "conflict"

\* A request is processed: it takes effect unless the verdict is against it.
Process ==
    IF Verdict # "ok" THEN UNCHANGED service
    ELSE /\ applied' = applied + 1
         /\ block' = CASE op = "insert" -> block + 1
                       [] op = "update" -> block
                       [] op = "delete" -> block - 1
         /\ current' = FALSE

----------------------------------------------------------------------------
(* The call. *)

Begin ==
    /\ pc = "begin"
    /\ err' = err
    /\ IF ctx = "live"
       THEN /\ pc' = "request" /\ attempt' = attempt + 1
            /\ UNCHANGED <<waited, result>>
       ELSE Return("abandoned")
    /\ UNCHANGED <<op, service, flying, edits, ctx>>

Answered ==
    /\ pc = "request" /\ ctx = "live"
    /\ Process
    /\ Handle(Verdict)
    /\ UNCHANGED <<op, flying, edits, ctx>>

Refused(e) ==
    /\ pc = "request" /\ ctx = "live"
    /\ Handle(e)
    /\ UNCHANGED <<op, service, flying, edits, ctx>>

UnansweredHangs(e) ==
    /\ pc = "request" /\ ctx = "live"
    /\ e \in {"timeout", "reset"}
    /\ (Process /\ UNCHANGED flying) \/ UNCHANGED <<service, flying>>
    /\ Handle(e)
    /\ UNCHANGED <<op, edits, ctx>>

\* No answer: the request was processed, was lost, or is still under way.
Unanswered(e) ==
    /\ pc = "request"
    /\ CASE ctx = "live" -> e \in {"timeout", "reset"}
         [] ctx = "expired" -> e = "timeout"
         [] ctx = "cancelled" -> e = "abandoned"
    /\ \/ Process /\ UNCHANGED flying
       \/ UNCHANGED <<service, flying>>
       \/ op \in Late /\ flying' = flying + 1 /\ UNCHANGED service
    /\ Handle(e)
    /\ UNCHANGED <<op, edits, ctx>>

ReconcileBlindly ==
    /\ pc = "reconcile" /\ ctx = "live"
    /\ Outcome(err)
    /\ UNCHANGED <<op, service, flying, edits, ctx>>

\* The lookup after an insert that was not answered.
Reconcile ==
    /\ pc = "reconcile" /\ ctx = "live"
    /\ Outcome(IF block > 0 THEN "ok" ELSE err)
    /\ UNCHANGED <<op, service, flying, edits, ctx>>

ReconcileFails ==
    /\ pc = "reconcile"
    /\ Outcome("unknown")
    /\ UNCHANGED <<op, service, flying, edits, ctx>>

\* The wait is any time up to the ceiling (full jitter).
Sleep(wait) ==
    /\ pc = "sleep" /\ ctx = "live"
    /\ wait \in 0..Ceiling(attempt)
    /\ waited' = waited + wait
    /\ pc' = "begin"
    /\ UNCHANGED <<op, service, flying, edits, ctx, attempt, err, result>>

\* The context ends while the call sleeps.
SleepCut ==
    /\ pc = "sleep" /\ ctx # "live"
    /\ err' = err
    /\ Return("abandoned")
    /\ UNCHANGED <<op, service, flying, edits, ctx>>

----------------------------------------------------------------------------
(* Around it. *)

\* The deadline of the pass is over, or the process is told to end.
CtxDone(how) ==
    /\ ctx = "live" /\ pc # "returned"
    /\ ctx' = how
    /\ UNCHANGED <<op, service, flying, edits, pc, attempt, err, waited, result>>

\* A request that its client gave up on arrives.
Arrive ==
    /\ flying > 0 /\ flying' = flying - 1
    /\ Process
    /\ UNCHANGED <<op, edits, ctx, pc, attempt, err, waited, result>>

OwnerChanges ==
    /\ edits < MaxEdits /\ edits' = edits + 1
    /\ block > 0 /\ current' = FALSE
    /\ UNCHANGED <<op, block, applied, flying, ctx, pc, attempt, err, waited, result>>

OwnerRemoves ==
    /\ edits < MaxEdits /\ edits' = edits + 1
    /\ block > 0 /\ block' = block - 1 /\ current' = FALSE
    /\ UNCHANGED <<op, applied, flying, ctx, pc, attempt, err, waited, result>>

Call ==
    \/ Begin \/ Answered
    \/ \E e \in {"limited", "refused"} : Refused(e)
    \/ \E e \in {"timeout", "reset", "abandoned"} : Unanswered(e)
    \/ Reconcile \/ ReconcileFails
    \/ \E wait \in 0..MaxBackoff : Sleep(wait)
    \/ SleepCut

Next ==
    \/ Call
    \/ \E how \in {"expired", "cancelled"} : CtxDone(how)
    \/ Arrive
    \/ OwnerChanges \/ OwnerRemoves

\* An insert follows a lookup that found nothing.
Init ==
    /\ op \in Ops
    /\ block = (IF op = "insert" THEN 0 ELSE 1)
    /\ current = (op # "insert")
    /\ applied = 0 /\ flying = 0 /\ edits = 0
    /\ ctx = "live"
    /\ pc = "begin" /\ attempt = 0 /\ err = "none" /\ waited = 0 /\ result = "none"

Spec == Init /\ [][Next]_vars

FairSpec == Spec /\ WF_vars(Call)

----------------------------------------------------------------------------
(* Properties. *)

\* "a retry never creates a duplicate" (docs/ARCHITECTURE.md): however many
\* requests one call makes, at most one of them changes or removes the block,
\* and inserts leave at most one behind, unless one of them arrives late.
NoDuplicate == block <= 1 /\ (op # "insert" => applied <= 1)

\* What an insert reports is what it did, unless it says that it cannot know,
\* its connection broke, or its context ended: "ok" with no block left behind
\* or an error with one would mislead the pass.  (The owner leaves it alone.)
InsertKnown ==
    (op = "insert" /\ edits = 0 /\ result \notin {"none", "unknown", "reset", "abandoned"})
        => (result = "ok" <=> block = 1)

\* A delete whose answer was lost is not reported as a failure because its
\* retry finds nothing, and a first attempt never passes off as a success what
\* someone else removed (DeleteEvent).
DeleteReported == op = "delete" =>
    /\ applied > 0 => result # "gone"
    /\ result = "ok" => block = 0 /\ (attempt = 1 => applied = 1)

\* Attempts stay within the policy, and no wait is longer than its MaxBackoff.
WithinCeilings == attempt <= Attempts /\ waited <= (Attempts - 1) * MaxBackoff

\* "so a single pass can't stall for minutes on one wedged account"
\* (DefaultRetryPolicy): the waits stay below their doubling ceilings, too.
Patience == WithinCeilings /\ waited <= BaseBackoff * (pow2[Attempts - 1] - 1)

\* The call as its caller sees it.
SeenPc == IF pc \in {"reconcile", "returned"} THEN pc ELSE "send"
SeenAgain == pc # "returned" /\ (attempt > 1 \/ (attempt = 1 /\ pc \in {"sleep", "begin"}))
SeenTold == IF result \in {"none", "ok", "conflict"} THEN result ELSE "error"
SeenLost == flying > 0

\* Whatever the retry layer makes of errors, attempts and contexts, its caller
\* may rely on WriteCall: an insert without an answer is looked up before it is
\* sent again, only the retry of a delete may find nothing and succeed, and a
\* conflict means that the ETag is not the block's.
Seen == INSTANCE WriteCall WITH
    pc <- SeenPc, again <- SeenAgain, told <- SeenTold, lost <- SeenLost
KeepsToCall == Seen!Spec

\* A call returns, whatever fails and whenever its context ends.
Returns == <>(pc = "returned")
=============================================================================
