-------------------------- MODULE RetryClientProofs --------------------------
(***************************************************************************)
(* Proofs about RetryClient, for any policy and any number of the owner's  *)
(* edits: what the requests of one call do together, what the caller is    *)
(* told of it, and how long it may take.                                   *)
(***************************************************************************)
EXTENDS RetryClient, FiniteSetTheorems, TLAPS

Answers == {"ok", "none", "limited", "timeout", "reset", "refused", "gone", "conflict",
            "unknown", "abandoned"}

TypeOK ==
    /\ op \in Ops /\ block \in Nat /\ current \in BOOLEAN /\ applied \in Nat
    /\ flying \in Nat /\ edits \in 0..MaxEdits
    /\ ctx \in {"live", "expired", "cancelled"}
    /\ pc \in {"begin", "request", "reconcile", "sleep", "returned"}
    /\ attempt \in Nat /\ waited \in Nat
    /\ err \in Answers /\ result \in Answers
    /\ result # "none" <=> pc = "returned"
    /\ pc = "reconcile" => op = "insert" /\ err = "timeout"

\* Before an attempt of an insert, and after one that is to be repeated, there
\* is no block: nothing of the call is under way, and the lookup found nothing.
InsertInv == (op = "insert" /\ op \notin Late) =>
    /\ flying = 0 /\ block <= 1
    /\ pc \in {"begin", "request", "sleep"} => block = 0

\* The ETag the caller read lets one request through.
ETagInv == op # "insert" => block <= 1 /\ applied <= 1 /\ (current => applied = 0)

\* A block that was deleted, or that an answer called gone, does not come back;
\* the first attempt finds what nobody of this call has touched.
DeleteInv == op = "delete" =>
    /\ block + applied <= 1
    /\ attempt = 0 \/ (pc = "request" /\ attempt = 1) => applied = 0 /\ flying = 0
    /\ result = "gone" => block = 0 /\ applied = 0

\* The waits so far are one less than the attempts, once an attempt has begun.
PolicyInv ==
    /\ pc = "begin" => attempt < Attempts /\ waited <= attempt * MaxBackoff
    /\ pc \in {"request", "reconcile", "sleep"} =>
          attempt \in 1..Attempts /\ waited <= (attempt - 1) * MaxBackoff
    /\ pc = "sleep" => attempt < Attempts
    /\ pc = "returned" => WithinCeilings

IInv ==
    /\ TypeOK /\ InsertInv /\ ETagInv /\ DeleteInv /\ PolicyInv
    /\ (op \notin Late => InsertKnown) /\ DeleteReported

----------------------------------------------------------------------------
(* What the parts of a step do. *)

\* retry sleeps on a transient error if an attempt is left, and returns otherwise.
LEMMA OutcomeSays ==
    ASSUME NEW e, Outcome(e)
    PROVE  /\ err' = e /\ UNCHANGED <<attempt, waited>>
           /\ \/ pc' = "sleep" /\ e \in {"limited", "timeout"} /\ attempt < Attempts /\ result' = result
              \/ pc' = "returned" /\ result' = e
BY DEF Outcome, IsTransient, Return

\* A closure looks an unanswered insert up, takes a delete that found nothing
\* on a retry for done, and leaves everything else to retry.
LEMMA HandleSays ==
    ASSUME NEW e, Handle(e)
    PROVE  /\ UNCHANGED <<attempt, waited>>
           /\ \/ /\ pc' = "reconcile" /\ op = "insert" /\ e = "timeout"
                 /\ err' = e /\ result' = result
              \/ \E f \in {e, "ok"} :
                    /\ f = e \/ (op = "delete" /\ e = "gone" /\ attempt > 1)
                    /\ op = "insert" => e # "timeout"
                    /\ (op = "delete" /\ attempt > 1) => f # "gone"
                    /\ err' = f
                    /\ \/ /\ pc' = "sleep" /\ f \in {"limited", "timeout"}
                          /\ attempt < Attempts /\ result' = result
                       \/ pc' = "returned" /\ result' = f
<1>2. CASE op = "insert" /\ e = "timeout"
  BY <1>2 DEF Handle, IsAmbiguous
<1>3. CASE op = "delete"
  <2> DEFINE f == IF e = "gone" /\ attempt > 1 THEN "ok" ELSE e
  <2>1. Outcome(f)
    BY <1>3 DEF Handle, DeleteTold
  <2> HIDE DEF f
  <2>2. f \in {e, "ok"} /\ (f = e \/ (e = "gone" /\ attempt > 1)) /\ (attempt > 1 => f # "gone")
    BY DEF f
  <2> QED
    BY <1>3, <2>1, <2>2, OutcomeSays
<1>4. CASE op # "delete" /\ ~(op = "insert" /\ e = "timeout")
  <2>1. Outcome(e)
    BY <1>4 DEF Handle, IsAmbiguous
  <2> QED
    BY <1>4, <2>1, OutcomeSays
<1> QED
  BY <1>2, <1>3, <1>4

\* A request that takes effect had the block's ETag, or inserts.
LEMMA ProcessSays ==
    ASSUME TypeOK, Process
    PROVE  /\ block' \in Nat /\ applied' \in Nat /\ current' \in BOOLEAN 
           /\ op = "insert" => block' = block + 1
           /\ op # "insert" => block' <= block
           /\ Verdict # "ok" => UNCHANGED <<block, current, applied>>
           /\ Verdict = "ok" => applied' = applied + 1 /\ current' = FALSE
           /\ (Verdict = "ok" /\ op = "delete") => block' = block - 1
<1>1. /\ op \in {"insert", "update", "delete"} /\ block \in Nat /\ applied \in Nat
      /\ current \in BOOLEAN
  BY RetryAssumption DEF TypeOK
<1>2. CASE Verdict # "ok"
  <2>1. UNCHANGED <<block, current, applied>> /\ op # "insert"
    BY <1>2 DEF Process, service, Verdict
  <2> QED
    BY <1>1, <1>2, <2>1
<1>3. CASE Verdict = "ok"
  <2>1. op = "delete" => block # 0
    BY <1>3 DEF Verdict
  <2>2. applied' = applied + 1 /\ current' = FALSE
    BY <1>3 DEF Process
  <2>a. current' \in BOOLEAN
    BY <2>2, Zenon
  <2>3. block' = CASE op = "insert" -> block + 1
                   [] op = "update" -> block
                   [] op = "delete" -> block - 1
    BY <1>3 DEF Process
  <2>4. CASE op = "insert"
    BY <1>1, <1>3, <2>2, <2>a, <2>3, <2>4
  <2>5. CASE op = "update"
    BY <1>1, <1>3, <2>2, <2>a, <2>3, <2>5
  <2>6. CASE op = "delete"
    BY <1>1, <1>3, <2>1, <2>2, <2>a, <2>3, <2>6
  <2> QED
    BY <1>1, <2>4, <2>5, <2>6
<1> QED
  BY <1>2, <1>3

LEMMA VerdictSays ==
    ASSUME TypeOK
    PROVE  /\ Verdict \in {"ok", "gone", "conflict"}
           /\ op = "insert" => Verdict = "ok"
           /\ Verdict = "gone" => block = 0 /\ op # "insert"
           /\ Verdict = "ok" /\ op # "insert" => block > 0 /\ current
BY RetryAssumption DEF Verdict, TypeOK

\* One request of the call, with outcome e: answered, refused, or unanswered.
Requested(e) ==
    /\ pc = "request" /\ Handle(e) /\ UNCHANGED <<op, edits, ctx>>
    /\ \/ e = Verdict /\ Process /\ UNCHANGED flying
       \/ e \in {"limited", "refused"} /\ UNCHANGED <<service, flying>>
       \/ /\ e \in {"timeout", "reset", "abandoned"}
          /\ \/ Process /\ UNCHANGED flying
             \/ UNCHANGED <<service, flying>>
             \/ op \in Late /\ flying' = flying + 1 /\ UNCHANGED service

Outcomes == Answers \ {"none", "unknown"}

\* A step of the call after a request: the lookup, the wait, or its end.
AfterRequest ==
    \/ Reconcile \/ ReconcileFails \/ SleepCut
    \/ \E wait \in 0..MaxBackoff : Sleep(wait)

Around ==
    \/ \E how \in {"expired", "cancelled"} : CtxDone(how)
    \/ Arrive \/ OwnerChanges \/ OwnerRemoves

LEMMA CallSays ==
    ASSUME TypeOK, Call
    PROVE  Begin \/ (\E e \in Outcomes : Requested(e)) \/ AfterRequest
<1>1. CASE Answered
  BY <1>1, VerdictSays DEF Answered, Requested, Outcomes, Answers
<1>2. ASSUME NEW e \in {"limited", "refused"}, Refused(e) PROVE Requested(e) /\ e \in Outcomes
  BY <1>2 DEF Refused, Requested, Outcomes, Answers
<1>3. ASSUME NEW e \in {"timeout", "reset", "abandoned"}, Unanswered(e)
      PROVE  Requested(e) /\ e \in Outcomes
  BY <1>3 DEF Unanswered, Requested, Outcomes, Answers
<1> QED
  BY <1>1, <1>2, <1>3, Zenon DEF Call, AfterRequest

LEMMA NextSays ==
    ASSUME TypeOK, [Next]_vars
    PROVE  \/ Begin \/ (\E e \in Outcomes : Requested(e)) \/ AfterRequest
           \/ Around \/ UNCHANGED vars
BY CallSays, Zenon DEF Next, Around

LEMMA AttemptsNat == Attempts \in Nat \ {0}
BY RetryAssumption DEF Attempts

LEMMA InitInv == Init => IInv
<1> SUFFICES ASSUME Init PROVE IInv
  OBVIOUS
<1>1. TypeOK
  <2>1. current \in BOOLEAN
    BY Zenon DEF Init
  <2> QED
    BY <2>1, RetryAssumption DEF Init, TypeOK, Answers
<1>2. PolicyInv
  BY AttemptsNat, RetryAssumption DEF Init, PolicyInv, WithinCeilings
<1>3. InsertInv /\ ETagInv /\ DeleteInv /\ InsertKnown /\ DeleteReported
  BY RetryAssumption DEF Init, InsertInv, ETagInv, DeleteInv, InsertKnown, DeleteReported
<1> QED
  BY <1>1, <1>2, <1>3 DEF IInv

----------------------------------------------------------------------------
(* Each part of the invariant, step by step. *)

\* Every step keeps the types.
LEMMA TypeStep ==
    ASSUME TypeOK, DeleteInv, [Next]_vars
    PROVE  TypeOK'
<1>1. CASE Begin
  BY <1>1 DEF TypeOK, Begin, Return, service, Answers
<1>2. ASSUME NEW e \in Outcomes, Requested(e) PROVE TypeOK'
  <2>1. /\ err' \in Answers /\ result' \in Answers /\ UNCHANGED <<attempt, waited, op, edits, ctx>>
        /\ pc' \in {"begin", "request", "reconcile", "sleep", "returned"}
        /\ result' # "none" <=> pc' = "returned"
        /\ pc' = "reconcile" => op' = "insert" /\ err' = "timeout"
    BY <1>2, HandleSays DEF TypeOK, Requested, Outcomes, Answers
  <2>2. block' \in Nat /\ applied' \in Nat /\ current' \in BOOLEAN /\ flying' \in Nat
    <3>1. CASE Process /\ UNCHANGED flying
      BY <3>1, ProcessSays DEF TypeOK
    <3>2. CASE UNCHANGED service /\ flying' \in {flying, flying + 1}
      BY <3>2 DEF TypeOK, service
    <3> QED
      BY <1>2, <3>1, <3>2 DEF Requested, service
  <2> QED
    BY <2>1, <2>2 DEF TypeOK
<1>3. CASE Reconcile \/ ReconcileFails
  <2>1. \E e \in Answers \ {"none"} : Outcome(e)
    BY <1>3 DEF Reconcile, ReconcileFails, TypeOK, Answers
  <2> QED
    BY <1>3, <2>1, OutcomeSays DEF TypeOK, Reconcile, ReconcileFails, service, Answers
<1>4. CASE SleepCut \/ \E wait \in 0..MaxBackoff : Sleep(wait)
  BY <1>4, RetryAssumption DEF TypeOK, SleepCut, Sleep, Return, service, Answers
<1>5. CASE Arrive
  <2>1. block' \in Nat /\ applied' \in Nat /\ current' \in BOOLEAN
    BY <1>5, ProcessSays DEF Arrive
  <2> QED
    BY <1>5, <2>1 DEF TypeOK, Arrive
<1>6. CASE OwnerChanges \/ OwnerRemoves
  <2>1. current' \in BOOLEAN
    BY <1>6, Zenon DEF OwnerChanges, OwnerRemoves
  <2> QED
    BY <1>6, <2>1, RetryAssumption DEF TypeOK, OwnerChanges, OwnerRemoves
<1>8. CASE \E how \in {"expired", "cancelled"} : CtxDone(how)
  BY <1>8 DEF TypeOK, CtxDone, service
<1>7. CASE UNCHANGED vars
  BY <1>7 DEF TypeOK, vars, service
<1> QED
  BY <1>1, <1>2, <1>3, <1>4, <1>5, <1>6, <1>7, <1>8, NextSays DEF AfterRequest, Around

\* Every step keeps inserts from repeating what they did, and their report true.
LEMMA InsertStep ==
    ASSUME TypeOK, InsertInv, op \notin Late => InsertKnown, [Next]_vars
    PROVE  InsertInv' /\ (op' \notin Late => InsertKnown')
<1> USE DEF TypeOK, InsertInv, InsertKnown, service
<1>0. CASE op' # op \/ op # "insert" \/ op \in Late
  <2>1. op' = op
    BY NextSays DEF Begin, Requested, AfterRequest, Reconcile, ReconcileFails, SleepCut, Sleep,
      Around, CtxDone, Arrive, OwnerChanges, OwnerRemoves, vars
  <2> QED
    BY <1>0, <2>1
<1> SUFFICES ASSUME op' = op, op = "insert", op \notin Late
             PROVE  InsertInv' /\ InsertKnown'
  BY <1>0
<1>1. CASE Begin
  BY <1>1 DEF Begin, Return
<1>2. ASSUME NEW e \in Outcomes, Requested(e) PROVE InsertInv' /\ InsertKnown'
  <2>1. block = 0 /\ flying' = 0 /\ Verdict = "ok"
    BY <1>2, VerdictSays DEF Requested
  <2>2. (block' = 0 /\ e # Verdict) \/ (block' = 1 /\ e \in {"ok", "timeout", "reset", "abandoned"})
    <3>1. ASSUME Process PROVE block' = 1
      <4>1. block' = block + 1
        BY ONLY TypeOK, <3>1, op = "insert", ProcessSays
      <4> QED
        BY <2>1, <4>1
    <3>2. UNCHANGED service => block' = 0
      BY <2>1
    <3>3. \/ e = "ok" /\ Process
          \/ e # "ok" /\ UNCHANGED service
          \/ e \in {"timeout", "reset", "abandoned"} /\ Process
      BY <1>2, <2>1 DEF Requested
    <3> QED
      BY <2>1, <3>1, <3>2, <3>3
  <2>3. \/ pc' = "reconcile" /\ err' = "timeout" /\ result' = "none"
        \/ e # "timeout" /\ pc' = "sleep" /\ e = "limited" /\ result' = "none"
        \/ e # "timeout" /\ pc' = "returned" /\ result' = e
    BY <1>2, HandleSays DEF Requested
  <2> QED
    BY <2>1, <2>2, <2>3
<1>3. CASE Reconcile
  <2>1. Outcome(IF block > 0 THEN "ok" ELSE "timeout")
    BY <1>3 DEF Reconcile
  <2> QED
    BY <1>3, <2>1, OutcomeSays DEF Reconcile
<1>4. CASE ReconcileFails
  BY <1>4, OutcomeSays DEF ReconcileFails
<1>5. CASE SleepCut \/ \E wait \in 0..MaxBackoff : Sleep(wait)
  BY <1>5 DEF SleepCut, Sleep, Return
<1>6. CASE Around
  BY <1>6 DEF Around, CtxDone, Arrive, OwnerChanges, OwnerRemoves
<1>7. CASE UNCHANGED vars
  BY <1>7 DEF vars
<1> QED
  BY <1>1, <1>2, <1>3, <1>4, <1>5, <1>6, <1>7, NextSays DEF AfterRequest

\* Nothing but a request that is applied, or the owner, touches the block.
LEMMA ServiceSays ==
    ASSUME [Next]_vars, TypeOK
    PROVE  /\ op' = op
           /\ \/ UNCHANGED <<block, current, applied>>
              \/ Process
              \/ applied' = applied /\ current' = FALSE /\ (block' = block \/ block' = block - 1) /\ block > 0
<1>1. ASSUME NEW e \in Outcomes, Requested(e)
      PROVE  op' = op /\ (UNCHANGED service \/ Process)
  BY <1>1 DEF Requested
<1>2. CASE Begin \/ AfterRequest \/ UNCHANGED vars
  BY <1>2 DEF Begin, AfterRequest, Reconcile, ReconcileFails, SleepCut, Sleep, vars, service
<1>3. CASE Around
  BY <1>3 DEF Around, CtxDone, Arrive, OwnerChanges, OwnerRemoves, service
<1> QED
  BY <1>1, <1>2, <1>3, NextSays DEF service

\* Every step keeps updates and deletes from taking effect twice.
LEMMA ETagStep ==
    ASSUME TypeOK, ETagInv, [Next]_vars
    PROVE  ETagInv'
<1> SUFFICES ASSUME op # "insert" PROVE block' <= 1 /\ applied' <= 1 /\ (current' => applied' = 0)
  BY ServiceSays DEF ETagInv
<1>1. block \in Nat /\ applied \in Nat /\ block <= 1 /\ applied <= 1 /\ (current => applied = 0)
  BY DEF TypeOK, ETagInv
<1>2. CASE Process
  <2>1. CASE Verdict = "ok"
    <3>1. current
      BY <2>1, VerdictSays
    <3>2. applied = 0
      BY <1>1, <3>1
    <3>3. applied' = 1 /\ current' = FALSE /\ block' \in Nat /\ block' <= block
      BY <1>2, <2>1, <3>2, ProcessSays
    <3> QED
      BY <1>1, <3>3
  <2>2. CASE Verdict # "ok"
    BY <1>1, <1>2, <2>2, ProcessSays
  <2> QED
    BY <2>1, <2>2
<1>3. CASE UNCHANGED <<block, current, applied>>
  BY <1>1, <1>3
<1>4. CASE applied' = applied /\ current' = FALSE /\ (block' = block \/ block' = block - 1) /\ block > 0
  BY <1>1, <1>4
<1> QED
  BY <1>2, <1>3, <1>4, ServiceSays

\* Every step keeps what a delete has done and what it reports in line.
LEMMA DeleteStep ==
    ASSUME TypeOK, ETagInv, DeleteInv, DeleteReported, PolicyInv, [Next]_vars
    PROVE  DeleteInv' /\ DeleteReported'
<1> SUFFICES ASSUME op = "delete", op' = op PROVE DeleteInv' /\ DeleteReported'
  BY ServiceSays DEF DeleteInv, DeleteReported
<1> USE DEF DeleteInv, DeleteReported
<1>1. block \in Nat /\ applied \in Nat /\ attempt \in Nat /\ flying \in Nat /\ (result # "none" <=> pc = "returned")
      /\ block + applied <= 1
  BY DEF TypeOK
<1>2. pc \in {"request", "reconcile", "sleep"} => attempt # 0
  BY DEF PolicyInv
<1>a. pc \in {"begin", "request", "reconcile", "sleep", "returned"}
  BY DEF TypeOK
<1>3. block' \in Nat /\ applied' \in Nat /\ block' + applied' <= 1 /\ applied' >= applied
  <2>1. CASE Process
    <3>1. CASE Verdict = "ok"
      <4>1. block' \in Nat /\ applied' = applied + 1 /\ block' = block - 1
        BY <2>1, <3>1, ProcessSays
      <4> QED
        BY <1>1, <4>1
    <3>2. CASE Verdict # "ok"
      BY <1>1, <2>1, <3>2, ProcessSays
    <3> QED
      BY <3>1, <3>2
  <2>2. CASE UNCHANGED <<block, current, applied>>
    BY <1>1, <2>2
  <2>3. CASE applied' = applied /\ (block' = block \/ block' = block - 1) /\ block > 0
    BY <1>1, <2>3
  <2> QED
    BY <2>1, <2>2, <2>3, ServiceSays
\* Once there is no block, no request does anything.
<1>4. block = 0 => UNCHANGED <<block, applied>>
  <2>1. block = 0 => Verdict # "ok"
    BY DEF Verdict
  <2>2. (block = 0 /\ Process) => UNCHANGED <<block, applied>>
    BY <2>1, ProcessSays
  <2> QED
    BY <1>1, <2>2, ServiceSays
<1>5. CASE Begin
  BY <1>1, <1>3, <1>5 DEF Begin, Return, service
<1>6. ASSUME NEW e \in Outcomes, Requested(e) PROVE DeleteInv' /\ DeleteReported'
  <2>1. pc = "request" /\ attempt # 0 /\ result = "none"
    BY <1>1, <1>2, <1>6 DEF Requested
  <2>2. PICK f \in {e, "ok"} :
           /\ attempt' = attempt
           /\ f = e \/ (e = "gone" /\ attempt > 1)
           /\ attempt > 1 => f # "gone"
           /\ \/ pc' = "sleep" /\ f \in {"limited", "timeout"} /\ result' = result
              \/ pc' = "returned" /\ result' = f
    BY <1>6, HandleSays DEF Requested
  <2>3. e = "gone" => block = 0 /\ block' = 0 /\ applied' = applied
    <3>1. e = "gone" => block = 0
      BY <1>6, VerdictSays DEF Requested
    <3> QED
      BY <1>4, <3>1
  <2>4. e = "ok" => block' = 0 /\ (attempt = 1 => applied' = 1)
    <3> SUFFICES ASSUME e = "ok" PROVE block' = 0 /\ (attempt = 1 => applied' = 1)
      OBVIOUS
    <3>1. Process /\ Verdict = "ok"
      BY <1>6 DEF Requested
    <3>2. applied' = applied + 1 /\ block' = block - 1
      BY <3>1, ProcessSays
    <3> QED
      BY <1>1, <1>3, <2>1, <3>2
  <2>5. (result' = "gone" => block' = 0 /\ applied' = 0)
        /\ (result' = "ok" => block' = 0 /\ (attempt' = 1 => applied' = 1))
    BY <1>1, <2>1, <2>2, <2>3, <2>4
  <2>6. attempt' # 0 /\ pc' # "request"
    BY <2>1, <2>2
  <2>7. DeleteInv'
    BY <1>3, <2>5, <2>6
  <2>8. applied' > 0 => result' # "gone"
    BY <1>3, <2>5
  <2> QED
    BY <2>5, <2>7, <2>8
<1>7. CASE AfterRequest
  <2>1. pc # "reconcile"
    BY DEF TypeOK
  <2>2. /\ attempt' = attempt /\ UNCHANGED <<block, applied, flying>>
        /\ pc = "sleep" /\ pc' # "request" /\ result' \in {result, "abandoned"}
    BY <1>7, <2>1 DEF AfterRequest, Reconcile, ReconcileFails, SleepCut, Sleep, Return, service
  <2> QED
    BY <1>1, <1>2, <2>2
<1>8. CASE Around
  <2>1. UNCHANGED <<pc, attempt, result>>
    BY <1>8 DEF Around, CtxDone, Arrive, OwnerChanges, OwnerRemoves
  <2>2. flying' <= flying /\ flying' \in Nat /\ (flying = 0 => applied' = applied)
    BY <1>1, <1>8 DEF Around, CtxDone, Arrive, OwnerChanges, OwnerRemoves, service
  <2>3. applied = 1 => block = 0
    BY <1>1
  <2>4. DeleteInv'
    <3>1. flying = 0 => flying' = 0
      BY <1>1, <2>2
    <3>2. block = 0 /\ applied = 0 => block' = 0 /\ applied' = 0
      BY <1>4
    <3> QED
      BY <1>1, <1>3, <2>1, <2>2, <3>1, <3>2
  <2>5. applied = 0 \/ applied' = applied
    BY <1>1, <1>4, <2>3
  <2> QED
    BY <1>1, <1>3, <1>4, <2>1, <2>4, <2>5
<1>9. CASE UNCHANGED vars
  BY <1>9 DEF vars, service
<1> QED
  BY <1>5, <1>6, <1>7, <1>8, <1>9, NextSays

\* Each wait adds at most MaxBackoff to what earlier waits took.
LEMMA OneMoreWait ==
    ASSUME NEW n \in Nat, NEW w \in Nat, w <= n * MaxBackoff, NEW wait \in 0..MaxBackoff
    PROVE  w + wait <= (n + 1) * MaxBackoff
BY RetryAssumption

LEMMA FewerWaits ==
    ASSUME NEW n \in Nat, NEW m \in Nat, n <= m
    PROVE  n * MaxBackoff <= m * MaxBackoff
BY RetryAssumption

\* Every step keeps attempts and waits within the policy.
LEMMA PolicyStep ==
    ASSUME TypeOK, PolicyInv, [Next]_vars
    PROVE  PolicyInv'
<1>1. attempt \in Nat /\ waited \in Nat /\ Attempts \in Nat \ {0}
      /\ pc \in {"begin", "request", "reconcile", "sleep", "returned"}
  BY AttemptsNat DEF TypeOK
<1> USE DEF PolicyInv, WithinCeilings
<1>2. Attempts' = Attempts
  BY DEF Attempts
<1>3. CASE Begin
  <2>1. CASE ctx = "live"
    BY <1>1, <1>2, <1>3, <2>1 DEF Begin
  <2>2. CASE ctx # "live"
    <3>1. attempt * MaxBackoff <= (Attempts - 1) * MaxBackoff
      BY <1>1, <1>3, FewerWaits DEF Begin
    <3>2. pc = "begin" /\ pc' = "returned" /\ UNCHANGED <<attempt, waited>>
      BY <1>3, <2>2 DEF Begin, Return
    <3> QED
      BY <1>1, <1>2, <3>1, <3>2, RetryAssumption
  <2> QED
    BY <2>1, <2>2
\* A request or a lookup leaves the count and the waits as they are.
<1>4. ASSUME pc \in {"request", "reconcile"}, UNCHANGED <<attempt, waited>>,
             pc' \in {"reconcile", "returned"} \/ (pc' = "sleep" /\ attempt < Attempts)
      PROVE  PolicyInv'
  <2>1. (attempt - 1) * MaxBackoff <= (Attempts - 1) * MaxBackoff
    BY <1>1, <1>4, FewerWaits
  <2> QED
    BY <1>1, <1>2, <1>4, <2>1, RetryAssumption
<1>5. ASSUME NEW e \in Outcomes, Requested(e) PROVE PolicyInv'
  BY <1>4, <1>5, HandleSays DEF Requested
<1>6. CASE Reconcile \/ ReconcileFails
  BY <1>4, <1>6, OutcomeSays DEF Reconcile, ReconcileFails
<1>7. ASSUME NEW wait \in 0..MaxBackoff, Sleep(wait) PROVE PolicyInv'
  <2>1. /\ pc = "sleep" /\ pc' = "begin" /\ waited' = waited + wait /\ attempt' = attempt
        /\ attempt \in 1..Attempts /\ attempt < Attempts /\ waited <= (attempt - 1) * MaxBackoff
    BY <1>7 DEF Sleep
  <2>2. waited + wait <= (attempt - 1 + 1) * MaxBackoff
    BY <1>1, <2>1, OneMoreWait
  <2>3. attempt - 1 + 1 = attempt
    BY <1>1
  <2> QED
    BY <1>2, <2>1, <2>2, <2>3
<1>8. CASE SleepCut
  <2>1. (attempt - 1) * MaxBackoff <= (Attempts - 1) * MaxBackoff
    BY <1>1, <1>8, FewerWaits DEF SleepCut
  <2> QED
    BY <1>1, <1>2, <1>8, <2>1, RetryAssumption DEF SleepCut, Return
<1>9. CASE UNCHANGED <<pc, attempt, waited>>
  BY <1>2, <1>9
<1>10. CASE Around \/ UNCHANGED vars
  BY <1>9, <1>10 DEF Around, CtxDone, Arrive, OwnerChanges, OwnerRemoves, vars
<1> QED
  BY <1>3, <1>5, <1>6, <1>7, <1>8, <1>10, NextSays DEF AfterRequest

----------------------------------------------------------------------------
(* Powers of two.  The induction principles of the library take an operator,
   which the provers cannot be given; this one, for sets, follows from the
   finite sets being well-founded. *)

\* A set of natural numbers that is not empty has a least member: the least of
\* the intervals that end in one of its members.
LEMMA Least ==
    ASSUME NEW T \in SUBSET Nat, T # {}
    PROVE  \E n \in T : \A m \in T : n <= m
<1>1. PICK k \in T : TRUE
  OBVIOUS
<1> DEFINE Below == {0..n : n \in {m \in T : m <= k}}
<1>2. /\ IsWellFoundedOn(StrictSubsetOrdering(0..k), SUBSET (0..k))
      /\ Below \subseteq SUBSET (0..k) /\ Below # {}
  <2>1. IsFiniteSet(0..k)
    BY FS_Interval
  <2>2. FiniteSubsetsOf(0..k) = SUBSET (0..k)
    BY <2>1, FS_FiniteSubsetsOfFinite, Zenon
  <2>3. IsWellFoundedOn(StrictSubsetOrdering(0..k), SUBSET (0..k))
    BY <2>2, FS_StrictSubsetOrderingWellFounded
  <2> QED
    BY <1>1, <2>3
<1>3. \E x \in Below : \A y \in Below : <<y, x>> \notin StrictSubsetOrdering(0..k)
  <2> HIDE DEF Below
  <2> QED
    BY <1>2, WFMin
<1>4. PICK n \in {m \in T : m <= k} : \A m \in {m \in T : m <= k} : <<0..m, 0..n>> \notin StrictSubsetOrdering(0..k)
  BY <1>3
<1>5. ASSUME NEW m \in T, m < n PROVE FALSE
  <2>1. 0..m \subseteq 0..n /\ 0..m # 0..n /\ m \in {i \in T : i <= k} /\ n <= k
    BY <1>5
  <2>2. <<0..m, 0..n>> \in (SUBSET (0..k)) \X (SUBSET (0..k))
    BY <2>1
  <2>3. <<0..m, 0..n>> \in StrictSubsetOrdering(0..k)
    <3> DEFINE below == 0..m
               upto == 0..n
    <3>1. <<below, upto>>[1] = below /\ <<below, upto>>[2] = upto
      OBVIOUS
    <3> HIDE DEF below, upto
    <3> QED
      BY <2>1, <2>2, <3>1 DEF StrictSubsetOrdering
  <2> QED
    BY <1>4, <2>1, <2>3
<1> QED
  BY <1>4, <1>5

\* Induction over a set; a statement about n is the set of the n it holds for.
LEMMA Induction ==
    ASSUME NEW S, 0 \in S, \A n \in Nat : n \in S => n + 1 \in S
    PROVE  Nat \subseteq S
<1> SUFFICES ASSUME Nat \ S # {} PROVE FALSE
  OBVIOUS
<1>1. PICK n \in Nat \ S : \A m \in Nat \ S : n <= m
  BY Least
<1>2. n - 1 \in Nat /\ n - 1 \in S
  BY <1>1
<1> QED
  BY <1>1, <1>2

\* A table of the first powers.
IsTable(g, n) == g[0] = 1 /\ \A i \in 1..n : g[i] = 2 * g[i - 1]

\* There is a table of any length.
LEMMA Tables == \A n \in Nat : \E g \in [0..n -> Nat] : IsTable(g, n)
<1> DEFINE S == {n \in Nat : \E g \in [0..n -> Nat] : IsTable(g, n)}
<1>1. 0 \in S
  <2>1. [i \in 0..0 |-> 1] \in [0..0 -> Nat] /\ IsTable([i \in 0..0 |-> 1], 0)
    BY DEF IsTable
  <2> QED
    BY <2>1
<1>2. ASSUME NEW n \in Nat, n \in S PROVE n + 1 \in S
  <2>1. PICK g \in [0..n -> Nat] : IsTable(g, n)
    BY <1>2
  <2> DEFINE h == [i \in 0..(n + 1) |-> IF i = n + 1 THEN 2 * g[n] ELSE g[i]]
  <2>2. h \in [0..(n + 1) -> Nat]
    BY <2>1
  <2>3. h[0] = 1 /\ h[n + 1] = 2 * h[n]
    BY <2>1 DEF IsTable
  <2>4. ASSUME NEW i \in 1..n PROVE h[i] = 2 * h[i - 1]
    <3>1. h[i] = g[i] /\ h[i - 1] = g[i - 1]
      OBVIOUS
    <3> QED
      BY <2>1, <3>1 DEF IsTable
  <2>5. \A i \in 1..(n + 1) : h[i] = 2 * h[i - 1]
    <3>1. \A i \in 1..(n + 1) : i \in 1..n \/ (i = n + 1 /\ i - 1 = n)
      OBVIOUS
    <3> HIDE DEF h
    <3> QED
      BY <2>3, <2>4, <3>1
  <2>6. IsTable(h, n + 1)
    BY <2>3, <2>5 DEF IsTable
  <2>7. \E t \in [0..(n + 1) -> Nat] : IsTable(t, n + 1)
    <3> HIDE DEF h
    <3> QED
      BY <2>2, <2>6
  <2>8. n + 1 \in Nat
    OBVIOUS
  <2> QED
    BY <2>7, <2>8
<1>3. Nat \subseteq S
  <2> HIDE DEF S
  <2> QED
    BY <1>1, <1>2, Induction
<1> QED
  BY <1>3

\* Two tables have the same powers.
LEMMA TablesAgree ==
    ASSUME NEW n \in Nat, NEW m \in Nat, NEW g \in [0..n -> Nat], NEW h \in [0..m -> Nat],
           IsTable(g, n), IsTable(h, m), n <= m
    PROVE  g[n] = h[n]
<1> DEFINE S == {i \in Nat : i <= n => g[i] = h[i]}
<1>1. 0 \in S
  BY DEF IsTable
<1>2. ASSUME NEW i \in Nat, i \in S PROVE i + 1 \in S
  <2>1. i + 1 <= n => i + 1 \in 1..n /\ i + 1 \in 1..m /\ i + 1 - 1 = i /\ g[i] = h[i]
    BY <1>2
  <2> QED
    BY <2>1 DEF IsTable
<1>3. Nat \subseteq S
  <2> HIDE DEF S
  <2> QED
    BY <1>1, <1>2, Induction
<1> QED
  BY <1>3

\* pow2 is what its definition says: there is a function that doubles at each step.
LEMMA Pow2Def ==
    /\ pow2 \in [Nat -> Nat] /\ pow2[0] = 1
    /\ \A n \in Nat : pow2[n + 1] = 2 * pow2[n]
<1> DEFINE T(n) == CHOOSE g \in [0..n -> Nat] : IsTable(g, n)
           f == [n \in Nat |-> T(n)[n]]
<1>1. \A n \in Nat : T(n) \in [0..n -> Nat] /\ IsTable(T(n), n)
  BY Tables
<1> HIDE DEF T
<1>2. f \in [Nat -> Nat] /\ f[0] = 1
  BY <1>1 DEF IsTable
<1>3. ASSUME NEW n \in Nat PROVE f[n + 1] = 2 * f[n]
  <2>1. T(n)[n] = T(n + 1)[n]
    <3>1. n + 1 \in Nat /\ n <= n + 1
      OBVIOUS
    <3>2. T(n) \in [0..n -> Nat] /\ IsTable(T(n), n)
      BY <1>1
    <3>3. T(n + 1) \in [0..(n + 1) -> Nat] /\ IsTable(T(n + 1), n + 1)
      BY <1>1, <3>1
    <3> HIDE DEF f
    <3> QED
      BY <3>1, <3>2, <3>3, TablesAgree
  <2>2. T(n + 1)[n + 1] = 2 * T(n + 1)[n]
    BY <1>1 DEF IsTable
  <2> QED
    BY <2>1, <2>2
<1>4. f = [n \in Nat |-> IF n = 0 THEN 1 ELSE 2 * f[n - 1]]
  <2>1. ASSUME NEW n \in Nat PROVE f[n] = IF n = 0 THEN 1 ELSE 2 * f[n - 1]
    <3>1. n # 0 => n - 1 \in Nat /\ n - 1 + 1 = n
      OBVIOUS
    <3> HIDE DEF f
    <3> QED
      BY <1>2, <1>3, <3>1
  <2> QED
    BY <2>1
<1> HIDE DEF f
<1>5. pow2 = [n \in Nat |-> IF n = 0 THEN 1 ELSE 2 * pow2[n - 1]]
  BY <1>4, Zenon DEF pow2
<1>6. pow2[0] = 1 /\ \A n \in Nat : pow2[n + 1] = 2 * pow2[n]
  <2>1. \A n \in Nat : pow2[n] = IF n = 0 THEN 1 ELSE 2 * pow2[n - 1]
    BY <1>5, Zenon
  <2>2. ASSUME NEW n \in Nat PROVE pow2[n + 1] = 2 * pow2[n]
    <3>1. n + 1 \in Nat /\ n + 1 # 0 /\ n + 1 - 1 = n
      OBVIOUS
    <3> QED
      BY <2>1, <3>1
  <2> QED
    BY <2>1, <2>2
<1>7. \A n \in Nat : pow2[n] \in Nat
  <2> DEFINE S == {n \in Nat : pow2[n] \in Nat}
  <2>1. 0 \in S /\ \A n \in Nat : n \in S => n + 1 \in S
    BY <1>6
  <2>2. Nat \subseteq S
    <3> HIDE DEF S
    <3> QED
      BY <2>1, Induction
  <2> QED
    BY <2>2
<1>8. pow2 \in [Nat -> Nat]
  BY <1>5, <1>7
<1> QED
  BY <1>6, <1>8

LEMMA Pow2Grows ==
    ASSUME NEW n \in Nat, NEW m \in Nat, n <= m
    PROVE  pow2[n] <= pow2[m]
<1> DEFINE S == {i \in Nat : n <= i => pow2[n] <= pow2[i]}
<1>1. 0 \in S
  <2>1. n <= 0 => n = 0
    OBVIOUS
  <2>2. pow2[0] \in Nat
    BY Pow2Def
  <2> QED
    BY <2>1, <2>2
<1>2. ASSUME NEW i \in Nat, i \in S PROVE i + 1 \in S
  <2>1. pow2[i + 1] = 2 * pow2[i] /\ pow2[i] \in Nat /\ pow2[i + 1] \in Nat
    BY Pow2Def
  <2>2. n <= i + 1 => n <= i \/ n = i + 1
    OBVIOUS
  <2>3. n <= i => pow2[n] <= pow2[i + 1]
    <3>1. pow2[n] \in Nat /\ (n <= i => pow2[n] <= pow2[i])
      BY <1>2, Pow2Def
    <3> QED
      BY <2>1, <3>1
  <2>4. n <= i + 1 => pow2[n] <= pow2[i + 1]
    BY <2>1, <2>2, <2>3
  <2> QED
    BY <2>4
<1>3. Nat \subseteq S
  <2> HIDE DEF S
  <2> QED
    BY <1>1, <1>2, Induction
<1> QED
  BY <1>3

\* What n waits may take in all by their doubling ceilings.
Slept(n) == BaseBackoff * (pow2[n] - 1)

LEMMA SleptGrows ==
    ASSUME NEW n \in Nat, NEW m \in Nat, n <= m
    PROVE  Slept(n) \in Nat /\ Slept(n) <= Slept(m)
<1>1. pow2[n] \in Nat /\ pow2[m] \in Nat /\ 1 <= pow2[n] /\ pow2[n] <= pow2[m]
  <2>1. pow2[0] <= pow2[n] /\ pow2[0] = 1
    BY Pow2Def, Pow2Grows
  <2> QED
    BY <2>1, Pow2Def, Pow2Grows
<1>2. ASSUME NEW x \in Nat, NEW y \in Nat, x <= y PROVE BaseBackoff * x \in Nat /\ BaseBackoff * x <= BaseBackoff * y
  BY <1>2, RetryAssumption
<1> QED
  BY <1>1, <1>2 DEF Slept

\* One more wait, up to its ceiling.
LEMMA SleptOneMore ==
    ASSUME NEW n \in Nat \ {0}, NEW w \in Nat, w <= Slept(n - 1), NEW wait \in 0..Ceiling(n)
    PROVE  w + wait <= Slept(n)
<1>1. n - 1 \in Nat /\ n - 1 + 1 = n
  OBVIOUS
<1>2. pow2[n - 1] \in Nat /\ pow2[n] = 2 * pow2[n - 1]
  BY <1>1, Pow2Def
<1> DEFINE c == BaseBackoff * pow2[n - 1]
<1>3. c \in Nat /\ Slept(n - 1) = c - BaseBackoff /\ Slept(n) = c + c - BaseBackoff
  BY <1>2, RetryAssumption DEF Slept
<1>4. wait \in Nat /\ wait <= c
  <2>1. Ceiling(n) = IF c > MaxBackoff THEN MaxBackoff ELSE c
    BY DEF Ceiling
  <2> HIDE DEF c
  <2> QED
    BY <1>3, <2>1, RetryAssumption
<1> HIDE DEF c
<1> QED
  BY <1>3, <1>4, RetryAssumption

\* The waits so far keep below their doubling ceilings.
PatienceInv ==
    /\ pc = "begin" => waited <= Slept(attempt)
    /\ pc \in {"request", "reconcile", "sleep"} => waited <= Slept(attempt - 1)
    /\ pc = "returned" => waited <= Slept(Attempts - 1)

\* Every step keeps the waits below their doubling ceilings.
LEMMA PatienceStep ==
    ASSUME TypeOK, PolicyInv, PatienceInv, [Next]_vars
    PROVE  PatienceInv'
<1>1. attempt \in Nat /\ waited \in Nat /\ Attempts \in Nat \ {0}
      /\ pc \in {"begin", "request", "reconcile", "sleep", "returned"}
  BY AttemptsNat DEF TypeOK
<1>2. \A n : Slept(n)' = Slept(n)
  BY DEF Slept
<1>a. Attempts' = Attempts
  BY DEF Attempts
<1> USE DEF PatienceInv
<1>3. CASE Begin
  <2>1. CASE ctx = "live"
    <3>1. attempt' - 1 = attempt /\ UNCHANGED waited /\ pc' = "request" /\ pc = "begin"
      BY <1>1, <1>3, <2>1 DEF Begin
    <3> QED
      BY <1>2, <3>1
  <2>2. CASE ctx # "live"
    <3>1. pc = "begin" /\ pc' = "returned" /\ UNCHANGED <<attempt, waited>> /\ attempt <= Attempts - 1
      BY <1>1, <1>3, <2>2 DEF Begin, Return, PolicyInv
    <3>2. Slept(attempt) \in Nat /\ Slept(Attempts - 1) \in Nat /\ Slept(attempt) <= Slept(Attempts - 1)
      BY <1>1, <3>1, SleptGrows
    <3> QED
      BY <1>1, <1>2, <1>a, <3>1, <3>2
  <2> QED
    BY <2>1, <2>2
\* A request, a lookup or an interrupted sleep leaves the count and the waits as they are.
<1>4. ASSUME pc \in {"request", "reconcile", "sleep"}, UNCHANGED <<attempt, waited>>,
             pc' \in {"reconcile", "returned", "sleep"}
      PROVE  PatienceInv'
  <2>1. attempt \in 1..Attempts /\ attempt - 1 \in Nat /\ Attempts - 1 \in Nat /\ attempt - 1 <= Attempts - 1
    BY <1>1, <1>4 DEF PolicyInv
  <2>2. Slept(attempt - 1) \in Nat /\ Slept(Attempts - 1) \in Nat /\ Slept(attempt - 1) <= Slept(Attempts - 1)
    BY <2>1, SleptGrows
  <2> QED
    BY <1>1, <1>2, <1>a, <1>4, <2>2
<1>5. ASSUME NEW e \in Outcomes, Requested(e) PROVE PatienceInv'
  BY <1>4, <1>5, HandleSays DEF Requested
<1>6. CASE Reconcile \/ ReconcileFails
  BY <1>4, <1>6, OutcomeSays DEF Reconcile, ReconcileFails
<1>7. ASSUME NEW wait \in 0..MaxBackoff, Sleep(wait) PROVE PatienceInv'
  <2>1. /\ pc = "sleep" /\ pc' = "begin" /\ waited' = waited + wait /\ attempt' = attempt
        /\ wait \in 0..Ceiling(attempt) /\ attempt \in Nat \ {0} /\ waited <= Slept(attempt - 1)
    BY <1>7 DEF Sleep, PolicyInv
  <2>2. waited + wait <= Slept(attempt)
    BY <1>1, <2>1, SleptOneMore
  <2> QED
    BY <1>2, <2>1, <2>2
<1>8. CASE SleepCut
  BY <1>4, <1>8 DEF SleepCut, Return
<1>9. CASE UNCHANGED <<pc, attempt, waited>>
  BY <1>2, <1>a, <1>9
<1>10. CASE Around \/ UNCHANGED vars
  BY <1>9, <1>10 DEF Around, CtxDone, Arrive, OwnerChanges, OwnerRemoves, vars
<1> QED
  BY <1>3, <1>5, <1>6, <1>7, <1>8, <1>10, NextSays DEF AfterRequest

----------------------------------------------------------------------------
(* The call as its caller sees it. *)

LEMMA SeenTypes ==
    /\ SeenAgain \in BOOLEAN /\ SeenLost \in BOOLEAN
    /\ SeenAgain' \in BOOLEAN /\ SeenLost' \in BOOLEAN
<1>1. SeenAgain \in BOOLEAN /\ SeenAgain' \in BOOLEAN
  BY Zenon DEF SeenAgain
<1>2. SeenLost \in BOOLEAN
  BY SMT DEF SeenLost
<1>3. SeenLost' \in BOOLEAN
  BY SMT DEF SeenLost
<1> QED
  BY <1>1, <1>2, <1>3

\* Where the caller sees the call while it is at work, and what it is told at the end.
LEMMA SeenSays ==
    ASSUME TypeOK
    PROVE  /\ pc = "reconcile" => SeenPc = "reconcile"
           /\ pc \in {"begin", "request", "sleep"} => SeenPc = "send"
           /\ pc = "returned" => SeenPc = "returned" /\ ~SeenAgain
           /\ pc # "returned" => SeenTold = "none" /\ SeenPc # "returned"
           /\ result \in {"ok", "conflict"} => SeenTold = result
           /\ result \notin {"none", "ok", "conflict"} => SeenTold = "error"
BY DEF TypeOK, SeenPc, SeenAgain, SeenTold

\* A request that is processed has the effect it asks for, or none.
LEMMA ProcessSeen ==
    ASSUME TypeOK, Process
    PROVE  /\ Verdict = "ok" => Seen!Effect
           /\ Verdict # "ok" => UNCHANGED Seen!service
<1>1. CASE Verdict = "ok"
  <2>1. op # "insert" => block > 0 /\ current
    BY <1>1, VerdictSays
  <2> QED
    BY <1>1, <2>1, Zenon DEF Process, Seen!Effect
<1>2. CASE Verdict # "ok"
  BY <1>2 DEF Process, service, Seen!service
<1> QED
  BY <1>1, <1>2

\* A call that returns tells its caller what its result stands for.
LEMMA ReturnSeen ==
    ASSUME TypeOK', pc' = "returned", NEW r, SeenTold' = r
    PROVE  Seen!Return(r)
<1>1. SeenPc' = "returned" /\ ~SeenAgain'
  BY DEF SeenPc, SeenAgain
<1>2. SeenAgain' = FALSE
  BY <1>1, SeenTypes, Zenon
<1> QED
  BY <1>1, <1>2 DEF Seen!Return

\* A call that sleeps is about to send its request again.
LEMMA ResendSeen ==
    ASSUME TypeOK, TypeOK', PolicyInv', pc # "returned", pc' = "sleep"
    PROVE  Seen!Resend
<1>1. SeenAgain'
  BY DEF SeenAgain, PolicyInv
<1>2. SeenAgain' = TRUE
  BY <1>1, SeenTypes, Zenon
<1>3. SeenTold = "none" /\ SeenTold' = "none" /\ SeenPc' = "send"
  BY DEF TypeOK, SeenTold, SeenPc
<1> QED
  BY <1>2, <1>3 DEF Seen!Resend

\* A call that gives up, wherever it is.
LEMMA GivesUpSeen ==
    ASSUME TypeOK, TypeOK', op' = op, pc # "returned", pc' = "returned",
           result' \notin {"ok", "conflict"},
           UNCHANGED <<service, flying>> \/ (pc = "request" /\ Seen!Fate)
    PROVE  Seen!GivesUp
<1>1. SeenTold' = "error"
  BY DEF TypeOK, SeenTold
<1>2. Seen!Return("error")
  BY <1>1, ReturnSeen
<1>3. SeenPc # "returned" /\ (pc = "request" => SeenPc = "send")
  BY DEF SeenPc
<1>4. CASE UNCHANGED <<service, flying>>
  <2>1. UNCHANGED <<Seen!service, SeenLost>>
    BY <1>4 DEF service, Seen!service, SeenLost
  <2>2. Seen!Fate
    BY <2>1 DEF Seen!Fate
  <2> QED
    BY <1>2, <1>3, <2>1, <2>2, Zenon DEF Seen!GivesUp
<1>5. CASE pc = "request" /\ Seen!Fate
  BY <1>2, <1>3, <1>5, Zenon DEF Seen!GivesUp
<1> QED
  BY <1>4, <1>5

\* What becomes of a request without an answer.
LEMMA FateSeen ==
    ASSUME TypeOK, \/ Process /\ UNCHANGED flying
                   \/ UNCHANGED <<service, flying>>
                   \/ op \in Late /\ flying' = flying + 1 /\ UNCHANGED service
    PROVE  Seen!Fate
<1>1. CASE Process /\ UNCHANGED flying
  <2>1. UNCHANGED SeenLost
    BY <1>1 DEF SeenLost
  <2> QED
    BY <1>1, <2>1, ProcessSeen DEF Seen!Fate
<1>2. CASE UNCHANGED <<service, flying>>
  BY <1>2 DEF Seen!Fate, Seen!service, SeenLost, service
<1>3. CASE op \in Late /\ flying' = flying + 1 /\ UNCHANGED service
  <2>1. SeenLost'
    BY <1>3 DEF SeenLost, TypeOK
  <2>2. SeenLost' = TRUE
    BY <2>1, SeenTypes, Zenon
  <2> QED
    BY <1>3, <2>2 DEF Seen!Fate, Seen!service, service
<1> QED
  BY <1>1, <1>2, <1>3

\* Every request of the call is a step its caller may see.
LEMMA RequestSeen ==
    ASSUME TypeOK, TypeOK', PolicyInv, PolicyInv', NEW e \in Outcomes, Requested(e)
    PROVE  Seen!Next
<1>1. /\ pc = "request" /\ op' = op /\ SeenPc = "send" /\ SeenTold = "none"
      /\ attempt \in Nat \ {0} /\ UNCHANGED attempt
  <2>1. pc = "request" /\ op' = op /\ UNCHANGED attempt
    BY HandleSays DEF Requested
  <2> QED
    BY <2>1 DEF TypeOK, PolicyInv, SeenPc, SeenTold
<1>2. CASE pc' = "reconcile"
  <2>1. op = "insert" /\ e = "timeout" /\ result' = result
    BY <1>2, HandleSays DEF Requested
  <2>2. Seen!Fate
    <3>1. Verdict # "timeout"
      BY VerdictSays
    <3> QED
      BY <2>1, <3>1, FateSeen DEF Requested
  <2>3. SeenPc' = "reconcile" /\ UNCHANGED SeenTold
    BY <1>2, <2>1 DEF SeenPc, SeenTold
  <2>4. SeenAgain' <=> SeenAgain
    BY <1>1, <1>2 DEF SeenAgain
  <2>5. UNCHANGED SeenAgain
    BY <2>4, SeenTypes, Zenon
  <2>6. Seen!InsertUnanswered
    BY <1>1, <2>1, <2>2, <2>3, <2>5, Zenon DEF Seen!InsertUnanswered
  <2> QED
    BY <2>6, Zenon DEF Seen!Next
<1>3. CASE pc' # "reconcile"
  <2>1. PICK f \in {e, "ok"} :
           /\ f = e \/ (op = "delete" /\ e = "gone" /\ attempt > 1)
           /\ op = "insert" => e # "timeout"
           /\ (op = "delete" /\ attempt > 1) => f # "gone"
           /\ \/ pc' = "sleep" /\ f \in {"limited", "timeout"}
              \/ pc' = "returned" /\ result' = f
    BY <1>3, HandleSays DEF Requested
  <2>2. CASE e = "ok"
    <3>1. f = "ok" /\ pc' = "returned" /\ result' = "ok"
      BY <2>1, <2>2
    <3>2. Verdict = "ok" /\ Process /\ UNCHANGED flying
      BY <2>2 DEF Requested
    <3>3. Seen!Return("ok")
      BY <3>1, ReturnSeen DEF SeenTold
    <3>4. Seen!Effect /\ UNCHANGED SeenLost
      BY <3>2, ProcessSeen DEF SeenLost
    <3> QED
      BY <1>1, <3>3, <3>4, Zenon DEF Seen!Next, Seen!Succeeds
  <2>3. CASE e \in {"gone", "conflict"}
    <3>1. e = Verdict /\ Process /\ UNCHANGED flying
      BY <2>3 DEF Requested
    <3>2. UNCHANGED <<Seen!service, SeenLost>> /\ UNCHANGED <<service, flying>>
      BY <2>3, <3>1, ProcessSeen DEF SeenLost, Process
    <3>3. pc' = "returned" /\ result' = f
      BY <2>1, <2>3
    <3>4. CASE f = "conflict"
      <4>1. Seen!Return("conflict")
        BY <3>3, <3>4, ReturnSeen DEF SeenTold
      <4>2. Verdict = "conflict"
        BY <2>1, <2>3, <3>1, <3>4
      <4>3. op # "insert" /\ block > 0 /\ ~current
        BY <4>2 DEF Verdict, TypeOK
      <4> QED
        BY <1>1, <3>2, <4>1, <4>3, Zenon DEF Seen!Next, Seen!Conflicts
    <3>5. CASE f = "ok"
      <4>1. Seen!Return("ok")
        BY <3>3, <3>5, ReturnSeen DEF SeenTold
      <4>2. op = "delete" /\ e = "gone" /\ attempt > 1
        BY <2>1, <2>3, <3>5
      <4>3. block = 0 /\ SeenAgain
        BY <1>1, <3>1, <4>2, VerdictSays DEF SeenAgain
      <4> QED
        BY <1>1, <3>2, <4>1, <4>2, <4>3, Zenon DEF Seen!Next, Seen!FindsNothing
    <3>6. CASE f = "gone"
      <4>1. Seen!GivesUp
        BY <1>1, <3>2, <3>3, <3>6, GivesUpSeen
      <4> QED
        BY <4>1, Zenon DEF Seen!Next
    <3> QED
      BY <2>1, <2>3, <3>4, <3>5, <3>6
  <2>4. CASE e \in {"limited", "refused"}
    <3>1. UNCHANGED <<service, flying>>
      <4>1. Verdict \notin {"limited", "refused"}
        BY VerdictSays
      <4> QED
        BY <2>4, <4>1 DEF Requested
    <3>2. CASE pc' = "sleep"
      <4>1. Seen!Resend
        BY <1>1, <3>2, ResendSeen
      <4>2. UNCHANGED <<Seen!service, SeenLost>>
        BY <3>1 DEF service, Seen!service, SeenLost
      <4> QED
        BY <1>1, <4>1, <4>2, Zenon DEF Seen!Next, Seen!Refused
    <3>3. CASE pc' = "returned"
      <4>1. result' \notin {"ok", "conflict"}
        BY <2>1, <2>4, <3>3
      <4>2. Seen!GivesUp
        BY <1>1, <3>1, <3>3, <4>1, GivesUpSeen
      <4> QED
        BY <4>2, Zenon DEF Seen!Next
    <3> QED
      BY <2>1, <3>2, <3>3
  <2>5. CASE e \in {"timeout", "reset", "abandoned"}
    <3>1. Seen!Fate
      <4>1. Verdict \notin {"timeout", "reset", "abandoned"}
        BY VerdictSays
      <4> QED
        BY <2>5, <4>1, FateSeen DEF Requested
    <3>2. CASE pc' = "sleep"
      <4>1. op # "insert"
        BY <2>1, <2>5, <3>2
      <4>2. Seen!Resend
        BY <1>1, <3>2, ResendSeen
      <4> QED
        BY <1>1, <3>1, <4>1, <4>2, Zenon DEF Seen!Next, Seen!Unanswered
    <3>3. CASE pc' = "returned"
      <4>1. result' \notin {"ok", "conflict"}
        BY <2>1, <2>5, <3>3
      <4>2. Seen!GivesUp
        BY <1>1, <3>1, <3>3, <4>1, GivesUpSeen
      <4> QED
        BY <4>2, Zenon DEF Seen!Next
    <3> QED
      BY <2>1, <3>2, <3>3
  <2> QED
    BY <2>2, <2>3, <2>4, <2>5 DEF Outcomes, Answers
<1> QED
  BY <1>2, <1>3

\* Every step of the call, of the service and of the owner is one the caller may
\* see, or none.
LEMMA StepSeen ==
    ASSUME TypeOK, TypeOK', PolicyInv, PolicyInv', [Next]_vars
    PROVE  [Seen!Next]_Seen!vars
\* Attempts, waits and contexts are not seen.
<1>1. ASSUME UNCHANGED <<op, service, flying, result>>, SeenPc' = SeenPc, SeenAgain' <=> SeenAgain
      PROVE  UNCHANGED Seen!vars
  <2>1. UNCHANGED SeenAgain
    BY <1>1, SeenTypes, Zenon
  <2> QED
    BY <1>1, <2>1 DEF Seen!vars, Seen!service, service, SeenTold, SeenLost
<1>2. ASSUME op' = op, pc # "returned", pc' = "returned", result' \notin {"ok", "conflict"},
             UNCHANGED <<service, flying>>
      PROVE  Seen!Next
  <2>1. Seen!GivesUp
    BY <1>2, GivesUpSeen
  <2> QED
    BY <2>1, Zenon DEF Seen!Next
<1>3. CASE Begin
  <2>1. CASE ctx = "live"
    <3>1. SeenPc' = SeenPc /\ (SeenAgain' <=> SeenAgain)
      BY <1>3, <2>1 DEF Begin, SeenPc, SeenAgain, TypeOK
    <3> QED
      BY <1>1, <1>3, <2>1, <3>1 DEF Begin
  <2>2. CASE ctx # "live"
    BY <1>2, <1>3, <2>2 DEF Begin, Return
  <2> QED
    BY <2>1, <2>2
<1>4. ASSUME NEW e \in Outcomes, Requested(e) PROVE Seen!Next
  BY <1>4, RequestSeen
<1>5. CASE Reconcile
  <2>1. pc = "reconcile" /\ UNCHANGED <<op, service, flying>> /\ SeenPc = "reconcile" /\ block \in Nat
        /\ Outcome(IF block > 0 THEN "ok" ELSE "timeout")
    BY <1>5 DEF Reconcile, TypeOK, SeenPc
  <2>2. UNCHANGED <<Seen!service, SeenLost>>
    BY <2>1 DEF Seen!service, service, SeenLost
  <2>3. CASE block > 0
    <3>1. pc' = "returned" /\ result' = "ok"
      BY <2>1, <2>3, OutcomeSays
    <3>2. Seen!Return("ok")
      BY <3>1, ReturnSeen DEF SeenTold
    <3> QED
      BY <2>1, <2>2, <2>3, <3>2, Zenon DEF Seen!Next, Seen!Reconcile
  <2>4. CASE block = 0 /\ pc' = "sleep"
    <3>1. Seen!Resend /\ ~(block > 0)
      BY <2>1, <2>4, ResendSeen
    <3> QED
      BY <2>1, <2>2, <3>1, Zenon DEF Seen!Next, Seen!Reconcile
  <2>5. CASE block = 0 /\ pc' # "sleep"
    <3>1. pc' = "returned" /\ result' = "timeout"
      BY <2>1, <2>5, OutcomeSays
    <3> QED
      BY <1>2, <2>1, <3>1
  <2> QED
    BY <2>1, <2>3, <2>4, <2>5
<1>6. CASE ReconcileFails
  <2>1. pc = "reconcile" /\ pc' = "returned" /\ result' = "unknown" /\ UNCHANGED <<op, service, flying>>
    BY <1>6, OutcomeSays DEF ReconcileFails
  <2> QED
    BY <1>2, <2>1
<1>7. CASE SleepCut
  BY <1>2, <1>7 DEF SleepCut, Return
<1>8. ASSUME NEW wait \in 0..MaxBackoff, Sleep(wait) PROVE UNCHANGED Seen!vars
  <2>1. SeenPc' = SeenPc /\ (SeenAgain' <=> SeenAgain)
    BY <1>8 DEF Sleep, SeenPc, SeenAgain
  <2> QED
    BY <1>1, <1>8, <2>1 DEF Sleep
<1>9. CASE Arrive
  <2>1. SeenLost /\ SeenLost' \in BOOLEAN
    BY <1>9, SeenTypes DEF Arrive, SeenLost
  <2>2. Seen!Effect \/ UNCHANGED Seen!service
    BY <1>9, ProcessSeen DEF Arrive
  <2>3. UNCHANGED <<op, SeenPc, SeenAgain, SeenTold>>
    BY <1>9, Zenon DEF Arrive, SeenPc, SeenAgain, SeenTold
  <2> QED
    BY <2>1, <2>2, <2>3, Zenon DEF Seen!Next, Seen!Arrives
<1>10. CASE OwnerChanges \/ OwnerRemoves
  <2>1. block > 0 /\ block' \in {block, block - 1}
    BY <1>10 DEF OwnerChanges, OwnerRemoves, TypeOK
  <2>2. current' = FALSE
    BY <1>10, Zenon DEF OwnerChanges, OwnerRemoves
  <2>3. UNCHANGED <<op, SeenPc, SeenAgain, SeenTold, SeenLost>>
    BY <1>10, Zenon DEF OwnerChanges, OwnerRemoves, SeenPc, SeenAgain, SeenTold, SeenLost
  <2> QED
    BY <2>1, <2>2, <2>3, Zenon DEF Seen!Next, Seen!OwnerActs
<1>11. CASE UNCHANGED <<op, service, flying, result, pc, attempt>>
  BY <1>1, <1>11 DEF SeenPc, SeenAgain
<1>12. CASE (\E how \in {"expired", "cancelled"} : CtxDone(how)) \/ UNCHANGED vars
  BY <1>11, <1>12 DEF CtxDone, vars
<1> QED
  BY <1>3, <1>4, <1>5, <1>6, <1>7, <1>8, <1>9, <1>10, <1>12, NextSays DEF AfterRequest, Around

----------------------------------------------------------------------------

\* The inductive invariant: what is at the service whenever a request is made,
\* and what the attempts so far may have done.
THEOREM Invariant == Spec => []IInv
<1>1. IInv /\ [Next]_vars => IInv'
  BY TypeStep, InsertStep, ETagStep, DeleteStep, PolicyStep DEF IInv
<1> QED
  BY <1>1, InitInv, PTL DEF Spec

\* The requests of one update or delete change or remove the block once at most,
\* even if some of them arrive after the call gave up on them.
ChangedOnce == op # "insert" => applied <= 1

THEOREM AtMostOnce == Spec => []ChangedOnce
<1>1. IInv => ChangedOnce
  BY DEF IInv, ETagInv, ChangedOnce
<1> QED
  BY <1>1, Invariant, PTL

\* Retries create no second block as long as an insert that its client gave up
\* on is not applied after the lookup for it; the ETag alone does not help there.
THEOREM NoSecondBlock ==
    ASSUME "insert" \notin Late
    PROVE  Spec => []NoDuplicate
<1>1. IInv => NoDuplicate
  BY DEF IInv, ETagInv, InsertInv, NoDuplicate
<1> QED
  BY <1>1, Invariant, PTL

\* Under the same condition, an insert reports what it did, or that it cannot know.
THEOREM InsertReported ==
    ASSUME "insert" \notin Late
    PROVE  Spec => []InsertKnown
<1>1. IInv => InsertKnown
  BY DEF IInv, InsertKnown
<1> QED
  BY <1>1, Invariant, PTL

\* A delete never reports as a failure what it did itself, nor as its success
\* what the first attempt found gone.
THEOREM DeleteTrue == Spec => []DeleteReported
<1>1. IInv => DeleteReported
  BY DEF IInv
<1> QED
  BY <1>1, Invariant, PTL

\* No policy makes a call begin more attempts than it allows, or wait longer in
\* all than MaxBackoff between each two of them.
THEOREM WithinPolicy == Spec => []WithinCeilings
<1>1. IInv => WithinCeilings
  <2> SUFFICES ASSUME IInv PROVE WithinCeilings
    OBVIOUS
  <2> USE DEF IInv, PolicyInv, WithinCeilings
  <2>1. attempt \in Nat /\ waited \in Nat /\ Attempts \in Nat \ {0}
    BY AttemptsNat DEF TypeOK
  <2>2. CASE pc = "begin"
    <3>1. attempt * MaxBackoff <= (Attempts - 1) * MaxBackoff
      BY <2>1, <2>2, FewerWaits
    <3> QED
      BY <2>1, <2>2, <3>1, RetryAssumption
  <2>3. CASE pc \in {"request", "reconcile", "sleep"}
    <3>1. (attempt - 1) * MaxBackoff <= (Attempts - 1) * MaxBackoff
      BY <2>1, <2>3, FewerWaits
    <3> QED
      BY <2>1, <2>3, <3>1, RetryAssumption
  <2> QED
    BY <2>2, <2>3 DEF TypeOK
<1> QED
  BY <1>1, Invariant, PTL

\* A call is patient within bounds: its waits keep below their doubling ceilings,
\* too, for every policy and every number of attempts.
THEOREM Patient == Spec => []Patience
<1>1. Init => PatienceInv
  <2>1. Slept(0) \in Nat
    BY SleptGrows
  <2>2. Slept(0) = 0
    BY Pow2Def, RetryAssumption DEF Slept
  <2> QED
    BY <2>2 DEF Init, PatienceInv
<1>2. IInv /\ PatienceInv /\ [Next]_vars => PatienceInv'
  BY PatienceStep DEF IInv
<1>3. Spec => []PatienceInv
  BY <1>1, <1>2, Invariant, PTL DEF Spec
<1>4. IInv /\ PatienceInv /\ WithinCeilings => Patience
  <2> SUFFICES ASSUME IInv, PatienceInv, WithinCeilings PROVE waited <= Slept(Attempts - 1)
    BY DEF Patience, Slept
  <2>1. attempt \in Nat /\ waited \in Nat /\ Attempts \in Nat \ {0}
        /\ pc \in {"begin", "request", "reconcile", "sleep", "returned"}
    BY AttemptsNat DEF IInv, TypeOK
  <2>2. \E n \in 0..(Attempts - 1) : waited <= Slept(n)
    <3>1. CASE pc = "begin"
      <4>1. attempt \in 0..(Attempts - 1)
        BY <2>1, <3>1 DEF IInv, PolicyInv
      <4> QED
        BY <3>1, <4>1 DEF PatienceInv
    <3>2. CASE pc \in {"request", "reconcile", "sleep"}
      <4>1. attempt - 1 \in 0..(Attempts - 1)
        BY <2>1, <3>2 DEF IInv, PolicyInv
      <4> QED
        BY <3>2, <4>1 DEF PatienceInv
    <3>3. CASE pc = "returned"
      <4>1. Attempts - 1 \in 0..(Attempts - 1)
        BY <2>1
      <4> QED
        BY <3>3, <4>1 DEF PatienceInv
    <3> QED
      BY <2>1, <3>1, <3>2, <3>3
  <2>3. PICK n \in 0..(Attempts - 1) : waited <= Slept(n)
    BY <2>2
  <2>4. Slept(n) \in Nat /\ Slept(Attempts - 1) \in Nat /\ Slept(n) <= Slept(Attempts - 1)
    BY <2>1, SleptGrows
  <2> QED
    BY <2>1, <2>3, <2>4
<1> QED
  BY <1>3, <1>4, Invariant, WithinPolicy, PTL

\* The retry layer implements the call its callers rely on, whatever the policy,
\* the faults, the late requests and the owner's edits.
THEOREM CallKept == Spec => KeepsToCall
<1>1. Init => Seen!Init
  <2> SUFFICES ASSUME Init PROVE Seen!Init
    OBVIOUS
  <2>1. ~SeenAgain /\ ~SeenLost /\ SeenPc = "send" /\ SeenTold = "none"
    BY DEF Init, SeenAgain, SeenLost, SeenPc, SeenTold
  <2>2. SeenAgain = FALSE /\ SeenLost = FALSE
    BY <2>1, SeenTypes, Zenon
  <2> QED
    BY <2>1, <2>2, Zenon DEF Init, Seen!Init
<1>2. IInv /\ IInv' /\ [Next]_vars => [Seen!Next]_Seen!vars
  BY StepSeen DEF IInv
<1> QED
  BY <1>1, <1>2, Invariant, PTL DEF Spec, KeepsToCall, Seen!Spec

\* How many steps a call may still take: an attempt is a request, a lookup at
\* most, and a wait before the next one begins.
StepsLeft ==
    CASE pc = "returned"  -> 0
      [] pc = "begin"     -> 4 * (Attempts - attempt)
      [] pc = "sleep"     -> 4 * (Attempts - attempt) + 1
      [] pc = "reconcile" -> 4 * (Attempts - attempt) + 2
      [] pc = "request"   -> 4 * (Attempts - attempt) + 3

\* Every step of the call leaves fewer steps, and nobody else's step adds one.
FewerSteps ==
    /\ Call => StepsLeft' < StepsLeft
    /\ StepsLeft' <= StepsLeft

\* retry's loop ends: a call takes no more than four steps for each attempt,
\* whatever fails.  (That it takes them at all is Returns.)
THEOREM BoundedSteps == Spec => [](StepsLeft \in Nat) /\ [][FewerSteps]_vars
<1>1. IInv => StepsLeft \in Nat
  BY AttemptsNat DEF IInv, TypeOK, PolicyInv, WithinCeilings, StepsLeft
<1>2. IInv /\ IInv' /\ [Next]_vars => [FewerSteps]_vars
  <2> SUFFICES ASSUME IInv, IInv', [Next]_vars PROVE FewerSteps
    OBVIOUS
  <2>1. /\ Attempts \in Nat \ {0} /\ Attempts' = Attempts /\ attempt \in Nat /\ attempt' \in Nat
        /\ pc \in {"begin", "request", "reconcile", "sleep", "returned"}
        /\ pc = "begin" => attempt < Attempts
        /\ pc # "returned" => attempt <= Attempts
    BY AttemptsNat DEF IInv, TypeOK, PolicyInv, Attempts
  <2>2. CASE Begin
    BY <2>1, <2>2 DEF FewerSteps, StepsLeft, Begin, Return
  <2>3. ASSUME pc \in {"request", "reconcile", "sleep"}, attempt' = attempt,
               \/ pc' = "returned"
               \/ pc = "request" /\ pc' \in {"reconcile", "sleep"}
               \/ pc = "reconcile" /\ pc' = "sleep"
               \/ pc = "sleep" /\ pc' = "begin"
        PROVE  FewerSteps
    BY <2>1, <2>3 DEF FewerSteps, StepsLeft
  <2>4. ASSUME NEW e \in Outcomes, Requested(e) PROVE FewerSteps
    <3>1. pc = "request" /\ attempt' = attempt /\ pc' \in {"reconcile", "sleep", "returned"}
      BY <2>4, HandleSays DEF Requested
    <3> QED
      BY <2>3, <3>1
  <2>5. CASE AfterRequest
    <3>1. CASE Reconcile \/ ReconcileFails
      <4>1. pc = "reconcile" /\ attempt' = attempt /\ pc' \in {"sleep", "returned"}
        BY <3>1, OutcomeSays DEF Reconcile, ReconcileFails
      <4> QED
        BY <2>3, <4>1
    <3>2. CASE SleepCut \/ \E wait \in 0..MaxBackoff : Sleep(wait)
      BY <2>3, <3>2 DEF SleepCut, Sleep, Return
    <3> QED
      BY <2>5, <3>1, <3>2 DEF AfterRequest
  <2>6. CASE Call
    BY <2>2, <2>4, <2>5, <2>6, CallSays DEF IInv
  <2>7. CASE ~Call
    <3>1. Around \/ UNCHANGED vars
      BY <2>7, Zenon DEF Next, Around
    <3>2. UNCHANGED <<pc, attempt>>
      BY <3>1 DEF Around, CtxDone, Arrive, OwnerChanges, OwnerRemoves, vars
    <3>3. StepsLeft' = StepsLeft /\ StepsLeft \in Nat
      BY <1>1, <2>1, <3>2 DEF StepsLeft
    <3> QED
      BY <2>7, <3>3 DEF FewerSteps
  <2> QED
    BY <2>6, <2>7
<1> QED
  BY <1>1, <1>2, Invariant, PTL DEF Spec
=============================================================================
