------------------------------ MODULE WriteCall ------------------------------
(***************************************************************************)
(* What a caller of retryingClient (internal/sync/retrying_client.go) may  *)
(* rely on: one call to insert, update or delete a block, as SyncEngine    *)
(* has it between the lookup before the call and its return.  A request    *)
(* takes effect at most as often as the ETag allows, an insert whose       *)
(* answer is missing is looked up before anything else happens, and what   *)
(* is not known is an error.  How often a request is repeated, how long    *)
(* the call waits and why it gives up are left open.                       *)
(*                                                                         *)
(* The actions are SyncEngine's, whose names the comments give.            *)
(***************************************************************************)
EXTENDS Integers

CONSTANTS
    Ops,        \* what may be called
    Late        \* calls whose requests may arrive after their client gave up

VARIABLES
    op,         \* what is called
    block,      \* at the service: how many blocks there are for the source
    current,    \* whether the caller's ETag is the block's
    pc,         \* "send", "reconcile" or "returned"
    again,      \* whether the request to send is a retry
    told,       \* what the caller learns
    lost        \* whether a request given up on may still arrive

service == <<block, current>>
vars == <<op, service, pc, again, told, lost>>

Return(r) == pc' = "returned" /\ told' = r /\ again' = FALSE

Resend == pc' = "send" /\ again' = TRUE /\ UNCHANGED told

Init ==
    /\ op \in Ops
    /\ block = (IF op = "insert" THEN 0 ELSE 1)
    /\ current = (op # "insert")
    /\ pc = "send" /\ again = FALSE /\ told = "none" /\ lost = FALSE

\* The request does what it asks for, with the ETag the caller read.
Effect ==
    /\ op # "insert" => block > 0 /\ current
    /\ block' = CASE op = "insert" -> block + 1
                  [] op = "update" -> block
                  [] op = "delete" -> block - 1
    /\ current' = FALSE

\* What becomes of a request that is not answered.
Fate ==
    \/ Effect /\ UNCHANGED lost
    \/ UNCHANGED <<service, lost>>
    \/ op \in Late /\ lost' = TRUE /\ UNCHANGED service

\* Post, Put, Delete.
Succeeds ==
    /\ pc = "send"
    /\ Effect
    /\ Return("ok")
    /\ UNCHANGED <<op, lost>>

\* PutConflict, DeleteConflict.
Conflicts ==
    /\ pc = "send" /\ op # "insert"
    /\ block > 0 /\ ~current
    /\ Return("conflict")
    /\ UNCHANGED <<op, service, lost>>

\* DeleteFindsNothing: the retry of a delete has what it wants.
FindsNothing ==
    /\ pc = "send" /\ op = "delete" /\ again
    /\ block = 0
    /\ Return("ok")
    /\ UNCHANGED <<op, service, lost>>

\* A busy service: nothing has happened, and the request is sent again.
Refused ==
    /\ pc = "send"
    /\ Resend
    /\ UNCHANGED <<op, service, lost>>

\* PutUnanswered, DeleteUnanswered: the ETag makes it safe to send them again.
Unanswered ==
    /\ pc = "send" /\ op # "insert"
    /\ Fate
    /\ Resend
    /\ UNCHANGED op

\* PostUnanswered: an insert is not sent again before it was looked up.
InsertUnanswered ==
    /\ pc = "send" /\ op = "insert"
    /\ Fate
    /\ pc' = "reconcile"
    /\ UNCHANGED <<op, again, told>>

\* Reconcile.
Reconcile ==
    /\ pc = "reconcile"
    /\ IF block > 0 THEN Return("ok") ELSE Resend
    /\ UNCHANGED <<op, service, lost>>

\* PostRefused, PutRefused, DeleteRefused, FindFails: the caller learns nothing
\* but an error, after a request that the service may have carried out.
GivesUp ==
    /\ pc # "returned"
    /\ IF pc = "send" THEN Fate ELSE UNCHANGED <<service, lost>>
    /\ Return("error")
    /\ UNCHANGED op

\* A request that its client gave up on arrives.
Arrives ==
    /\ lost /\ lost' \in BOOLEAN
    /\ Effect \/ UNCHANGED service
    /\ UNCHANGED <<op, pc, again, told>>

\* The calendar's owner changes the block or removes it.
OwnerActs ==
    /\ block > 0 /\ block' \in {block, block - 1}
    /\ current' = FALSE
    /\ UNCHANGED <<op, pc, again, told, lost>>

Next ==
    \/ Succeeds \/ Conflicts \/ FindsNothing \/ Refused
    \/ Unanswered \/ InsertUnanswered \/ Reconcile \/ GivesUp
    \/ Arrives \/ OwnerActs

Spec == Init /\ [][Next]_vars
=============================================================================
