---------------------------- MODULE MCSyncEngine ----------------------------
(***************************************************************************)
(* Instances of SyncEngine small enough for TLC: two or three accounts,    *)
(* one event to begin with and IDs for the blocks it may get, two spans in *)
(* the fetch window and one beyond it.                                     *)
(***************************************************************************)
EXTENDS SyncHistory

CONSTANTS A, B, C, i1, i2, i3, i4, i5, i6, p1, p2

MCWindow == {"t1", "t2"}
MCSpans == MCWindow \cup {"far"}

\* One unused ID is as good as another: the service gives the same one each time.
MCNewIds(S) == IF S = {} THEN {} ELSE {CHOOSE i \in S : TRUE}
=============================================================================
