----------------------------- MODULE BusyMirror -----------------------------
(***************************************************************************)
(* What the sync engine promises of the calendars it writes to, with every *)
(* write one atomic step and nothing of how it is done: no listings, no    *)
(* retries, no ETags, no crashes.  The calendars' owners may do anything   *)
(* but give an event tags it did not have.                                 *)
(***************************************************************************)
EXTENDS Events, Naturals

CONSTANT Spare      \* names an account may be given later, never used before

VARIABLES
    cal,    \* the events
    edits   \* how often the owners have changed them

\* A block for source src appears on account d: another account, without one.
Create(i, d, src, span) ==
    /\ cal[i].state = "unused"
    /\ cal' = [cal EXCEPT ![i] = Block(d, span, src)]
    /\ src[1] # d
    /\ \A j \in Ids : ~Mirrors(cal[j], d, src)
    /\ UNCHANGED edits

\* Only the engine's own blocks are moved or removed.
Move(i, span) ==
    /\ IsOwnedBlock(cal[i])
    /\ cal' = [cal EXCEPT ![i].span = span]
    /\ UNCHANGED edits

Remove(i) ==
    /\ IsOwnedBlock(cal[i])
    /\ cal' = [cal EXCEPT ![i] = Gone]
    /\ UNCHANGED edits

OwnerEdits(i, e) ==
    /\ edits' = edits + 1
    /\ IsOwnedBlock(e) => /\ IsOwnedBlock(cal[i])
                          /\ e.acct = cal[i].acct
                          /\ e.source \in {cal[i].source, NoSource}
    /\ cal' = [cal EXCEPT ![i] = e]

Rename(a, b) ==
    /\ edits' = edits + 1
    /\ \A i \in Ids : /\ Live(cal[i]) => cal[i].acct # b
                      /\ HasIdentity(cal[i]) => cal[i].source[1] # b
    /\ cal' = Renamed(cal, a, b)

Init ==
    /\ cal \in [Ids -> Event] /\ edits = 0
    /\ \A i \in Ids : Live(cal[i]) => ~cal[i].owner /\ cal[i].source = NoSource

Next ==
    \/ \E i \in Ids : Live(cal'[i]) /\ \E d \in Names, src \in Names \X Ids, span \in Spans :
          Create(i, d, src, span)
    \/ \E i \in Ids, span \in Spans : Move(i, span)
    \/ \E i \in Ids : Remove(i)
    \/ \E i \in Ids : cal'[i] \in Event /\ OwnerEdits(i, cal'[i])
    \/ \E a \in Names, b \in Spare : Rename(a, b)

Spec == Init /\ [][Next]_<<cal, edits>>
=============================================================================
