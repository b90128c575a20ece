------------------------------ MODULE Calendar ------------------------------
(***************************************************************************)
(* The calendars behind the configured accounts, with the operations the   *)
(* engine has on them (internal/sync/client.go) and the edits their owners *)
(* make meanwhile.  The service itself is external: its behaviour is what  *)
(* client.go relies on, an atomic effect per request and an If-Match       *)
(* precondition on the ETag of an earlier read.                            *)
(***************************************************************************)
EXTENDS Events, Naturals, FiniteSets

CONSTANTS
    Clients,    \* the sync passes that may run against the calendars
    NoId,       \* "no event": a lookup that found nothing
    Window,     \* the spans that overlap [now - 24h, now + LookaheadDays)
    Accounts,   \* the names in config.yaml at first
    Existing,   \* the events that exist before the first pass
    NewIds(_),  \* of a set of unused IDs, those the service may give an event
    Edits,      \* the kinds of edits the calendars' owners make
    MaxEdits    \* bound: how many edits they make

ASSUME CalendarAssumption ==
    /\ NoId \notin Ids
    /\ Window \subseteq Spans
    /\ Accounts \subseteq Names
    /\ Existing \subseteq Ids
    /\ \A S \in SUBSET Ids : NewIds(S) \subseteq S
    /\ MaxEdits \in Nat

VARIABLES
    config, \* the names the calendars have in config.yaml
    cal,    \* cal[i]: the event with ID i, on whichever calendar it lies
    etag,   \* etag[c]: the events unchanged since client c read their ETag
    edits   \* how many edits the owners have made

calVars == <<config, cal, etag, edits>>

----------------------------------------------------------------------------
\* The IDs an event may get now.
Fresh == NewIds({i \in Ids : cal[i].state = "unused"})

(* The operations of CalendarClient. *)

ListEvents(a) == {i \in Ids : Live(cal[i]) /\ cal[i].acct = a /\ cal[i].span \in Window}

\* The possible answers: any of the blocks that match, wherever they lie in
\* time (the service documents no order), or "nothing".
FindBlockBySource(d, src) ==
    LET found == {i \in Ids : Mirrors(cal[i], d, src)}
    IN  IF found = {} \/ src = NoSource THEN {NoId} ELSE found

\* Event i becomes e: the ETags of i that any client holds are out of date.
Store(i, e) ==
    /\ cal' = [cal EXCEPT ![i] = e]
    /\ etag' = [c \in Clients |-> etag[c] \ {i}]

InsertEvent(e) == \E i \in Fresh : Store(i, e)

\* Client c reads event i, and with it its current ETag.  That of a deleted
\* event lets no write through.
ReadETag(c, i) ==
    etag' = [etag EXCEPT ![c] = IF Live(cal[i]) THEN @ \cup {i} ELSE @ \ {i}]

\* A write with If-Match: the service applies it only if the ETag is current.
Matches(c, i) == i \in etag[c]

\* A seeded fault: an update without If-Match.
UpdateUnconditionally(c, i, s) == Store(i, [cal[i] EXCEPT !.span = s])

UpdateEvent(c, i, s) == Matches(c, i) /\ Store(i, [cal[i] EXCEPT !.span = s])

DeleteEvent(c, i) == Matches(c, i) /\ Store(i, Gone)

----------------------------------------------------------------------------
(* The calendars' owners.  They see blocks as well as events, and edit     *)
(* both; only an API client can change tags ("untag", "mangle").           *)

Edit(kind) == kind \in Edits /\ edits < MaxEdits /\ edits' = edits + 1

OwnerAdds == \E i \in Fresh, a \in config, s \in Spans :
    /\ Edit("add")
    /\ Store(i, RealEvent(a, s, TRUE))

OwnerMoves(i, s) ==
    /\ Edit("move")
    /\ Live(cal[i]) /\ cal[i].span # s
    /\ Store(i, [cal[i] EXCEPT !.span = s])

\* Marks an event or a block Free, or declines it, or takes that back.
OwnerFrees(i) ==
    /\ Edit("free")
    /\ Live(cal[i])
    /\ Store(i, [cal[i] EXCEPT !.busy = ~@])

OwnerDeletes(i) ==
    /\ Edit("delete")
    /\ Live(cal[i])
    /\ Store(i, Gone)

\* A block loses its tags, and is a real event from now on.
OwnerUntags(i) ==
    /\ Edit("untag")
    /\ IsOwnedBlock(cal[i])
    /\ Store(i, [cal[i] EXCEPT !.owner = FALSE, !.source = NoSource])

\* A block keeps the owner tag and loses a part of its source identity.
OwnerMangles(i) ==
    /\ Edit("mangle")
    /\ IsOwnedBlock(cal[i]) /\ HasIdentity(cal[i])
    /\ Store(i, [cal[i] EXCEPT !.source = NoSource])

\* "Duplicate" in the calendar's web page: the copy carries the same tags.
OwnerCopies(i) ==
    /\ Edit("copy")
    /\ Live(cal[i])
    /\ \E j \in Fresh : Store(j, cal[i])

OwnerEdits ==
    \/ OwnerAdds
    \/ \E i \in Ids :
          \/ \E s \in Spans : OwnerMoves(i, s)
          \/ OwnerFrees(i)
          \/ OwnerDeletes(i)
          \/ OwnerUntags(i)
          \/ OwnerMangles(i)
          \/ OwnerCopies(i)

OwnersAct == OwnerEdits /\ UNCHANGED config

CalendarInit ==
    /\ \E on \in [Existing -> Accounts], at \in [Existing -> Spans] :
          cal = [i \in Ids |-> IF i \in Existing THEN RealEvent(on[i], at[i], TRUE)
                               ELSE Unused]
    /\ config = Accounts
    /\ etag = [c \in Clients |-> {}]
    /\ edits = 0

CalendarTypeOK ==
    /\ config \in SUBSET Names
    /\ cal \in [Ids -> Event]
    /\ etag \in [Clients -> SUBSET Ids]
    /\ edits \in 0..MaxEdits
=============================================================================
