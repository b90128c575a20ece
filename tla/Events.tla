------------------------------- MODULE Events -------------------------------
(***************************************************************************)
(* Calendar events as internal/sync sees them, after the conversions of    *)
(* googleProvider and providerClient.                                      *)
(*                                                                         *)
(* A real event and a busy block are the same kind of thing, an event; all *)
(* that tells them apart is the owner tag, and an untagged block is a real *)
(* event from then on.  An event's Start, End and, for a block, title are  *)
(* one value, its span: the engine only ever compares them for equality.   *)
(* An event's account is the name its calendar has in config.yaml.         *)
(***************************************************************************)
CONSTANTS
    Names,      \* names an account may carry in config.yaml
    Ids,        \* event IDs the service hands out, never reused
    Spans,      \* time spans (with the title, for a block)
    NoSource    \* "no complete source identity" in an event's properties

ASSUME EventsAssumption ==
    Names # {} /\ Spans # {} /\ NoSource \notin Names \X Ids

Source == (Names \X Ids) \cup {NoSource}

Event == [state: {"unused", "live", "gone"}, acct: Names, span: Spans,
          busy: BOOLEAN, owner: BOOLEAN, source: Source]

Unused == [state |-> "unused", acct |-> CHOOSE a \in Names : TRUE,
           span |-> CHOOSE s \in Spans : TRUE,
           busy |-> FALSE, owner |-> FALSE, source |-> NoSource]

Gone == [Unused EXCEPT !.state = "gone"]

\* A real event: what a person puts in a calendar.
RealEvent(a, s, b) == [state |-> "live", acct |-> a, span |-> s,
                       busy |-> b, owner |-> FALSE, source |-> NoSource]

\* A block as ensureBlock and InsertBlock build it: all four tags, opaque.
Block(a, s, src) == [state |-> "live", acct |-> a, span |-> s,
                     busy |-> TRUE, owner |-> TRUE, source |-> src]

Live(e) == e.state = "live"

IsOwnedBlock(e) == Live(e) /\ e.owner

HasIdentity(e) == e.source # NoSource

\* A real event that is neither marked Free nor declined by its owner.
BlocksTime(e) == Live(e) /\ ~e.owner /\ e.busy

\* e is a block on account d mirroring source identity src.
Mirrors(e, d, src) == IsOwnedBlock(e) /\ e.acct = d /\ e.source = src

\* The calendar of account a is called b from now on; tags keep the old name.
Renamed(c, a, b) == [i \in Ids |-> IF Live(c[i]) /\ c[i].acct = a
                                   THEN [c[i] EXCEPT !.acct = b] ELSE c[i]]

----------------------------------------------------------------------------
(* Two things that may be said of calendars c. *)

\* One source event has at most one block on a calendar.
UniqueBlocks(c) == \A i, j \in Ids :
    (i # j /\ IsOwnedBlock(c[i]) /\ HasIdentity(c[i]))
        => ~Mirrors(c[j], c[i].acct, c[i].source)

\* No block mirrors an event of the calendar it lies on.
NoEchoes(c) == \A i \in Ids :
    IsOwnedBlock(c[i]) /\ HasIdentity(c[i]) => c[i].source[1] # c[i].acct
=============================================================================
