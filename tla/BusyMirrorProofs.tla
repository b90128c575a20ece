-------------------------- MODULE BusyMirrorProofs --------------------------
(***************************************************************************)
(* What follows from the promise of BusyMirror alone, for every set of     *)
(* names, events and spans.                                                *)
(***************************************************************************)
EXTENDS BusyMirror, TLAPS

\* No event lies on, or names, an account whose name is not given yet: that is
\* what Rename requires, so the invariants need not say it.
MInv == cal \in [Ids -> Event] /\ UniqueBlocks(cal) /\ NoEchoes(cal)

\* A block whose owner tag, account and source are those of the old event, or
\* that is none at all, disturbs neither property.
LEMMA KeepsBoth ==
    ASSUME MInv, NEW i \in Ids, NEW e \in Event, cal' = [cal EXCEPT ![i] = e],
           (IsOwnedBlock(e) /\ HasIdentity(e)) =>
               IsOwnedBlock(cal[i]) /\ e.acct = cal[i].acct /\ e.source = cal[i].source
    PROVE  MInv'
<1>1. cal' \in [Ids -> Event] /\ cal'[i] = e /\ \A j \in Ids \ {i} : cal'[j] = cal[j]
  BY DEF MInv
<1>2. \A j \in Ids : IsOwnedBlock(cal'[j]) /\ HasIdentity(cal'[j]) =>
         IsOwnedBlock(cal[j]) /\ cal'[j].acct = cal[j].acct /\ cal'[j].source = cal[j].source
  BY <1>1
<1>3. UniqueBlocks(cal')
  BY <1>2 DEF MInv, UniqueBlocks, Mirrors, HasIdentity
<1>4. NoEchoes(cal')
  BY <1>2 DEF MInv, NoEchoes, HasIdentity
<1> QED
  BY <1>1, <1>3, <1>4 DEF MInv

LEMMA CreateKeeps ==
    ASSUME MInv, NEW i \in Ids, NEW d \in Names, NEW src \in Names \X Ids, NEW span \in Spans,
           Create(i, d, src, span)
    PROVE  MInv'
<1> DEFINE b == Block(d, span, src)
<1>1. b \in Event /\ b.acct = d /\ b.source = src
  BY DEF Block, Event, Source
<1>2. cal' \in [Ids -> Event] /\ cal'[i] = b /\ \A j \in Ids \ {i} : cal'[j] = cal[j]
  BY <1>1 DEF MInv, Create
<1>3. UniqueBlocks(cal')
  <2>1. \A j \in Ids : ~Mirrors(cal[j], d, src)
    BY DEF Create
  <2> SUFFICES ASSUME NEW j \in Ids, NEW k \in Ids, j # k,
                      IsOwnedBlock(cal'[j]), HasIdentity(cal'[j])
               PROVE  ~Mirrors(cal'[k], cal'[j].acct, cal'[j].source)
    BY DEF UniqueBlocks
  <2>2. CASE j = i
    BY <1>1, <1>2, <2>1, <2>2
  <2>3. CASE k = i
    BY <1>1, <1>2, <2>1, <2>3 DEF Mirrors
  <2>4. CASE j # i /\ k # i
    BY <1>2, <2>4 DEF MInv, UniqueBlocks
  <2> QED
    BY <2>2, <2>3, <2>4
<1>4. NoEchoes(cal')
  BY <1>1, <1>2 DEF MInv, NoEchoes, Create
<1> QED
  BY <1>2, <1>3, <1>4 DEF MInv

LEMMA RenameKeeps ==
    ASSUME MInv, NEW a \in Names, NEW b \in Names, Rename(a, b)
    PROVE  MInv'
<1>1. \A i \in Ids :
         /\ cal'[i] = IF Live(cal[i]) /\ cal[i].acct = a THEN [cal[i] EXCEPT !.acct = b] ELSE cal[i]
         /\ cal[i] \in Event
         /\ Live(cal[i]) => cal[i].acct # b
         /\ HasIdentity(cal[i]) => cal[i].source[1] # b
  BY DEF MInv, Rename, Renamed
<1>2. ASSUME NEW i \in Ids
      PROVE  /\ cal'[i] \in Event
             /\ Live(cal'[i]) <=> Live(cal[i])
             /\ cal'[i].owner = cal[i].owner /\ cal'[i].source = cal[i].source
             /\ Live(cal[i]) => cal'[i].acct = IF cal[i].acct = a THEN b ELSE cal[i].acct
  <2>1. CASE Live(cal[i]) /\ cal[i].acct = a
    <3>1. cal'[i] = [cal[i] EXCEPT !.acct = b] /\ cal[i] \in Event
      BY <1>1, <2>1
    <3>2. /\ cal'[i] \in Event /\ cal'[i].state = cal[i].state /\ cal'[i].acct = b
          /\ cal'[i].owner = cal[i].owner /\ cal'[i].source = cal[i].source
      BY <3>1 DEF Event
    <3> QED
      BY <2>1, <3>2 DEF Live
  <2>2. CASE ~(Live(cal[i]) /\ cal[i].acct = a)
    <3>1. cal'[i] = cal[i]
      BY <1>1, <2>2
    <3> QED
      BY <1>1, <2>2, <3>1
  <2> QED
    BY <2>1, <2>2
<1>3. cal' \in [Ids -> Event]
  <2>1. cal' = [i \in Ids |-> cal'[i]]
    BY DEF Rename, Renamed
  <2> QED
    BY <1>2, <2>1
<1>4. UniqueBlocks(cal')
  <2> SUFFICES ASSUME NEW j \in Ids, NEW k \in Ids, j # k,
                      IsOwnedBlock(cal'[j]), HasIdentity(cal'[j]),
                      Mirrors(cal'[k], cal'[j].acct, cal'[j].source)
               PROVE  FALSE
    BY DEF UniqueBlocks
  <2>1. /\ IsOwnedBlock(cal[j]) /\ IsOwnedBlock(cal[k]) /\ HasIdentity(cal[j])
        /\ cal[k].source = cal[j].source /\ cal'[k].acct = cal'[j].acct
    BY <1>2 DEF IsOwnedBlock, HasIdentity, Mirrors
  <2>2. cal[k].acct = cal[j].acct
    BY <1>1, <1>2, <2>1 DEF IsOwnedBlock
  <2> QED
    BY <2>1, <2>2 DEF MInv, UniqueBlocks, Mirrors
<1>5. NoEchoes(cal')
  <2> SUFFICES ASSUME NEW j \in Ids, IsOwnedBlock(cal'[j]), HasIdentity(cal'[j])
               PROVE  cal'[j].source[1] # cal'[j].acct
    BY DEF NoEchoes
  <2>1. IsOwnedBlock(cal[j]) /\ HasIdentity(cal[j]) /\ Live(cal[j])
    BY <1>2 DEF IsOwnedBlock, HasIdentity
  <2>2. cal[j].source[1] # cal[j].acct /\ cal[j].source[1] # b
    BY <1>1, <2>1 DEF MInv, NoEchoes
  <2> QED
    BY <1>2, <2>1, <2>2
<1> QED
  BY <1>3, <1>4, <1>5 DEF MInv

LEMMA MirrorStep ==
    ASSUME MInv, Spare \subseteq Names, [Next]_<<cal, edits>>
    PROVE  MInv'
<1>1. ASSUME NEW i \in Ids, NEW span \in Spans, Move(i, span) PROVE MInv'
  <2>1. cal' = [cal EXCEPT ![i] = [cal[i] EXCEPT !.span = span]] /\ cal[i] \in Event
    BY <1>1 DEF Move, MInv
  <2>2. /\ [cal[i] EXCEPT !.span = span] \in Event
        /\ [cal[i] EXCEPT !.span = span].acct = cal[i].acct
        /\ [cal[i] EXCEPT !.span = span].source = cal[i].source
    BY <2>1 DEF Event
  <2> QED
    BY <1>1, <2>1, <2>2, KeepsBoth DEF Move
<1>2. ASSUME NEW i \in Ids, Remove(i) PROVE MInv'
  <2>1. Gone \in Event /\ ~IsOwnedBlock(Gone)
    <3>1. cal[i] \in Event
      BY DEF MInv
    <3>2. Unused.acct \in Names /\ Unused.span \in Spans
      BY EventsAssumption DEF Unused
    <3> QED
      BY <3>2 DEF Gone, Unused, Event, Source, IsOwnedBlock, Live
  <2> QED
    BY <1>2, <2>1, KeepsBoth DEF Remove
<1>3. ASSUME NEW i \in Ids, NEW e \in Event, OwnerEdits(i, e) PROVE MInv'
  BY <1>3, KeepsBoth DEF OwnerEdits, HasIdentity
<1>4. CASE UNCHANGED <<cal, edits>>
  BY <1>4 DEF MInv
<1> QED
  BY <1>1, <1>2, <1>3, <1>4, CreateKeeps, RenameKeeps DEF Next

\* Whatever the owners do, and whichever accounts are renamed: a source event
\* has at most one block on a calendar, and no block mirrors an event of the
\* calendar it lies on.
THEOREM MirrorKeeps == (Spare \subseteq Names) => (Spec => [](UniqueBlocks(cal) /\ NoEchoes(cal)))
<1> SUFFICES ASSUME Spare \subseteq Names PROVE Spec => [](UniqueBlocks(cal) /\ NoEchoes(cal))
  OBVIOUS
<1>1. Init => MInv
  BY DEF Init, MInv, UniqueBlocks, NoEchoes, IsOwnedBlock
<1>2. MInv /\ [Next]_<<cal, edits>> => MInv'
  BY MirrorStep
<1>3. MInv => UniqueBlocks(cal) /\ NoEchoes(cal)
  BY DEF MInv
<1> QED
  BY <1>1, <1>2, <1>3, PTL DEF Spec
=============================================================================
