-------------------------- MODULE AtomicFileProofs --------------------------
(***************************************************************************)
(* Write keeps the promise of SafeFile, for any writers, however their     *)
(* calls interleave, fail and are cut short.                               *)
(***************************************************************************)
EXTENDS AtomicFile, TLAPS

LEMMA FileInitially == FileInit => FileInv
BY FileAssumption DEF FileInit, FileInv, FileTypeOK, OnlyWhole, NoFile, File, Steps

\* A call that ends, or is cut short, leaves the path alone.
LEMMA CallsOver ==
    ASSUME FileInv, NEW ws \in SUBSET Writers, UNCHANGED <<entry, kept>>,
           step' = [w \in Writers |-> IF w \in ws THEN "idle" ELSE step[w]],
           given' = [w \in Writers |-> IF w \in ws THEN Nothing ELSE given[w]],
           tmp' = [w \in Writers |-> IF w \in ws THEN NoFile ELSE tmp[w]]
    PROVE  FileInv'
<1>1. FileTypeOK'
  BY DEF FileInv, FileTypeOK, NoFile, File, Steps
<1>2. OnlyWhole'
  BY FileAssumption DEF FileInv, FileTypeOK, OnlyWhole
<1> QED
  BY <1>1, <1>2 DEF FileInv

LEMMA ReturnIsOver ==
    ASSUME FileInv, NEW w \in Writers, Return(w, Nothing)
    PROVE  /\ step' = [x \in Writers |-> IF x \in {w} THEN "idle" ELSE step[x]]
           /\ given' = [x \in Writers |-> IF x \in {w} THEN Nothing ELSE given[x]]
           /\ tmp' = [x \in Writers |-> IF x \in {w} THEN NoFile ELSE tmp[x]]
BY DEF Return, FileInv, FileTypeOK

\* What a loss of power leaves is one of the files the path might name.
LEMMA LossLeaves ==
    ASSUME FileInv, PowerLost
    PROVE  entry' \in kept /\ kept' = {entry'}
<1>1. PICK f \in kept : \E g \in AfterLoss(f) : entry' = [g EXCEPT !.solid = TRUE] /\ kept' = {entry'}
  BY DEF PowerLost
<1>2. f \in File /\ f.solid
  BY DEF FileInv, FileTypeOK, OnlyWhole
<1>3. AfterLoss(f) = {f} /\ [f EXCEPT !.solid = TRUE] = f
  BY <1>2 DEF AfterLoss, File
<1> QED
  BY <1>1, <1>3

LEMMA FileStep ==
    ASSUME FileInv, [FileNext]_fileVars
    PROVE  FileInv'
<1> USE FileAssumption DEF FileInv, FileTypeOK, OnlyWhole, Steps
<1>1. ASSUME NEW w \in Writers, NEW v \in Contents, CreateTemp(w, v) PROVE FileInv'
  <2>1. [holds |-> Torn, solid |-> FALSE] \in File
    BY DEF File
  <2> QED
    BY <1>1, <2>1 DEF CreateTemp, Advance
<1>2. ASSUME NEW w \in Writers, WriteData(w) PROVE FileInv'
  <2>1. given[w] \in Contents /\ [tmp[w] EXCEPT !.holds = given[w]] \in File
    BY <1>2 DEF WriteData, Advance, File
  <2>2. [tmp[w] EXCEPT !.holds = given[w]].holds = given[w]
    BY DEF File
  <2>3. tmp' = [tmp EXCEPT ![w] = [tmp[w] EXCEPT !.holds = given[w]]]
    BY <1>2 DEF WriteData
  <2> QED
    BY <1>2, <2>1, <2>2, <2>3 DEF WriteData, Advance
<1>3. ASSUME NEW w \in Writers, SyncData(w) PROVE FileInv'
  <2>1. /\ [tmp[w] EXCEPT !.solid = TRUE] \in File
        /\ [tmp[w] EXCEPT !.solid = TRUE].solid
        /\ [tmp[w] EXCEPT !.solid = TRUE].holds = tmp[w].holds
    BY DEF File
  <2>2. tmp' = [tmp EXCEPT ![w] = [tmp[w] EXCEPT !.solid = TRUE]]
    BY <1>3 DEF SyncData
  <2> QED
    BY <1>3, <2>1, <2>2 DEF SyncData, Advance
<1>4. ASSUME NEW w \in Writers, RenameTemp(w) PROVE FileInv'
  <2>1. tmp[w] \in File /\ tmp[w].solid /\ tmp[w].holds \in Contents /\ NoFile \in File
    BY <1>4 DEF RenameTemp, Advance, NoFile, File
  <2> QED
    BY <1>4, <2>1 DEF RenameTemp, Advance
<1>5. ASSUME NEW w \in Writers, WriteFails(w) PROVE FileInv'
  <2>1. Return(w, Nothing) /\ UNCHANGED <<entry, kept>> /\ {w} \in SUBSET Writers
    BY <1>5 DEF WriteFails
  <2> QED
    BY <2>1, ReturnIsOver, CallsOver
<1>6. ASSUME NEW w \in Writers, SyncDir(w) PROVE FileInv'
  <2>1. step' = [x \in Writers |-> IF x = w THEN "idle" ELSE step[x]]
    BY <1>6 DEF SyncDir, Return
  <2>2. given' = [x \in Writers |-> IF x = w THEN Done ELSE given[x]]
    BY <1>6 DEF SyncDir, Return
  <2>3. tmp' = [x \in Writers |-> IF x = w THEN NoFile ELSE tmp[x]] /\ NoFile \in File
    BY <1>6 DEF SyncDir, Return, NoFile, File
  <2>4. entry' = entry /\ kept' = {entry}
    BY <1>6 DEF SyncDir
  <2>5. FileTypeOK'
    BY <2>1, <2>2, <2>3, <2>4
  <2>6. OnlyWhole'
    BY <2>1, <2>2, <2>3, <2>4
  <2> QED
    BY <2>5, <2>6
<1>7. ASSUME NEW ws \in SUBSET Writers, Killed(ws) PROVE FileInv'
  BY <1>7, CallsOver DEF Killed
<1>8. CASE PowerLost
  <2>1. entry' \in kept /\ kept' = {entry'}
    BY <1>8, LossLeaves
  <2>2. entry' \in File /\ entry'.solid /\ entry'.holds # Torn
    BY <2>1
  <2> QED
    BY <1>8, <2>1, <2>2 DEF PowerLost, NoFile, File
<1>9. CASE UNCHANGED fileVars
  BY <1>9 DEF fileVars
<1> QED
  BY <1>1, <1>2, <1>3, <1>4, <1>5, <1>6, <1>7, <1>8, <1>9 DEF FileNext, WriteGoesOn

\* A reader of the path never meets an unsynced file or part of one, and a loss
\* of power never makes it so.
THEOREM FileSafe == FileSpec => []FileInv
<1>1. FileInv /\ [FileNext]_fileVars => FileInv'
  BY FileStep
<1> QED
  BY FileInitially, <1>1, PTL DEF FileSpec

----------------------------------------------------------------------------
(* The refinement. *)

Survivors == UNION {{g.holds : g \in AfterLoss(f)} : f \in kept}
Landed == {w \in Writers : step[w] = "renamed"}

\* Nothing a loss of power may leave is torn: what survives is what is kept.
LEMMA SolidSurvive ==
    ASSUME NEW fs, \A f \in fs : f.solid
    PROVE  UNION {{g.holds : g \in AfterLoss(f)} : f \in fs} = {f.holds : f \in fs}
<1>1. ASSUME NEW f \in fs PROVE {g.holds : g \in AfterLoss(f)} = {f.holds}
  BY DEF AfterLoss
<1> QED
  BY <1>1

LEMMA PromiseInit == FileInit => Promise!Init
<1> SUFFICES ASSUME FileInit PROVE Promise!Init
  OBVIOUS
<1>1. Survivors = {f.holds : f \in kept}
  BY FileInitially, SolidSurvive DEF FileInv, OnlyWhole, Survivors
<1> QED
  BY <1>1 DEF FileInit, Promise!Init, NoFile, Survivors

LEMMA PromiseStep ==
    ASSUME FileInv, FileInv', [FileNext]_fileVars
    PROVE  [Promise!Next]_<<entry.holds, Survivors, given, Landed>>
<1> DEFINE Same == UNCHANGED <<entry.holds, Survivors, given, Landed>>
<1>1. Survivors = {f.holds : f \in kept} /\ Survivors' = {f.holds : f \in kept'}
  BY SolidSurvive DEF FileInv, OnlyWhole, Survivors
<1> USE FileAssumption DEF FileInv, FileTypeOK
<1>2. ASSUME NEW w \in Writers, NEW v \in Contents, CreateTemp(w, v) PROVE Promise!Begin(w, v)
  <2>1. Landed' = Landed
    BY <1>2 DEF CreateTemp, Advance, Landed
  <2> QED
    BY <1>1, <1>2, <2>1 DEF CreateTemp, Advance, Promise!Begin, OnlyWhole, Survivors, Landed
<1>3. ASSUME NEW w \in Writers, WriteData(w) \/ SyncData(w) PROVE Same
  BY <1>1, <1>3 DEF WriteData, SyncData, Advance, Landed
<1>4. ASSUME NEW w \in Writers, RenameTemp(w) PROVE Promise!Replace(w)
  <2>1. tmp[w].holds = given[w] /\ given[w] \in Contents /\ step[w] = "synced"
    BY <1>4 DEF RenameTemp, Advance, OnlyWhole
  <2>2. Survivors' = Survivors \cup {given[w]}
    BY <1>1, <1>4, <2>1 DEF RenameTemp
  <2>3. Landed' = Landed \cup {w} /\ w \notin Landed
    BY <1>4, <2>1 DEF RenameTemp, Advance, Landed
  <2> QED
    BY <1>4, <2>1, <2>2, <2>3 DEF RenameTemp, Promise!Replace, Survivors, Landed
<1>5. ASSUME NEW w \in Writers, NEW r, Return(w, r) PROVE Promise!Over(w, r)
  BY <1>5 DEF Return, Promise!Over, Landed
<1>6. ASSUME NEW w \in Writers, SyncDir(w) PROVE Promise!Succeed(w)
  <2>1. Survivors' = {entry.holds} /\ entry' = entry
    BY <1>1, <1>6 DEF SyncDir
  <2>2. w \in Landed
    BY <1>6 DEF SyncDir, Landed
  <2> QED
    BY <1>5, <1>6, <2>1, <2>2 DEF SyncDir, Promise!Succeed, Survivors, Landed
<1>7. ASSUME NEW w \in Writers, WriteFails(w) PROVE Promise!Fail(w)
  <2>1. given[w] \in Contents /\ Survivors' = Survivors /\ entry' = entry
    BY <1>1, <1>7 DEF WriteFails, OnlyWhole
  <2> QED
    BY <1>5, <1>7, <2>1 DEF WriteFails, Promise!Fail, Survivors
<1>8. ASSUME NEW ws \in SUBSET Writers, Killed(ws) PROVE Promise!Kill(ws)
  <2>1. Landed' = Landed \ ws
    BY <1>8 DEF Killed, Landed
  <2> QED
    BY <1>1, <1>8, <2>1 DEF Killed, Promise!Kill, Survivors, Landed
<1>9. ASSUME PowerLost PROVE Promise!PowerLoss
  <2>1. entry' \in kept /\ kept' = {entry'}
    BY <1>9, LossLeaves
  <2>2. entry'.holds \in Survivors /\ Survivors' = {entry'.holds} /\ Landed' = {}
    <3>1. Landed' = {}
      BY <1>9 DEF PowerLost, Landed
    <3> QED
      BY <1>1, <2>1, <3>1
  <2> QED
    BY <1>9, <2>2 DEF PowerLost, Promise!PowerLoss, Survivors, Landed
<1>10. CASE UNCHANGED fileVars
  BY <1>10, <1>1 DEF fileVars, Landed
<1> QED
  BY <1>2, <1>3, <1>4, <1>6, <1>7, <1>8, <1>9, <1>10 DEF FileNext, WriteGoesOn, Promise!Next

\* Package atomicfile keeps its promise: the previous contents or the new ones,
\* and the new ones for good once Write has returned nil.
THEOREM WriteIsAtomic == FileSpec => KeepsPromise
<1>1. FileInv /\ FileInv' /\ [FileNext]_fileVars
        => [Promise!Next]_<<entry.holds, Survivors, given, Landed>>
  BY PromiseStep
<1> QED
  BY <1>1, PromiseInit, FileSafe, PTL DEF KeepsPromise, Promise!Spec, FileSpec, Survivors, Landed
=============================================================================
