----------------------------- MODULE AtomicFile -----------------------------
(***************************************************************************)
(* atomicfile.Write (internal/atomicfile/atomicfile.go) one system call at *)
(* a time: a temporary file beside the path is filled, synced and renamed  *)
(* over it, then the directory is synced.  Any of these may fail, the      *)
(* process may be killed and the machine lose power between any two.       *)
(*                                                                         *)
(* A file is what it holds and whether that has been synced: if not, a     *)
(* loss of power may leave part of it.  A directory entry that has not     *)
(* been synced may be any of those the path has had since the last time.   *)
(*                                                                         *)
(* The temporary file of a killed process stays behind under a name nobody *)
(* reads, so the model forgets it.  SyncNothing and SyncNoDir are seeded   *)
(* faults: what a plausible bug would make of the definition each precedes.*)
(***************************************************************************)
CONSTANTS Writers, Contents, Nothing, Done, Torn

ASSUME FileAssumption == Contents \cap {Nothing, Done} = {} /\ Torn \notin Contents \cup {Nothing}

VARIABLES
    step,   \* how far each writer's call of Write has come
    given,  \* what each call underway is to write, or how the last one ended
    tmp,    \* the temporary file of each call
    entry,  \* the file the path names
    kept    \* the files the path may name after a loss of power

fileVars == <<step, given, tmp, entry, kept>>

Steps == {"idle", "created", "written", "synced", "renamed"}

File == [holds: Contents \cup {Nothing, Torn}, solid: BOOLEAN]

NoFile == [holds |-> Nothing, solid |-> TRUE]

\* What a loss of power may make of a file.
AfterLoss(f) == IF f.solid THEN {f} ELSE {f, [f EXCEPT !.holds = Torn]}

Advance(w, from, to) == step[w] = from /\ step' = [step EXCEPT ![w] = to]

----------------------------------------------------------------------------
(* The system calls of Write, for writer w. *)

\* os.CreateTemp and Chmod.
CreateTemp(w, v) ==
    /\ Advance(w, "idle", "created")
    /\ given' = [given EXCEPT ![w] = v]
    /\ tmp' = [tmp EXCEPT ![w] = [holds |-> Torn, solid |-> FALSE]]
    /\ UNCHANGED <<entry, kept>>

WriteData(w) ==
    /\ Advance(w, "created", "written")
    /\ tmp' = [tmp EXCEPT ![w].holds = given[w]]
    /\ UNCHANGED <<given, entry, kept>>

SyncNothing(w) ==
    /\ Advance(w, "written", "synced")
    /\ UNCHANGED <<given, tmp, entry, kept>>

SyncData(w) ==
    /\ Advance(w, "written", "synced")
    /\ tmp' = [tmp EXCEPT ![w].solid = TRUE]
    /\ UNCHANGED <<given, entry, kept>>

RenameTemp(w) ==
    /\ Advance(w, "synced", "renamed")
    /\ entry' = tmp[w]
    /\ kept' = kept \cup {tmp[w]}
    /\ tmp' = [tmp EXCEPT ![w] = NoFile]
    /\ UNCHANGED given

\* The call is over; its temporary file, if still there, is removed.
Return(w, result) ==
    /\ step' = [step EXCEPT ![w] = "idle"]
    /\ given' = [given EXCEPT ![w] = result]
    /\ tmp' = [tmp EXCEPT ![w] = NoFile]

SyncNoDir(w) == step[w] = "renamed" /\ Return(w, Done) /\ UNCHANGED <<entry, kept>>

\* syncDir, and Write returns nil.
SyncDir(w) == step[w] = "renamed" /\ Return(w, Done) /\ kept' = {entry} /\ UNCHANGED entry

\* A system call fails, and Write returns its error: before the rename the path
\* is as it was, after it (syncDir) the new file is in place all the same.
WriteFails(w) == step[w] # "idle" /\ Return(w, Nothing) /\ UNCHANGED <<entry, kept>>

WriteGoesOn(w) == WriteData(w) \/ SyncData(w) \/ RenameTemp(w)

----------------------------------------------------------------------------
(* Around the calls. *)

Killed(ws) ==
    /\ step' = [w \in Writers |-> IF w \in ws THEN "idle" ELSE step[w]]
    /\ given' = [w \in Writers |-> IF w \in ws THEN Nothing ELSE given[w]]
    /\ tmp' = [w \in Writers |-> IF w \in ws THEN NoFile ELSE tmp[w]]
    /\ UNCHANGED <<entry, kept>>

PowerLost ==
    /\ step' = [w \in Writers |-> "idle"]
    /\ given' = [w \in Writers |-> Nothing]
    /\ tmp' = [w \in Writers |-> NoFile]
    /\ \E f \in kept : \E g \in AfterLoss(f) :
          entry' = [g EXCEPT !.solid = TRUE] /\ kept' = {entry'}

FileInit ==
    /\ step = [w \in Writers |-> "idle"]
    /\ given = [w \in Writers |-> Nothing]
    /\ tmp = [w \in Writers |-> NoFile]
    /\ entry = NoFile /\ kept = {NoFile}

FileNext ==
    \/ \E w \in Writers : \/ \E v \in Contents : CreateTemp(w, v)
                          \/ WriteGoesOn(w) \/ SyncDir(w) \/ WriteFails(w)
    \/ \E ws \in SUBSET Writers : Killed(ws)
    \/ PowerLost

FileSpec == FileInit /\ [][FileNext]_fileVars

FileTypeOK ==
    /\ step \in [Writers -> Steps]
    /\ given \in [Writers -> Contents \cup {Nothing, Done}]
    /\ tmp \in [Writers -> File]
    /\ entry \in File
    /\ kept \in SUBSET File

\* What keeps the path whole: only synced files are renamed over it.
OnlyWhole ==
    /\ entry \in kept
    /\ \A f \in kept : f.solid /\ f.holds # Torn
    /\ \A w \in Writers :
          /\ step[w] # "idle" <=> given[w] \in Contents
          /\ step[w] \in {"written", "synced"} => tmp[w].holds = given[w]
          /\ step[w] = "synced" => tmp[w].solid

FileInv == FileTypeOK /\ OnlyWhole

\* Write keeps the promise of package atomicfile: "A crash at any point leaves
\* either the previous contents or the new ones, never a partial file", and the
\* contents it returned nil for are not lost with the power.
Promise == INSTANCE SafeFile WITH
    file <- entry.holds,
    survives <- UNION {{g.holds : g \in AfterLoss(f)} : f \in kept},
    writing <- given,
    landed <- {w \in Writers : step[w] = "renamed"}

KeepsPromise == Promise!Spec
=============================================================================
