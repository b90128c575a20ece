-------------------------- MODULE TokenStoreProofs --------------------------
(***************************************************************************)
(* However refreshes, auth, the disk and crashes interleave, the token     *)
(* source uses the file as AtomicFile has it, what it writes there always  *)
(* has a refresh token, and a save it believes in survives a restart: for  *)
(* any number of tokens.                                                   *)
(***************************************************************************)
EXTENDS TokenStore, AtomicFileProofs

Full(v) == v \in Token /\ v.refresh # 0

\* Whatever is on its way to the file has a refresh token.
GivenFull == \A w \in Writers : given[w] \in Contents => Full(given[w])

\* A process that runs was started from such a token, and a call of Token is in
\* a process that runs.
CallsOK ==
    /\ up => Full(last) /\ inner.tok \in Token
    /\ pc # "idle" => up

IInv == TypeOK /\ GivenFull /\ CallsOK /\ NeverStripped

LEMMA Initially == Init => IInv
<1> SUFFICES ASSUME Init PROVE IInv
  OBVIOUS
<1>1. FileInv
  BY FileInitially DEF Init
<1>2. NoToken \in Token \cup {NoToken} /\ NoSource \in [tok: Token \cup {NoToken}, rt: 0..MaxTokens, valid: BOOLEAN]
  BY TokenAssumption DEF NoSource
<1>3. TypeOK
  <2>1. rotates \in BOOLEAN /\ faulty \in BOOLEAN /\ up \in BOOLEAN /\ cached \in BOOLEAN
    BY TokenAssumption, Zenon DEF Init
  <2>2. live \in SUBSET (1..MaxTokens) /\ issued \in 0..MaxTokens
    BY TokenAssumption DEF Init
  <2>3. /\ inner \in [tok: Token \cup {NoToken}, rt: 0..MaxTokens, valid: BOOLEAN]
        /\ last \in Token \cup {NoToken}
    BY <1>2, Zenon DEF Init
  <2>4. pc \in {"idle", "got", "saving"}
    BY DEF Init
  <2> QED
    BY <1>1, <2>1, <2>2, <2>3, <2>4 DEF TypeOK
<1>4. GivenFull /\ NeverStripped
  BY FileAssumption DEF Init, FileInit, GivenFull, NeverStripped, NoFile
<1>5. CallsOK
  BY DEF Init, CallsOK
<1> QED
  BY <1>3, <1>4, <1>5 DEF IInv

LEMMA IssuedIsToken ==
    ASSUME issued \in 0..MaxTokens, issued < MaxTokens, NEW r \in 0..MaxTokens
    PROVE  Issued(r) \in Token /\ Issued(r).refresh = r /\ issued + 1 \in 1..MaxTokens
BY TokenAssumption DEF Issued, Token

LEMMA ToSaveFull ==
    ASSUME IInv, pc = "got"
    PROVE  Full(ToSave(inner.tok))
<1>1. inner.tok \in Token /\ Full(last)
  BY DEF IInv, CallsOK
<1>2. CASE inner.tok.refresh = 0
  <2>1. ToSave(inner.tok) = [inner.tok EXCEPT !.refresh = last.refresh]
    BY <1>2 DEF ToSave
  <2> QED
    BY <1>1, <2>1 DEF Full, Token
<1>3. CASE inner.tok.refresh # 0
  BY <1>1, <1>3 DEF ToSave, Full
<1> QED
  BY <1>2, <1>3

----------------------------------------------------------------------------
(* Every step is one of the file's, or none. *)

LEMMA FileMoves ==
    ASSUME IInv, [Next]_vars
    PROVE  [FileNext]_fileVars
<1>0. Run \in Writers /\ Auth \in Writers /\ Contents = Token
  BY TokenAssumption
<1>1. ASSUME Save PROVE FileNext \/ UNCHANGED fileVars
  <2>1. pc = "got" /\ (CreateTemp(Run, ToSave(inner.tok)) \/ UNCHANGED fileVars)
    BY <1>1 DEF Save
  <2>2. ToSave(inner.tok) \in Contents
    BY <1>0, <2>1, ToSaveFull DEF Full
  <2> QED
    BY <1>0, <2>1, <2>2 DEF FileNext
<1>2. ASSUME InnerToken PROVE UNCHANGED fileVars
  BY <1>2 DEF InnerToken
<1>3. ASSUME Saved \/ SaveFails PROVE FileNext
  BY <1>0, <1>3 DEF Saved, SaveFails, FileNext
<1>4. ASSUME NEW w \in Writers, Writing(w) PROVE FileNext
  BY <1>4 DEF Writing, FileNext
<1>5. CASE Client \/ Expire \/ Revoke \/ Repair
  BY <1>5 DEF Client, Expire, Revoke, Repair
<1>6. ASSUME Authorize PROVE FileNext
  <2>1. issued < MaxTokens /\ issued \in 0..MaxTokens
    BY <1>6 DEF Authorize, Issues, IInv, TypeOK
  <2>2. Issued(issued + 1) \in Contents
    BY <1>0, <2>1, IssuedIsToken, TokenAssumption
  <2> QED
    BY <1>0, <1>6, <2>2 DEF Authorize, FileNext
<1>7. ASSUME AuthEnds PROVE FileNext
  BY <1>0, <1>7, {Auth} \in SUBSET Writers DEF AuthEnds, FileNext
<1>8. ASSUME Kill \/ PowerFails PROVE FileNext
  BY <1>0, <1>8 DEF Kill, PowerFails, FileNext
<1>9. CASE UNCHANGED vars
  BY <1>9 DEF vars
<1> QED
  BY <1>1, <1>2, <1>3, <1>4, <1>5, <1>6, <1>7, <1>8, <1>9 DEF Next

----------------------------------------------------------------------------
(* The types. *)

LEMMA Types ==
    ASSUME IInv, [Next]_vars
    PROVE  TypeOK'
<1>0. FileInv'
  BY FileMoves, FileStep DEF IInv, TypeOK
<1>a. NoToken \in Token \cup {NoToken} /\ NoSource \in [tok: Token \cup {NoToken}, rt: 0..MaxTokens, valid: BOOLEAN]
  BY TokenAssumption DEF NoSource
<1>b. Run \in Writers /\ Contents = Token /\ MaxTokens \in Nat
  BY TokenAssumption
<1> USE DEF IInv, TypeOK
<1>1. CASE InnerToken
  <2>1. UNCHANGED <<faulty, up, cached, last>> /\ pc' = "got"
    BY <1>1 DEF InnerToken
  <2>2. CASE UNCHANGED <<service, inner>>
    BY <1>0, <2>1, <2>2 DEF service
  <2>3. ASSUME NEW tok \in Token, Refresh(tok) PROVE TypeOK'
    <3>1. issued' \in 0..MaxTokens /\ rotates' = rotates /\ issued + 1 \in 1..MaxTokens
      BY <2>3, <1>b DEF Refresh, Issues
    <3>2. live' \in SUBSET (1..MaxTokens)
      <4>1. live' = live \/ live' = (live \ {inner.rt}) \cup {issued + 1}
        BY <2>3 DEF Refresh
      <4>2. live \subseteq 1..MaxTokens
        BY Zenon
      <4> QED
        BY ONLY <4>1, <4>2, <3>1
    <3>3. tok.refresh \in 0..MaxTokens /\ inner.rt \in 0..MaxTokens
      BY DEF Token
    <3>4. inner' \in [tok: Token \cup {NoToken}, rt: 0..MaxTokens, valid: BOOLEAN]
      BY <2>3, <3>3 DEF Refresh
    <3> QED
      BY <1>0, <2>1, <3>1, <3>2, <3>4
  <2> QED
    BY <1>1, <2>2, <2>3 DEF InnerToken
<1>2. CASE Save
  BY <1>0, <1>2 DEF Save, Returns, service
<1>3. CASE Saved
  <2>1. given[Run] \in Token
    BY <1>3, <1>b DEF Saved, SyncDir, FileInv, OnlyWhole
  <2> QED
    BY <1>0, <1>3, <2>1 DEF Saved, Returns, service
<1>4. CASE SaveFails
  BY <1>0, <1>4 DEF SaveFails, Returns, service
<1>5. CASE Client
  <2>1. entry.holds \in Token /\ entry.holds.refresh \in 0..MaxTokens
    BY <1>5 DEF Client, Token
  <2>2. /\ up' = TRUE /\ last' = entry.holds
        /\ inner' \in [tok: Token \cup {NoToken}, rt: 0..MaxTokens, valid: BOOLEAN]
        /\ UNCHANGED <<service, faulty, cached, pc>>
    BY <1>5, <2>1 DEF Client
  <2> QED
    BY <1>0, <2>1, <2>2 DEF service
<1>6. CASE Authorize
  <2>1. issued' \in 0..MaxTokens /\ issued + 1 \in 1..MaxTokens
    BY <1>6, <1>b DEF Authorize, Issues
  <2> QED
    BY <1>0, <1>6, <2>1 DEF Authorize, process
<1>7. CASE Kill \/ PowerFails
  <2>1. ProcessGone /\ UNCHANGED <<service, faulty>>
    BY <1>7 DEF Kill, PowerFails
  <2> QED
    BY <1>0, <1>a, <2>1 DEF ProcessGone, service
<1>8. CASE Expire
  <2>1. inner' \in [tok: Token \cup {NoToken}, rt: 0..MaxTokens, valid: BOOLEAN]
    BY <1>8 DEF Expire
  <2> QED
    BY <1>0, <1>8, <2>1 DEF Expire, service
<1>9. CASE Revoke \/ Repair
  BY <1>0, <1>9 DEF Revoke, Repair, service, process
<1>10. CASE AuthEnds \/ (\E w \in Writers : Writing(w)) \/ UNCHANGED vars
  BY <1>0, <1>10 DEF AuthEnds, Writing, vars, service, process
<1> QED
  BY <1>1, <1>2, <1>3, <1>4, <1>5, <1>6, <1>7, <1>8, <1>9, <1>10 DEF Next

----------------------------------------------------------------------------
(* The refresh token. *)

\* A call that neither begins nor goes on gives the file nothing new.
LEMMA NothingGiven ==
    ASSUME FileInv, GivenFull,
           \A w \in Writers : given'[w] \in {given[w], Nothing, Done}
    PROVE  GivenFull'
BY FileAssumption DEF GivenFull, Full

LEMMA BegunFull ==
    ASSUME FileInv, GivenFull, NEW w \in Writers, NEW v, CreateTemp(w, v), Full(v)
    PROVE  GivenFull'
BY DEF GivenFull, Full, CreateTemp, FileInv, FileTypeOK

LEMMA GivenStaysFull ==
    ASSUME IInv, [Next]_vars
    PROVE  GivenFull'
<1> USE DEF IInv, TypeOK
<1>0. Run \in Writers /\ Auth \in Writers /\ Contents = Token
  BY TokenAssumption
<1> DEFINE Kept == \A w \in Writers : given'[w] \in {given[w], Nothing, Done}
<1>1. ASSUME Save PROVE GivenFull'
  <2>1. pc = "got"
    BY <1>1 DEF Save
  <2>2. CASE CreateTemp(Run, ToSave(inner.tok))
    BY <1>0, <2>1, <2>2, ToSaveFull, BegunFull
  <2>3. CASE UNCHANGED fileVars
    BY <2>3, NothingGiven DEF fileVars
  <2> QED
    BY <1>1, <2>2, <2>3 DEF Save
<1>2. ASSUME Authorize PROVE GivenFull'
  <2>1. issued < MaxTokens /\ issued \in 0..MaxTokens
    BY <1>2 DEF Authorize, Issues
  <2>2. Full(Issued(issued + 1))
    BY <2>1, IssuedIsToken, TokenAssumption DEF Full
  <2> QED
    BY <1>0, <1>2, <2>2, BegunFull DEF Authorize
<1>3. ASSUME NEW w \in Writers, NEW r \in {Nothing, Done}, Return(w, r) PROVE Kept
  BY <1>3 DEF Return, FileInv, FileTypeOK
<1>4. ASSUME Saved \/ SaveFails PROVE Kept
  BY <1>0, <1>3, <1>4 DEF Saved, SaveFails, SyncDir, WriteFails
<1>5. ASSUME AuthEnds PROVE Kept
  <2>1. CASE SyncDir(Auth) \/ WriteFails(Auth)
    BY <1>0, <1>3, <2>1 DEF SyncDir, WriteFails
  <2>2. CASE Killed({Auth})
    BY <2>2 DEF Killed
  <2> QED
    BY <1>5, <2>1, <2>2 DEF AuthEnds
<1>6. ASSUME Kill \/ PowerFails PROVE Kept
  BY <1>6 DEF Kill, PowerFails, Killed, PowerLost
<1>7. ASSUME InnerToken PROVE Kept
  BY <1>7 DEF InnerToken, fileVars
<1>8. ASSUME NEW w \in Writers, Writing(w) PROVE Kept
  BY <1>8 DEF Writing, WriteGoesOn, WriteData, SyncData, RenameTemp
<1>9. ASSUME Client \/ Expire \/ Revoke \/ Repair \/ UNCHANGED vars PROVE Kept
  BY <1>9 DEF Client, Expire, Revoke, Repair, vars, fileVars
<1>10. Kept => GivenFull'
  BY NothingGiven
<1> QED
  BY <1>1, <1>2, <1>4, <1>5, <1>6, <1>7, <1>8, <1>9, <1>10 DEF Next

\* What the path names, or may name, came from a call, whole.
LEMMA FileStaysFull ==
    ASSUME FileInv, GivenFull, NeverStripped, [FileNext]_fileVars
    PROVE  NeverStripped'
<1> USE DEF NeverStripped
<1>1. ASSUME NEW w \in Writers, RenameTemp(w) PROVE NeverStripped'
  <2>1. tmp[w].holds = given[w] /\ given[w] \in Contents
    BY <1>1 DEF RenameTemp, Advance, FileInv, OnlyWhole
  <2>2. Full(tmp[w].holds)
    BY <2>1 DEF GivenFull
  <2> QED
    BY <1>1, <2>2 DEF RenameTemp, Full
<1>2. ASSUME NEW w \in Writers, SyncDir(w) PROVE NeverStripped'
  BY <1>2 DEF SyncDir, FileInv, OnlyWhole
<1>3. CASE PowerLost
  BY <1>3, LossLeaves
<1>4. CASE kept' = kept
  BY <1>4
<1>5. ASSUME NEW w \in Writers, NEW v \in Contents, CreateTemp(w, v) PROVE kept' = kept
  BY <1>5 DEF CreateTemp
<1>6. ASSUME NEW w \in Writers, WriteData(w) \/ SyncData(w) \/ WriteFails(w) PROVE kept' = kept
  BY <1>6 DEF WriteData, SyncData, WriteFails
<1>7. ASSUME NEW ws \in SUBSET Writers, Killed(ws) PROVE kept' = kept
  BY <1>7 DEF Killed
<1> QED
  BY <1>1, <1>2, <1>3, <1>4, <1>5, <1>6, <1>7 DEF FileNext, WriteGoesOn, fileVars

LEMMA CallsStayOK ==
    ASSUME IInv, [Next]_vars
    PROVE  CallsOK'
<1> USE DEF IInv, TypeOK
<1>0. Run \in Writers /\ Contents = Token
  BY TokenAssumption
<1>1. CASE InnerToken
  BY <1>1 DEF InnerToken, Asked, Refresh, CallsOK, Full
<1>2. CASE Save
  BY <1>2 DEF Save, Returns, CallsOK, Full
<1>3. CASE Saved
  <2>1. Full(given[Run])
    BY <1>0, <1>3 DEF Saved, SyncDir, FileInv, OnlyWhole, GivenFull
  <2> QED
    BY <1>3, <2>1 DEF Saved, Returns, CallsOK, Full
<1>4. CASE SaveFails
  BY <1>4 DEF SaveFails, Returns, CallsOK, Full
<1>5. CASE Client
  <2>1. Full(entry.holds)
    BY <1>0, <1>5, FileAssumption DEF Client, FileInv, OnlyWhole, NeverStripped, Full
  <2> QED
    BY <1>5, <2>1 DEF Client, CallsOK, Full
<1>6. CASE Kill \/ PowerFails
  BY <1>6 DEF Kill, PowerFails, ProcessGone, CallsOK
<1>7. CASE up' = up /\ last' = last /\ pc' = pc /\ inner'.tok = inner.tok
  BY <1>7 DEF CallsOK, Full
<1>8. CASE \/ Authorize \/ AuthEnds \/ Expire \/ Revoke \/ Repair
           \/ \E w \in Writers : Writing(w)
           \/ UNCHANGED vars
  BY <1>7, <1>8 DEF Authorize, AuthEnds, Expire, Revoke, Repair, Writing, vars, process
<1> QED
  BY <1>1, <1>2, <1>3, <1>4, <1>5, <1>6, <1>8 DEF Next

----------------------------------------------------------------------------

\* The inductive invariant: the types, and that whatever is in the file, on its
\* way to it or taken from it has a refresh token.
THEOREM Invariant == Spec => []IInv
<1>1. ASSUME IInv, [Next]_vars PROVE IInv'
  <2>1. NeverStripped'
    BY <1>1, FileMoves, FileStaysFull DEF IInv, TypeOK
  <2> QED
    BY <1>1, <2>1, Types, GivenStaysFull, CallsStayOK DEF IInv
<1> QED
  BY <1>1, Initially, PTL DEF Spec

\* The file and the process have their types; the path names whole files only.
THEOREM TypeCorrect == Spec => []TypeOK
<1>1. IInv => TypeOK
  BY DEF IInv
<1> QED
  BY <1>1, Invariant, PTL

\* Token, Client and Authorize never lose the refresh token by writing a token
\* without one over it, whatever fails, stops or answers.
THEOREM RefreshTokenKept == Spec => []NeverStripped
<1>1. IInv => NeverStripped
  BY DEF IInv
<1> QED
  BY <1>1, Invariant, PTL

\* The token source uses the file as AtomicFile has it, and may therefore rely
\* on what package atomicfile promises.
THEOREM StoreIsSafe == Spec => KeepsPromise
<1>1. Init => FileInit
  BY DEF Init
<1>2. IInv /\ [Next]_vars => [FileNext]_fileVars
  BY FileMoves
<1>3. Spec => FileSpec
  BY <1>1, <1>2, Invariant, PTL DEF Spec, FileSpec
<1> QED
  BY <1>3, WriteIsAtomic

----------------------------------------------------------------------------
(* The token in force.  What the process has of it, on its way to the file *)
(* and there, told apart from what auth was granted and has not renamed.   *)

Old(tok) == tok.access <= issued /\ tok.refresh <= issued

\* Whatever there is was issued, so what is issued next is told from it.
Numbered ==
    /\ up => Old(inner.tok) /\ inner.rt <= issued /\ Old(last)
    /\ \A w \in Writers : given[w] \in Contents => Old(given[w])
    /\ \A f \in kept : f.holds \in Token => Old(f.holds)

\* inner's token says its refresh token, unless the answer omitted it; and last
\* has that refresh token when it has that access token.
InForce == up =>
    /\ inner.tok.refresh = 0 \/ inner.tok.refresh = inner.rt
    /\ rotates => inner.tok.refresh # 0
    /\ last.access = inner.tok.access \/ ~rotates => last.refresh = inner.rt

\* What is being saved is inner's token, with the refresh token it lacks, and
\* was not saved before; once it is in place, a restart would work.
SavingOK ==
    /\ pc = "saving" <=> step[Run] # "idle"
    /\ pc = "saving" =>
         /\ given[Run].access = inner.tok.access /\ given[Run].refresh = inner.rt
         /\ last.access # inner.tok.access
         /\ (step[Run] = "renamed" /\ inner.rt \in live) => Restartable

Granting == step[Auth] \notin {"idle", "renamed"}
Grant == given[Auth].refresh

\* Until auth renames it nobody has its new refresh token, so no refresh can
\* replace it: it is dead only if everything is.
GrantOK == Granting =>
    /\ live = {} \/ Grant \in live
    /\ entry.holds \in Token => entry.holds.refresh # Grant
    /\ up => inner.rt # Grant

\* RotationKept, of moments at which a call is underway too.
KeptInForce ==
    (up /\ last.access = inner.tok.access /\ inner.rt \in live) => Restartable

RInv == Numbered /\ InForce /\ SavingOK /\ GrantOK /\ KeptInForce

\* What the earlier invariant says of each token and number.
LEMMA Basics ==
    ASSUME IInv
    PROVE  /\ Writers = {Run, Auth} /\ Run # Auth /\ Contents = Token
           /\ Nothing \notin Token /\ Done \notin Token
           /\ issued \in Nat /\ inner.rt \in Nat /\ MaxTokens \in Nat
           /\ \A tok \in Token : tok.access \in Nat \ {0} /\ tok.refresh \in Nat
           /\ up => inner.tok \in Token /\ last \in Token /\ last.refresh # 0
           /\ pc # "idle" => up
           /\ \A w \in Writers : step[w] # "idle" <=> given[w] \in Token
           /\ \A w \in Writers : step[w] # "idle" => given[w].refresh # 0
           /\ entry \in kept
<1> USE DEF IInv, TypeOK
<1>1. Writers = {Run, Auth} /\ Run # Auth /\ Contents = Token /\ MaxTokens \in Nat
  BY TokenAssumption
<1>2. Nothing \notin Token /\ Done \notin Token
  BY <1>1, FileAssumption
<1>3. issued \in Nat /\ inner.rt \in Nat
  BY <1>1
<1>4. \A tok \in Token : tok.access \in Nat \ {0} /\ tok.refresh \in Nat
  BY <1>1 DEF Token
<1>5. (up => inner.tok \in Token /\ last \in Token /\ last.refresh # 0) /\ (pc # "idle" => up)
  BY DEF CallsOK, Full
<1>6. entry \in kept /\ \A w \in Writers : step[w] # "idle" <=> given[w] \in Token
  BY <1>1 DEF FileInv, OnlyWhole
<1>7. \A w \in Writers : step[w] # "idle" => given[w].refresh # 0
  BY <1>1, <1>6 DEF GivenFull, Full
<1> QED
  BY <1>1, <1>2, <1>3, <1>4, <1>5, <1>6, <1>7

LEMMA InForceInit == Init => RInv
<1> SUFFICES ASSUME Init PROVE RInv
  OBVIOUS
<1>1. Contents = Token /\ Nothing \notin Contents /\ Run \in Writers /\ Auth \in Writers
  BY TokenAssumption, FileAssumption
<1>2. Numbered /\ InForce /\ SavingOK /\ GrantOK /\ KeptInForce
  BY <1>1 DEF Init, FileInit, Numbered, InForce, SavingOK, GrantOK, Granting, KeptInForce, NoFile
<1> QED
  BY <1>2 DEF RInv

----------------------------------------------------------------------------
(* A call of Token. *)

\* Nobody holds what auth is about to write, so a refresh leaves it alone; and
\* the token it brings differs from the one saved last.
LEMMA KeptByInnerToken ==
    ASSUME IInv, RInv, InnerToken
    PROVE  RInv'
<1> USE Basics DEF RInv, fileVars, service
<1>1. up /\ pc = "idle" /\ pc' = "got" /\ UNCHANGED <<step, given, entry, kept, up, last>>
  BY DEF InnerToken, Asked
<1>2. CASE UNCHANGED <<service, inner>>
  BY <1>1, <1>2 DEF Numbered, Old, InForce, SavingOK, GrantOK, Granting, Grant, KeptInForce, Restartable
<1>3. ASSUME NEW tok \in Token, Refresh(tok) PROVE RInv'
  <2>1. /\ issued' = issued + 1 /\ inner'.tok = tok /\ tok.access = issued + 1
        /\ inner.rt \in live /\ rotates' = rotates
        /\ rotates => /\ tok.refresh = issued + 1 /\ inner'.rt = issued + 1
                      /\ live' = (live \ {inner.rt}) \cup {issued + 1}
        /\ ~rotates => /\ tok.refresh = 0 \/ tok.refresh = inner.rt
                       /\ inner'.rt = inner.rt /\ live' = live
    BY <1>3 DEF Refresh, Issues, Issued
  <2>2. Old(inner.tok) /\ inner.rt <= issued /\ Old(last)
    BY <1>1 DEF Numbered
  <2>3. Numbered'
    <3>1. \A w \in Writers : given[w] \in Contents => (Old(given[w]))'
      BY <1>1, <2>1 DEF Numbered, Old
    <3>2. \A f \in kept : f.holds \in Token => (Old(f.holds))'
      BY <1>1, <2>1 DEF Numbered, Old
    <3>3. (Old(inner.tok))' /\ inner'.rt <= issued' /\ (Old(last))'
      BY <1>1, <2>1, <2>2 DEF Old
    <3> QED
      BY <1>1, <3>1, <3>2, <3>3 DEF Numbered
  <2>4. last'.access # inner'.tok.access
    BY <1>1, <2>1, <2>2 DEF Old
  <2>5. InForce' /\ KeptInForce'
    BY <1>1, <2>1, <2>4 DEF InForce, KeptInForce
  <2>6. SavingOK'
    BY <1>1 DEF SavingOK
  <2>7. GrantOK'
    <3> SUFFICES ASSUME Granting PROVE GrantOK'
      BY <1>1 DEF GrantOK, Granting
    <3>1. Grant \in Nat \ {0} /\ Grant <= issued /\ Grant' = Grant
      BY <1>1 DEF Granting, Grant, Numbered, Old
    <3>2. Grant # inner.rt /\ Grant # inner'.rt
      BY <1>1, <2>1, <3>1 DEF GrantOK
    <3>3. Grant \in live'
      BY <2>1, <3>2 DEF GrantOK
    <3> QED
      BY <1>1, <3>1, <3>2, <3>3 DEF GrantOK, Granting
  <2> QED
    BY <2>3, <2>5, <2>6, <2>7
<1> QED
  BY <1>2, <1>3 DEF InnerToken

\* What ToSave makes of inner's token.
LEMMA ToSaveSays ==
    ASSUME IInv, RInv, pc = "got"
    PROVE  /\ ToSave(inner.tok) \in Token
           /\ ToSave(inner.tok).access = inner.tok.access
           /\ ToSave(inner.tok).refresh = inner.rt
<1>1. inner.tok \in Token /\ last \in Token /\ up
  BY Basics
<1>2. InForce
  BY DEF RInv
<1>3. CASE inner.tok.refresh = 0
  <2>1. ToSave(inner.tok) = [inner.tok EXCEPT !.refresh = last.refresh]
    BY <1>3 DEF ToSave
  <2>2. last.refresh = inner.rt
    BY <1>1, <1>2, <1>3 DEF InForce
  <2> QED
    BY <1>1, <2>1, <2>2 DEF Token
<1>4. CASE inner.tok.refresh # 0
  BY <1>1, <1>2, <1>4 DEF ToSave, InForce
<1> QED
  BY <1>3, <1>4

\* A token that changed was not saved before.
LEMMA KeptBySave ==
    ASSUME IInv, RInv, Save
    PROVE  RInv'
<1> USE Basics DEF RInv, service
<1>1. pc = "got" /\ UNCHANGED <<rotates, live, issued, up, inner, last>>
  BY DEF Save
<1>2. CASE pc' = "idle" /\ UNCHANGED fileVars
  BY <1>1, <1>2 DEF Numbered, Old, InForce, SavingOK, GrantOK, Granting, Grant, KeptInForce,
                    Restartable, fileVars
<1>3. CASE TokenChanged(last, inner.tok) /\ CreateTemp(Run, ToSave(inner.tok)) /\ pc' = "saving"
  <2>1. /\ step'[Run] = "created" /\ given'[Run] = ToSave(inner.tok) /\ UNCHANGED <<entry, kept>>
        /\ step'[Auth] = step[Auth] /\ given'[Auth] = given[Auth]
    BY <1>3 DEF CreateTemp, Advance, IInv, TypeOK, FileInv, FileTypeOK
  <2>2. /\ given'[Run].access = inner.tok.access /\ given'[Run].refresh = inner.rt
        /\ Old(inner.tok) /\ inner.rt <= issued
    BY <1>1, <2>1, ToSaveSays DEF Numbered
  <2>3. last.access # inner.tok.access
    BY <1>1, <1>3 DEF TokenChanged, InForce
  <2>4. Numbered'
    BY <1>1, <2>1, <2>2 DEF Numbered, Old
  <2>5. SavingOK'
    BY <1>1, <1>3, <2>1, <2>2, <2>3 DEF SavingOK
  <2>6. InForce' /\ GrantOK' /\ KeptInForce'
    BY <1>1, <2>1 DEF InForce, GrantOK, Granting, Grant, KeptInForce, Restartable
  <2> QED
    BY <2>4, <2>5, <2>6
<1> QED
  BY <1>2, <1>3 DEF Save, Returns

\* What last is now is in force; what stays behind is not believed to be saved.
LEMMA KeptByReturn ==
    ASSUME IInv, RInv, Saved \/ SaveFails
    PROVE  RInv'
<1> USE Basics DEF RInv, service
<1>1. /\ step'[Run] = "idle" /\ given'[Run] \in {Nothing, Done}
      /\ step'[Auth] = step[Auth] /\ given'[Auth] = given[Auth]
      /\ entry' = entry /\ kept' \in SUBSET kept
      /\ pc' = "idle" /\ UNCHANGED <<rotates, live, issued, up, inner>>
      /\ last' = last \/ (step[Run] = "renamed" /\ last' = given[Run])
  BY DEF Saved, SaveFails, SyncDir, WriteFails, Return, Returns, IInv, TypeOK, FileInv, FileTypeOK
<1>2. pc = "saving" /\ up /\ given[Run] \in Token /\ Old(given[Run])
  BY DEF Saved, SaveFails, SyncDir, WriteFails, SavingOK, Numbered
<1>3. Numbered'
  BY <1>1, <1>2 DEF Numbered, Old
<1>4. InForce' /\ SavingOK' /\ KeptInForce'
  BY <1>1, <1>2 DEF InForce, SavingOK, KeptInForce, Restartable
<1>5. GrantOK'
  BY <1>1 DEF GrantOK, Granting, Grant
<1> QED
  BY <1>3, <1>4, <1>5

----------------------------------------------------------------------------
(* The file, and auth. *)

LEMMA KeptByWriting ==
    ASSUME IInv, RInv, NEW w \in Writers, Writing(w)
    PROVE  RInv'
<1> USE Basics DEF RInv, service, process
<1>1. /\ UNCHANGED <<service, process, given>>
      /\ step[w] # "idle" /\ step'[w] # "idle" /\ \A x \in Writers : x # w => step'[x] = step[x]
  BY DEF Writing, WriteGoesOn, WriteData, SyncData, RenameTemp, Advance, IInv, TypeOK, FileInv, FileTypeOK
<1>2. CASE WriteData(w) \/ SyncData(w)
  <2>1. UNCHANGED <<entry, kept>> /\ step[w] \in {"created", "written"} /\ step'[w] # "renamed"
    BY <1>2 DEF WriteData, SyncData, Advance, IInv, TypeOK, FileInv, FileTypeOK
  <2>2. Numbered' /\ InForce' /\ KeptInForce'
    BY <1>1, <2>1 DEF Numbered, Old, InForce, KeptInForce, Restartable
  <2>3. SavingOK' /\ GrantOK'
    BY <1>1, <2>1 DEF SavingOK, GrantOK, Granting, Grant, Restartable
  <2> QED
    BY <2>2, <2>3
<1>3. CASE RenameTemp(w)
  <2>1. /\ step[w] = "synced" /\ entry' = tmp[w] /\ kept' = kept \cup {tmp[w]} /\ step'[w] = "renamed"
    BY <1>3 DEF RenameTemp, Advance, IInv, TypeOK, FileInv, FileTypeOK
  <2>2. entry'.holds = given[w] /\ given[w] \in Token
    BY <2>1 DEF IInv, TypeOK, FileInv, OnlyWhole
  <2>3. Numbered' /\ InForce'
    BY <1>1, <2>1, <2>2 DEF Numbered, Old, InForce
  <2>4. CASE w = Auth
    <3>1. Granting /\ ~Granting' /\ Grant = given[w].refresh
      BY <2>1, <2>4 DEF Granting, Grant
    <3>2. inner.rt \in live => Restartable'
      BY <1>1, <2>2, <3>1 DEF GrantOK, Restartable
    <3>3. SavingOK' /\ KeptInForce' /\ GrantOK'
      BY <1>1, <2>1, <2>4, <3>1, <3>2 DEF SavingOK, KeptInForce, GrantOK
    <3> QED
      BY <2>3, <3>3
  <2>5. CASE w = Run
    <3>1. pc = "saving" /\ up /\ given[Run].refresh = inner.rt
      BY <2>1, <2>5 DEF SavingOK
    <3>2. SavingOK' /\ KeptInForce'
      BY <1>1, <2>1, <2>2, <2>5, <3>1 DEF SavingOK, KeptInForce, Restartable
    <3>3. GrantOK'
      BY <1>1, <2>1, <2>2, <2>5, <3>1 DEF GrantOK, Granting, Grant
    <3> QED
      BY <2>3, <3>2, <3>3
  <2> QED
    BY <2>4, <2>5
<1> QED
  BY <1>2, <1>3 DEF Writing, WriteGoesOn

\* The new grant is beside what the process has.
LEMMA KeptByAuthorize ==
    ASSUME IInv, RInv, Authorize
    PROVE  RInv'
<1> USE Basics DEF RInv, process
<1>1. /\ issued' = issued + 1 /\ live' = live \cup {issued + 1} /\ UNCHANGED <<entry, kept, rotates, process>>
      /\ step[Auth] = "idle" /\ step'[Auth] = "created" /\ given'[Auth] = Issued(issued + 1)
      /\ step'[Run] = step[Run] /\ given'[Run] = given[Run]
  BY DEF Authorize, Issues, CreateTemp, Advance, IInv, TypeOK, FileInv, FileTypeOK
<1>2. given'[Auth].access = issued + 1 /\ given'[Auth].refresh = issued + 1
  BY <1>1 DEF Issued
<1>3. Numbered'
  <2>1. \A w \in Writers : given'[w] \in Contents => (Old(given[w]))'
    BY <1>1, <1>2 DEF Numbered, Old
  <2>2. \A f \in kept : f.holds \in Token => (Old(f.holds))'
    BY <1>1 DEF Numbered, Old
  <2>3. up => (Old(inner.tok))' /\ inner.rt <= issued' /\ (Old(last))'
    BY <1>1 DEF Numbered, Old
  <2> QED
    BY <1>1, <2>1, <2>2, <2>3 DEF Numbered
<1>4. InForce'
  BY <1>1 DEF InForce
<1>5. /\ up => (inner.rt \in live' <=> inner.rt \in live)
      /\ Restartable => Restartable'
  BY <1>1 DEF Numbered, Restartable
<1>6. SavingOK' /\ KeptInForce'
  BY <1>1, <1>5 DEF SavingOK, KeptInForce
<1>7. GrantOK'
  <2>1. Grant' = issued + 1 /\ Grant' \in live'
    BY <1>1, <1>2 DEF Grant
  <2> QED
    BY <1>1, <2>1 DEF GrantOK, Numbered, Old
<1> QED
  BY <1>3, <1>4, <1>6, <1>7

LEMMA KeptByAuthEnds ==
    ASSUME IInv, RInv, AuthEnds
    PROVE  RInv'
<1> USE Basics DEF RInv, service, process
<1>1. /\ entry' = entry /\ kept' \in SUBSET kept /\ UNCHANGED <<service, process>>
      /\ step'[Auth] = "idle" /\ given'[Auth] \in {Nothing, Done}
      /\ step'[Run] = step[Run] /\ given'[Run] = given[Run]
  BY DEF AuthEnds, SyncDir, WriteFails, Return, Killed, IInv, TypeOK, FileInv, FileTypeOK
<1>2. Numbered' /\ InForce' /\ KeptInForce'
  BY <1>1 DEF Numbered, Old, InForce, KeptInForce, Restartable
<1>3. SavingOK' /\ GrantOK'
  BY <1>1 DEF SavingOK, GrantOK, Granting, Restartable
<1> QED
  BY <1>2, <1>3

----------------------------------------------------------------------------
(* The process begins and ends; the service and the disk. *)

LEMMA KeptByClient ==
    ASSUME IInv, RInv, Client
    PROVE  RInv'
<1> USE Basics DEF RInv
<1>1. /\ ~up /\ up' /\ entry.holds \in Token /\ last' = entry.holds
      /\ inner'.tok = entry.holds /\ inner'.rt = entry.holds.refresh
      /\ UNCHANGED <<step, given, entry, kept, rotates, live, issued, pc>>
  BY DEF Client, fileVars, service
<1>2. entry.holds.refresh # 0
  BY <1>1, FileAssumption DEF IInv, NeverStripped
<1>3. Numbered'
  BY <1>1 DEF Numbered, Old
<1>4. InForce' /\ SavingOK'
  BY <1>1, <1>2 DEF InForce, SavingOK
<1>5. GrantOK' /\ KeptInForce'
  BY <1>1 DEF GrantOK, Granting, Grant, KeptInForce, Restartable
<1> QED
  BY <1>3, <1>4, <1>5

LEMMA KeptByEnd ==
    ASSUME IInv, RInv, Kill \/ PowerFails
    PROVE  RInv'
<1> USE Basics DEF RInv, service
<1>1. ~up' /\ pc' = "idle" /\ UNCHANGED <<rotates, live, issued>>
  BY DEF Kill, PowerFails, ProcessGone
<1>2. /\ step'[Run] = "idle"
      /\ \A w \in Writers : given'[w] \in {given[w], Nothing}
      /\ kept' \in SUBSET kept
      /\ step'[Auth] = "idle" \/ (step'[Auth] = step[Auth] /\ given'[Auth] = given[Auth] /\ entry' = entry)
  <2>1. CASE Kill
    BY <2>1 DEF Kill, Killed
  <2>2. CASE PowerFails
    BY <2>2, LossLeaves DEF PowerFails, PowerLost, IInv, TypeOK
  <2> QED
    BY <2>1, <2>2
<1>3. Numbered' /\ SavingOK'
  BY <1>1, <1>2 DEF Numbered, Old, SavingOK
<1>4. InForce' /\ KeptInForce'
  BY <1>1 DEF InForce, KeptInForce
<1>5. GrantOK'
  BY <1>1, <1>2 DEF GrantOK, Granting, Grant
<1> QED
  BY <1>3, <1>4, <1>5

LEMMA KeptByOthers ==
    ASSUME IInv, RInv, Expire \/ Revoke \/ Repair \/ UNCHANGED vars
    PROVE  RInv'
<1> USE Basics DEF RInv, service, process, fileVars
<1>1. /\ inner'.tok = inner.tok /\ inner'.rt = inner.rt
      /\ UNCHANGED <<step, given, entry, kept, rotates, issued, up, last, pc>>
      /\ live' = live \/ live' = {}
  BY DEF Expire, Revoke, Repair, vars, IInv, TypeOK
<1>2. Numbered' /\ InForce'
  BY <1>1 DEF Numbered, Old, InForce
<1>3. SavingOK' /\ GrantOK' /\ KeptInForce'
  BY <1>1 DEF SavingOK, GrantOK, Granting, Grant, KeptInForce, Restartable
<1> QED
  BY <1>2, <1>3

LEMMA InForceStep ==
    ASSUME IInv, RInv, [Next]_vars
    PROVE  RInv'
BY KeptByInnerToken, KeptBySave, KeptByReturn, KeptByWriting, KeptByAuthorize, KeptByAuthEnds,
   KeptByClient, KeptByEnd, KeptByOthers DEF Next

----------------------------------------------------------------------------

\* What the process and auth hold of the token in force.
THEOREM InForceInvariant == Spec => []RInv
<1>1. IInv /\ RInv /\ [Next]_vars => RInv'
  BY InForceStep
<1> QED
  BY <1>1, InForceInit, Invariant, PTL DEF Spec

\* A token source that believes it saved the token in force did: a restart keeps
\* the account if the process would, whatever failed, whatever auth wrote and
\* whether the service rotates refresh tokens (persistingTokenSource.Token).
THEOREM RotationSurvives == Spec => []RotationKept
<1>1. RInv => RotationKept
  BY DEF RInv, KeptInForce, RotationKept, AtRest
<1> QED
  BY <1>1, InForceInvariant, PTL
=============================================================================
