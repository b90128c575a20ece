----------------------------- MODULE TokenStore -----------------------------
(***************************************************************************)
(* The OAuth token of one account: persistingTokenSource, Client and       *)
(* Authorize (internal/googleauth/googleauth.go) over the token file, which *)
(* AtomicFile writes.                                                      *)
(*                                                                         *)
(* The pass loop and the watch manager share the one client of an account. *)
(* Its transport, oauth2.NewClient's, asks persistingTokenSource only for  *)
(* want of a token that is still valid, and holds a lock until it has the  *)
(* answer.  So one thread of the process at a time is in Token, and those  *)
(* that wait for it, or get the token the transport has, change nothing.   *)
(*                                                                         *)
(* A token is an access token and a refresh token, known by the numbers    *)
(* they were issued under; refresh 0 is an answer without a refresh token. *)
(* The expiry changes exactly when the access token does.                  *)
(*                                                                         *)
(* The service and oauth2's sources (config.TokenSource and the            *)
(* transport's) are external.  The service either replaces the refresh     *)
(* token at each refresh, which ends the old one, or leaves it alone; then *)
(* the answer may omit it.                                                 *)
(*                                                                         *)
(* AccessChanged, ToSaveAsIs and SaveFailsSilently are seeded faults: what *)
(* a plausible bug would make of the definition each precedes.             *)
(***************************************************************************)
EXTENDS AtomicFile, Naturals

CONSTANTS
    Run,        \* the run command, at the thread that is in Token
    Auth,       \* the auth command, a process of its own
    MayFail,    \* whether writing a file may fail at first
    MaxTokens   \* bound: how many tokens the service issues

Token == [access: 1..MaxTokens, refresh: 0..MaxTokens]

ASSUME TokenAssumption ==
    /\ Writers = {Run, Auth} /\ Auth # Run
    /\ Contents = Token
    /\ MayFail \in BOOLEAN /\ MaxTokens \in Nat

VARIABLES
    rotates,    \* whether the service replaces refresh tokens
    live,       \* the refresh tokens it honours
    issued,     \* how many tokens it has issued
    faulty,     \* whether writing a file may fail, still
    up,         \* whether the process runs
    inner,      \* config.TokenSource: its token, refresh token, and validity
    cached,     \* whether the transport has had a token since the start
    last,       \* persistingTokenSource.last
    pc          \* where the run command is in Token

service == <<rotates, live, issued>>
process == <<up, inner, cached, last, pc>>
vars == <<fileVars, service, faulty, process>>

NoToken == [access |-> 0, refresh |-> 0]
NoSource == [tok |-> NoToken, rt |-> 0, valid |-> FALSE]

----------------------------------------------------------------------------
(* Refreshing. *)

\* The token the service issues next, with refresh token r.
Issued(r) == [access |-> issued + 1, refresh |-> r]

Issues == issued < MaxTokens /\ issued' = issued + 1

\* oauth2's source refreshes, and keeps the refresh token it has if the answer
\* brings none.
Refresh(tok) ==
    /\ ~inner.valid /\ inner.rt \in live
    /\ Issues
    /\ IF rotates
       THEN tok = Issued(issued + 1) /\ live' = (live \ {inner.rt}) \cup {issued + 1}
       ELSE tok \in {Issued(0), Issued(inner.rt)} /\ live' = live
    /\ inner' = [tok |-> tok, rt |-> IF tok.refresh # 0 THEN tok.refresh ELSE inner.rt,
                 valid |-> TRUE]
    /\ UNCHANGED rotates

\* The transport asks for a token: it has none yet, or one that has expired.
\* (What it has is inner's token, whenever no call is underway.)
Asked == up /\ pc = "idle" /\ ~(cached /\ inner.valid)

\* inner.Token(), before the mutex is taken.  If it fails so does the call, and
\* nothing changes.
InnerToken ==
    /\ Asked
    /\ \/ inner.valid /\ UNCHANGED <<service, inner>>
       \/ \E tok \in Token : Refresh(tok)
    /\ pc' = "got"
    /\ UNCHANGED <<fileVars, faulty, up, cached, last>>

AccessChanged(old, new) == old.access # new.access /\ new.refresh # 0

TokenChanged(old, new) ==
    old.access # new.access \/ (new.refresh # 0 /\ new.refresh # old.refresh)

ToSaveAsIs(tok) == tok

\* A token without a refresh token keeps the one that was saved last.
ToSave(tok) == IF tok.refresh = 0 THEN [tok EXCEPT !.refresh = last.refresh] ELSE tok

\* The caller gets its token, and the transport has it from now on.
Returns == pc' = "idle" /\ cached' = TRUE

\* The token, inner's, is written if it changed.
Save ==
    /\ pc = "got"
    /\ IF TokenChanged(last, inner.tok)
       THEN CreateTemp(Run, ToSave(inner.tok)) /\ pc' = "saving" /\ UNCHANGED cached
       ELSE Returns /\ UNCHANGED fileVars
    /\ UNCHANGED <<service, faulty, up, inner, last>>

Saved ==
    /\ SyncDir(Run)
    /\ last' = given[Run]
    /\ Returns
    /\ UNCHANGED <<service, faulty, up, inner>>

SaveFailsSilently ==
    /\ faulty
    /\ WriteFails(Run)
    /\ last' = given[Run]
    /\ Returns
    /\ UNCHANGED <<service, faulty, up, inner>>

\* A warning is logged and the caller gets its token all the same.  The next
\* call, and with it the next save, is for want of a valid token.
SaveFails ==
    /\ faulty
    /\ WriteFails(Run)
    /\ Returns
    /\ UNCHANGED <<service, faulty, up, inner, last>>

----------------------------------------------------------------------------
(* Processes. *)

\* Client: the token is read from the file.  Without one there is ErrNeedsAuth,
\* with part of one ErrTokenUnreadable.
Client ==
    /\ ~up /\ up' = TRUE
    /\ entry.holds \in Token
    /\ last' = entry.holds
    /\ \E v \in BOOLEAN :
          inner' = [tok |-> entry.holds, rt |-> entry.holds.refresh, valid |-> v]
    /\ UNCHANGED <<fileVars, service, faulty, cached, pc>>

\* Authorize: a new grant, beside those there are.  (The last token is for the
\* process: otherwise the bound could keep it from refreshing.)
Authorize ==
    /\ Issues /\ issued' < MaxTokens
    /\ live' = live \cup {issued + 1}
    /\ CreateTemp(Auth, Issued(issued + 1))
    /\ UNCHANGED <<rotates, faulty, process>>

AuthEnds ==
    /\ SyncDir(Auth) \/ (faulty /\ WriteFails(Auth)) \/ (step[Auth] # "idle" /\ Killed({Auth}))
    /\ UNCHANGED <<service, faulty, process>>

ProcessGone ==
    /\ up' = FALSE
    /\ inner' = NoSource
    /\ cached' = FALSE
    /\ last' = NoToken
    /\ pc' = "idle"

Kill == up /\ ProcessGone /\ Killed({Run}) /\ UNCHANGED <<service, faulty>>

PowerFails == ProcessGone /\ PowerLost /\ UNCHANGED <<service, faulty>>

----------------------------------------------------------------------------
(* The service and the disk. *)

\* Not while no token is left to issue (a bound, not a rule of the service).
Expire ==
    /\ inner.valid /\ issued < MaxTokens
    /\ inner' = [inner EXCEPT !.valid = FALSE]
    /\ UNCHANGED <<fileVars, service, faulty, up, cached, last, pc>>

\* The owner revokes the app's access: every refresh token is dead.
Revoke ==
    /\ live # {} /\ live' = {}
    /\ UNCHANGED <<fileVars, rotates, issued, faulty, process>>

Repair == faulty /\ faulty' = FALSE /\ UNCHANGED <<fileVars, service, process>>

Writing(w) == WriteGoesOn(w) /\ UNCHANGED <<service, faulty, process>>

Init ==
    /\ FileInit
    /\ rotates \in BOOLEAN /\ live = {} /\ issued = 0
    /\ faulty = MayFail
    /\ up = FALSE /\ inner = NoSource /\ cached = FALSE /\ last = NoToken
    /\ pc = "idle"

Next ==
    \/ InnerToken \/ Save \/ Saved \/ SaveFails
    \/ \E w \in Writers : Writing(w)
    \/ Client \/ Authorize \/ AuthEnds
    \/ Kill \/ PowerFails
    \/ Expire \/ Revoke \/ Repair

Spec == Init /\ [][Next]_vars

\* Access tokens expire, a process that runs comes to want another, and a call
\* of Token goes on to its end.
Fairness ==
    /\ WF_vars(Expire) /\ WF_vars(InnerToken)
    /\ WF_vars(Save) /\ WF_vars(Writing(Run) \/ Saved)

FairSpec == Spec /\ Fairness

----------------------------------------------------------------------------
TypeOK ==
    /\ FileInv
    /\ rotates \in BOOLEAN /\ faulty \in BOOLEAN /\ up \in BOOLEAN /\ cached \in BOOLEAN
    /\ live \in SUBSET (1..MaxTokens) /\ issued \in 0..MaxTokens
    /\ inner \in [tok: Token \cup {NoToken}, rt: 0..MaxTokens, valid: BOOLEAN]
    /\ last \in Token \cup {NoToken}
    /\ pc \in {"idle", "got", "saving"}

\* Whatever stops a save, at whichever step (an error, a kill, the power), and
\* whatever the service's answer omits: once there is a token file, it holds a
\* whole token with a refresh token, and would after a loss of power.
NeverStripped == \A f \in kept : f.holds # Nothing => f.holds \in Token /\ f.holds.refresh # 0

AtRest == up /\ pc = "idle" /\ \A w \in Writers : step[w] = "idle"

\* What the next start of the process would find works.
Restartable == entry.holds \in Token /\ entry.holds.refresh \in live

\* When no call is underway and the source thinks it has saved the token in
\* force, a restart keeps the account if the process would: whatever refreshes,
\* failed saves and re-authorizations came before, a failed save is not taken
\* for a successful one, and what was saved is not replaced by less.
RotationKept ==
    (AtRest /\ last.access = inner.tok.access /\ inner.rt \in live) => Restartable

\* The save of the token in force has failed, or has not come to its end.
Lagging == up /\ last.access # inner.tok.access /\ inner.rt \in live

\* A failed save is made up for once the disk works: not before the access
\* token has expired, but when it is refreshed then the newer one is saved,
\* unless the process ends before, or the grant does.
EventuallySaved == (Lagging /\ ~faulty /\ issued < MaxTokens) ~> ~Lagging
=============================================================================
