----------------------------- MODULE WebUIProofs -----------------------------
(***************************************************************************)
(* Proofs about WebUI, for any number of requests side by side: no save    *)
(* loses a setting that locks the operator out, a save that was reported   *)
(* stays, and the status never mixes two passes.                           *)
(***************************************************************************)
EXTENDS WebUI, TLAPS

\* The blocks handlePutConfig carries over from the file when the request
\* leaves them out.
Carried == {"token", "enabled", "hook"}

\* What a save has decoded, merged and given to the disk: as sent, then with
\* every carried block as somebody asked for.
Fit(r) ==
    /\ at[r] \in {"decoded", "merged"} => has[r] \in Config
    /\ at[r] = "decoded" => \A b \in Carried : has[r][b] \in asked[b] \cup {Omitted(b)}
    /\ at[r] = "merged" => \A b \in Carried : has[r][b] \in asked[b]

FitToWrite(r) == writing[r] # Missing =>
    writing[r].form \in GoodForms /\ \A b \in Carried : writing[r][b] \in asked[b]

SavesOK == \A r \in Requests : Fit(r) /\ FitToWrite(r)

Syncing(r) == at[r] \in {"reload", "pass"}

\* One request holds the lock, and its pass is the last one that started.
LockOK ==
    /\ busy <=> \E r \in Requests : Syncing(r)
    /\ \A r, s \in Requests : Syncing(r) /\ Syncing(s) => r = s
    /\ \A r \in Requests : /\ at[r] = "reload" => attempt = clock
                           /\ at[r] = "pass" => started[r] = clock /\ attempt < clock
    /\ success <= attempt

\* The save that replaced the file last, if it is under way, wrote what is there.
LatestOK == latest \in landed => file \in Config

IInv == TypeOK /\ SavesOK /\ LatestOK /\ NeverLockedOut /\ SavedStays /\ LockOK /\ StatusTells

Stages == {"idle", "decoded", "merged", "saving", "reload", "pass"}

Good == {c \in Config : c.form \in GoodForms}

----------------------------------------------------------------------------
LEMMA InitInv == Init => IInv
<1> SUFFICES ASSUME Init PROVE IInv
  OBVIOUS
<1>1. file \in Good /\ survives = {file} /\ file # Broken
  BY WebUIAssumption DEF Init, Good
<1>2. TypeOK
  <2>1. up \in BOOLEAN /\ busy \in BOOLEAN /\ failed \in BOOLEAN
    BY Zenon DEF Init
  <2>2. {clock, attempt, success, took, last} \subseteq 0..MaxPasses
    BY WebUIAssumption DEF Init
  <2> QED
    BY <1>1, <2>1, <2>2, WebUIAssumption DEF Init, TypeOK, Good
<1>3. SavesOK /\ LatestOK /\ SavedStays /\ LockOK /\ StatusTells
  BY DEF Init, SavesOK, Fit, FitToWrite, LatestOK, SavedStays, LockOK, Syncing, StatusTells
<1>4. NeverLockedOut
  BY <1>1 DEF Init, NeverLockedOut, AsAsked, Blocks
<1> QED
  BY <1>2, <1>3, <1>4 DEF IInv

\* Merging keeps every carried block to what was asked for, takes the form as it
\* was sent, and yields a configuration.
LEMMA MergedCarries ==
    ASSUME NEW sent \in Config, NEW old \in Config,
           \A b \in Carried : sent[b] \in asked[b] \cup {Omitted(b)},
           \A b \in Carried : old[b] \in asked[b]
    PROVE  /\ Merged(sent, old) \in Config /\ Merged(sent, old).form = sent.form
           /\ \A b \in Carried : Merged(sent, old)[b] \in asked[b]
<1> DEFINE m == Merged(sent, old)
<1>1. /\ m.token = Carry(sent.token, old.token) /\ m.hook = Carry(sent.hook, old.hook)
      /\ m.form = sent.form /\ m.metrics = sent.metrics
  BY DEF Merged, Config
<1>2. m.enabled = (sent.enabled \/ old.enabled) /\ m = [sent EXCEPT !.token = m.token, !.enabled = m.enabled, !.hook = m.hook]
  BY DEF Merged, Config
<1>3. m.token \in (Tokens \cup {Unset}) \cap asked["token"] /\ m.hook \in (Hooks \cup {Unset}) \cap asked["hook"]
  BY <1>1 DEF Carry, Carried, Omitted, Config
<1>4. m.enabled \in BOOLEAN
  BY <1>2, Zenon
<1>5. m.enabled \in asked["enabled"]
  <2>1. sent.enabled \in BOOLEAN /\ old.enabled \in BOOLEAN
    BY Zenon DEF Config
  <2>2. old.enabled \in asked["enabled"] /\ sent.enabled \in asked["enabled"] \cup {FALSE}
    BY DEF Carried, Omitted
  <2>3. CASE sent.enabled = TRUE
    BY <1>2, <2>1, <2>2, <2>3
  <2>4. CASE sent.enabled = FALSE
    BY <1>2, <2>1, <2>2, <2>4
  <2> QED
    BY <2>1, <2>3, <2>4
<1>6. m \in Config
  BY <1>2, <1>3, <1>4 DEF Config
<1> HIDE DEF m
<1>7. \A b \in Carried : m[b] \in asked[b]
  BY <1>3, <1>5 DEF Carried
<1> QED
  BY <1>1, <1>6, <1>7 DEF m

----------------------------------------------------------------------------
(* The types. *)

LEMMA TypeStep ==
    ASSUME IInv, [Next]_vars
    PROVE  TypeOK'
<1> USE WebUIAssumption DEF IInv, TypeOK, Goes, disk, saves, state, passes
<1>1. ASSUME NEW r \in Requests, Put(r) PROVE TypeOK'
  BY <1>1 DEF Put
<1>2. ASSUME NEW r \in Requests, Merge(r) PROVE TypeOK'
  <2>1. CASE Loads
    <3>1. Merged(has[r], file) \in Config
      BY <1>2, <2>1, MergedCarries DEF Merge, Loads, SavesOK, Fit, NeverLockedOut, AsAsked, Carried
    <3> QED
      BY <1>2, <2>1, <3>1 DEF Merge
  <2>2. CASE ~Loads
    BY <1>2, <2>2 DEF Merge
  <2> QED
    BY <2>1, <2>2
<1>3. ASSUME NEW r \in Requests, Save(r) PROVE TypeOK'
  <2>1. has[r] \in Config
    BY <1>3 DEF Save, SavesOK, Fit
  <2> QED
    BY <1>3, <2>1 DEF Save, Disk!Begin
<1>4. ASSUME NEW r \in Requests, Replace(r) PROVE TypeOK'
  <2>1. writing[r] \in Good
    BY <1>4 DEF Replace, Disk!Replace, SavesOK, FitToWrite, Good
  <2> QED
    BY <1>4, <2>1 DEF Replace, Disk!Replace, Good
<1>5. ASSUME NEW r \in Requests, Saved(r) PROVE TypeOK'
  <2>1. told' \in Config \cup {Missing} /\ writing' \in [Requests -> Config \cup {Missing}]
    BY <1>5 DEF Saved, Disk!Succeed, Disk!Over, Told, LatestOK
  <2>2. survives' = {file} /\ landed' \subseteq Requests /\ file' = file
    BY <1>5 DEF Saved, Disk!Succeed, Disk!Over
  <2> QED
    BY <1>5, <2>1, <2>2 DEF Saved
<1>6. ASSUME NEW r \in Requests, SaveFails(r) PROVE TypeOK'
  BY <1>6 DEF SaveFails, Disk!Fail, Disk!Over
<1> DEFINE PassTypes == /\ busy \in BOOLEAN /\ failed \in BOOLEAN
                        /\ started \in [Requests -> 0..MaxPasses]
                        /\ {clock, attempt, success, took, last} \subseteq 0..MaxPasses
<1> DEFINE FileTypes == /\ file \in Good \cup {Broken} /\ survives \subseteq Good \cup {Broken}
                        /\ writing \in [Requests -> Config \cup {Missing}] /\ landed \subseteq Requests
                        /\ has \in [Requests -> Config \cup {Missing}]
                        /\ latest \in Requests \cup {Missing} /\ told \in Config \cup {Missing}
<1>a. /\ PassTypes /\ FileTypes
      /\ PassTypes' /\ FileTypes' /\ up' \in BOOLEAN /\ at' \in [Requests -> Stages] => TypeOK'
  BY DEF Good, Stages
<1>7. ASSUME NEW r \in Requests, PressSync(r) \/ Reload(r) \/ ReloadFails(r) PROVE TypeOK'
  <2>1. PassTypes'
    <3>1. CASE PressSync(r)
      BY <3>1 DEF PressSync
    <3>2. CASE Reload(r)
      BY <3>2 DEF Reload
    <3>3. CASE ReloadFails(r)
      BY <3>3 DEF ReloadFails
    <3> QED
      BY <1>7, <3>1, <3>2, <3>3
  <2>2. at' \in [Requests -> Stages] /\ up' \in BOOLEAN
    BY <1>7 DEF PressSync, Reload, ReloadFails, Stages
  <2>3. FileTypes'
    BY <1>7, <1>a DEF PressSync, Reload, ReloadFails
  <2> QED
    BY <1>a, <2>1, <2>2, <2>3
<1>8. ASSUME NEW r \in Requests, NEW ran \in BOOLEAN, NEW ok \in BOOLEAN, PassEnds(r, ran, ok)
      PROVE TypeOK'
  <2>1. {clock', attempt', success', took', last'} \subseteq 0..MaxPasses
    BY <1>8 DEF PassEnds, Record
  <2>2. failed' \in BOOLEAN /\ busy' \in BOOLEAN
    BY <1>8, Zenon DEF PassEnds, Record
  <2>3. at' \in [Requests -> Stages] /\ up' \in BOOLEAN /\ started' \in [Requests -> 0..MaxPasses]
    BY <1>8 DEF PassEnds, Stages
  <2>4. FileTypes'
    BY <1>8, <1>a DEF PassEnds
  <2> QED
    BY <1>a, <2>1, <2>2, <2>3, <2>4
<1>9. ASSUME Gone PROVE PassTypes' /\ up' \in BOOLEAN /\ at' \in [Requests -> Stages] /\ has' \in [Requests -> Config \cup {Missing}]
  <2>1. failed' \in BOOLEAN /\ busy' \in BOOLEAN /\ up' \in BOOLEAN
    BY <1>9, Zenon DEF Gone
  <2> QED
    BY <1>9, <2>1 DEF Gone, Stages
<1>10. CASE Kill
  <2>1. FileTypes'
    BY <1>9, <1>10, <1>a DEF Kill, Gone, Disk!Kill
  <2> QED
    BY <1>9, <1>10, <1>a, <2>1 DEF Kill
<1>11. CASE PowerFails
  <2>1. FileTypes'
    BY <1>9, <1>11, <1>a DEF PowerFails, Gone, Disk!PowerLoss
  <2> QED
    BY <1>9, <1>11, <1>a, <2>1 DEF PowerFails
<1>12. CASE Start
  BY <1>12 DEF Start
<1>13. CASE Edit
  BY <1>13 DEF Edit
<1>14. CASE UNCHANGED vars
  BY <1>14 DEF vars
<1> QED
  BY <1>1, <1>2, <1>3, <1>4, <1>5, <1>6, <1>7, <1>8, <1>10, <1>11, <1>12, <1>13, <1>14
  DEF Next, SaveGoesOn, SyncGoesOn

----------------------------------------------------------------------------
(* The file. *)

\* What somebody asked for stays asked for.
LEMMA AskedGrows ==
    ASSUME IInv, [Next]_vars, NEW b \in Blocks
    PROVE  asked[b] \subseteq asked'[b]
<1> USE DEF disk, saves, state, passes
<1>1. ASSUME NEW r \in Requests, Put(r) PROVE asked[b] \subseteq asked'[b]
  BY <1>1 DEF Put, Asks
<1>2. CASE Edit
  BY <1>2 DEF Edit
<1>3. ASSUME asked' = asked PROVE asked[b] \subseteq asked'[b]
  BY <1>3
<1>4. ASSUME NEW r \in Requests, SaveGoesOn(r) \/ PressSync(r) \/ SyncGoesOn(r) PROVE asked' = asked
  BY <1>4 DEF SaveGoesOn, Merge, Save, Replace, Saved, SaveFails, PressSync, SyncGoesOn, Reload,
    ReloadFails, PassEnds
<1>5. CASE Kill \/ PowerFails \/ Start \/ UNCHANGED vars
  BY <1>3, <1>5 DEF Kill, PowerFails, Gone, Start, vars
<1> QED
  BY <1>1, <1>2, <1>3, <1>4, <1>5 DEF Next

\* The blocks of a file that loads, or may, are as asked for.
LEMMA CarriedAsked ==
    NeverLockedOut <=> \A b \in Carried : AsAsked(b)
BY DEF NeverLockedOut, Carried

\* Every step keeps the carried blocks of the file as somebody asked for.
LEMMA FileStep ==
    ASSUME IInv, [Next]_vars
    PROVE  NeverLockedOut'
<1>0. Carried \subseteq Blocks
  BY DEF Carried, Blocks
<1> SUFFICES ASSUME NEW b \in Carried, NEW c \in survives' \cup {file'}, c # Broken
             PROVE  c[b] \in asked'[b]
  BY DEF NeverLockedOut, AsAsked, Carried
<1>1. asked[b] \subseteq asked'[b]
  BY <1>0, AskedGrows
<1>2. ASSUME c \in survives \cup {file} PROVE c[b] \in asked'[b]
  BY <1>1, <1>2, CarriedAsked DEF IInv, AsAsked
<1> USE DEF disk, saves, state, passes
<1>3. ASSUME NEW r \in Requests, Replace(r) PROVE c[b] \in asked'[b]
  <2>1. writing[r][b] \in asked[b]
    BY <1>3, WebUIAssumption DEF Replace, Disk!Replace, IInv, SavesOK, FitToWrite
  <2>2. c \in survives \cup {file, writing[r]}
    BY <1>3 DEF Replace, Disk!Replace
  <2> QED
    BY <1>1, <1>2, <2>1, <2>2
<1>4. CASE Edit
  <2>1. PICK d \in ByHand \cup {Broken} :
           file' = d /\ survives' = {d}
           /\ (d \in Config => asked' = [x \in Blocks |-> asked[x] \cup {d[x]}])
    BY <1>4 DEF Edit
  <2>2. c = d /\ d \in Config
    BY <2>1, WebUIAssumption
  <2> QED
    BY <1>0, <2>1, <2>2
<1>5. ASSUME NEW r \in Requests,
             Put(r) \/ Merge(r) \/ Save(r) \/ Saved(r) \/ SaveFails(r) \/ PressSync(r) \/ SyncGoesOn(r)
      PROVE  c \in survives \cup {file}
  BY <1>5 DEF Put, Merge, Save, Disk!Begin, Saved, Disk!Succeed, SaveFails, Disk!Fail, Disk!Over,
    PressSync, SyncGoesOn, Reload, ReloadFails, PassEnds
<1>6. ASSUME Kill \/ PowerFails \/ Start \/ UNCHANGED vars PROVE c \in survives \cup {file}
  BY <1>6 DEF Kill, Disk!Kill, PowerFails, Disk!PowerLoss, Start, vars
<1> QED
  BY <1>2, <1>3, <1>4, <1>5, <1>6 DEF Next, SaveGoesOn

\* Every step keeps what saves have in hand fit to be written.
LEMMA SavesStep ==
    ASSUME IInv, [Next]_vars
    PROVE  SavesOK'
<1>0. Carried \subseteq Blocks
  BY DEF Carried, Blocks
<1> SUFFICES ASSUME NEW q \in Requests PROVE Fit(q)' /\ FitToWrite(q)'
  BY DEF SavesOK
<1>1. \A b \in Carried : asked[b] \subseteq asked'[b]
  BY <1>0, AskedGrows
<1>2. Fit(q) /\ FitToWrite(q)
  BY DEF IInv, SavesOK
<1>3. ASSUME (at'[q] = at[q] /\ has'[q] = has[q]) \/ at'[q] \notin {"decoded", "merged"} PROVE Fit(q)'
  BY <1>1, <1>2, <1>3 DEF Fit
<1>4. ASSUME writing'[q] \in {writing[q], Missing} PROVE FitToWrite(q)'
  BY <1>1, <1>2, <1>4 DEF FitToWrite
<1> USE WebUIAssumption DEF IInv, TypeOK, Goes, disk, saves, state, passes
<1>5. ASSUME NEW r \in Requests, Put(r) PROVE Fit(q)' /\ FitToWrite(q)'
  <2>1. PICK d \in Bodies : has' = [has EXCEPT ![r] = d] /\ Asks(d)
    BY <1>5 DEF Put
  <2>2. \A b \in Carried : d[b] \in asked'[b] \cup {Omitted(b)}
    BY <1>0, <2>1 DEF Asks
  <2>3. CASE q = r
    BY <1>4, <1>5, <2>1, <2>2, <2>3 DEF Put, Fit
  <2>4. CASE q # r
    BY <1>3, <1>4, <1>5, <2>1, <2>4 DEF Put
  <2> QED
    BY <2>3, <2>4
<1>6. ASSUME NEW r \in Requests, Merge(r) PROVE Fit(q)' /\ FitToWrite(q)'
  <2>1. CASE q = r /\ Loads
    <3>1. \A b \in Carried : has[r][b] \in asked[b] \cup {Omitted(b)} /\ file[b] \in asked[b]
      BY <1>6, <2>1, CarriedAsked DEF Merge, Loads, SavesOK, Fit, AsAsked
    <3>2. has[r] \in Config /\ file \in Config
      BY <1>6, <2>1 DEF Merge, Loads, SavesOK, Fit
    <3>3. has'[r] = Merged(has[r], file) /\ at'[r] = "merged"
      BY <1>6, <2>1 DEF Merge
    <3> QED
      BY <1>1, <1>4, <1>6, <2>1, <3>1, <3>2, <3>3, MergedCarries DEF Merge, Fit
  <2>2. CASE ~(q = r /\ Loads)
    BY <1>3, <1>4, <1>6, <2>2 DEF Merge
  <2> QED
    BY <2>1, <2>2
<1>7. ASSUME NEW r \in Requests, Save(r) PROVE Fit(q)' /\ FitToWrite(q)'
  <2>1. Fit(q)'
    BY <1>3, <1>7 DEF Save
  <2>2. CASE q = r /\ Validate(has[r])
    BY <1>1, <1>7, <2>2 DEF Save, Validate, Disk!Begin, SavesOK, Fit, FitToWrite
  <2>3. CASE ~(q = r /\ Validate(has[r]))
    BY <1>4, <1>7, <2>1, <2>3 DEF Save, Disk!Begin
  <2> QED
    BY <2>1, <2>2, <2>3
<1>8. ASSUME NEW r \in Requests, Replace(r) PROVE Fit(q)' /\ FitToWrite(q)'
  BY <1>3, <1>4, <1>8 DEF Replace, Disk!Replace
<1>9. ASSUME NEW r \in Requests, Saved(r) \/ SaveFails(r) PROVE Fit(q)' /\ FitToWrite(q)'
  BY <1>3, <1>4, <1>9 DEF Saved, SaveFails, Disk!Succeed, Disk!Fail, Disk!Over
<1>10. ASSUME NEW r \in Requests, PressSync(r) \/ SyncGoesOn(r) PROVE Fit(q)' /\ FitToWrite(q)'
  BY <1>3, <1>4, <1>10 DEF PressSync, SyncGoesOn, Reload, ReloadFails, PassEnds
<1>11. ASSUME Kill \/ PowerFails PROVE Fit(q)' /\ FitToWrite(q)'
  BY <1>3, <1>4, <1>11 DEF Kill, PowerFails, Gone, Disk!Kill, Disk!PowerLoss
<1>12. ASSUME Start \/ Edit \/ UNCHANGED vars PROVE Fit(q)' /\ FitToWrite(q)'
  BY <1>3, <1>4, <1>12 DEF Start, Edit, vars
<1> QED
  BY <1>5, <1>6, <1>7, <1>8, <1>9, <1>10, <1>11, <1>12 DEF Next, SaveGoesOn

\* Every step keeps the file that was reported saved, or replaces it.
LEMMA SavedStep ==
    ASSUME IInv, [Next]_vars
    PROVE  SavedStays' /\ LatestOK'
<1> USE WebUIAssumption DEF IInv, SavedStays, LatestOK, TypeOK, disk, saves, state, passes
<1>1. ASSUME NEW r \in Requests, Replace(r) PROVE SavedStays' /\ LatestOK'
  BY <1>1 DEF Replace, Disk!Replace
<1>2. ASSUME NEW r \in Requests, Saved(r) PROVE SavedStays' /\ LatestOK'
  BY <1>2 DEF Saved, Told, Disk!Succeed, Disk!Over
<1>3. ASSUME NEW r \in Requests, SaveFails(r) PROVE SavedStays' /\ LatestOK'
  BY <1>3 DEF SaveFails, Disk!Fail, Disk!Over
<1>4. ASSUME NEW r \in Requests, Put(r) \/ Merge(r) \/ Save(r) \/ PressSync(r) \/ SyncGoesOn(r)
      PROVE SavedStays' /\ LatestOK'
  BY <1>4 DEF Put, Merge, Save, Disk!Begin, PressSync, SyncGoesOn, Reload, ReloadFails, PassEnds
<1>5. CASE Kill \/ PowerFails
  BY <1>5 DEF Kill, PowerFails, Gone, Disk!Kill, Disk!PowerLoss
<1>6. CASE Edit
  BY <1>6 DEF Edit
<1>7. CASE Start \/ UNCHANGED vars
  BY <1>7 DEF Start, vars
<1> QED
  BY <1>1, <1>2, <1>3, <1>4, <1>5, <1>6, <1>7 DEF Next, SaveGoesOn

----------------------------------------------------------------------------
(* The status. *)

\* Every step keeps to one pass at a time, the last that started.
LEMMA LockStep ==
    ASSUME IInv, [Next]_vars
    PROVE  LockOK' /\ StatusTells'
<1> USE DEF LockOK, StatusTells, Syncing
<1>0. /\ LockOK /\ StatusTells /\ at \in [Requests -> Stages] /\ started \in [Requests -> 0..MaxPasses]
      /\ clock \in Nat /\ attempt \in Nat /\ success \in Nat /\ last \in Nat /\ failed \in BOOLEAN
  BY WebUIAssumption DEF IInv, TypeOK, Stages
<1>1. ASSUME NEW r \in Requests, PressSync(r) PROVE LockOK' /\ StatusTells'
  BY <1>0, <1>1 DEF PressSync, Goes, state
<1>2. ASSUME NEW r \in Requests, Reload(r) PROVE LockOK' /\ StatusTells'
  <2>1. busy /\ \A s \in Requests : Syncing(s) => s = r
    BY <1>0, <1>2 DEF Reload, Goes
  <2>2. clock' = attempt + 1 /\ started'[r] = clock' /\ at' = [at EXCEPT ![r] = "pass"]
    BY <1>0, <1>2 DEF Reload, Goes
  <2> QED
    BY <1>0, <1>2, <2>1, <2>2 DEF Reload, state
<1>3. ASSUME NEW r \in Requests, ReloadFails(r) PROVE LockOK' /\ StatusTells'
  <2>1. attempt = clock /\ \A s \in Requests : Syncing(s) => s = r
    BY <1>0, <1>3 DEF ReloadFails, Goes
  <2> QED
    BY <1>0, <1>3, <2>1 DEF ReloadFails, Goes, state
<1>4. ASSUME NEW r \in Requests, NEW ran \in BOOLEAN, NEW ok \in BOOLEAN, PassEnds(r, ran, ok)
      PROVE  LockOK' /\ StatusTells'
  <2>1. started[r] = clock /\ attempt < clock /\ \A s \in Requests : Syncing(s) => s = r
    BY <1>0, <1>4 DEF PassEnds, Goes
  <2>2. \A s \in Requests : ~Syncing(s)'
    BY <1>0, <1>4, <2>1 DEF PassEnds, Goes
  <2>3. attempt' = clock /\ clock' = clock /\ busy' = FALSE /\ last' \in {last, clock}
    BY <1>4, <2>1 DEF PassEnds, Record
  <2>4. CASE ok
    <3>1. failed' = FALSE /\ success' = clock /\ took' = clock
      BY <1>4, <2>1, <2>4 DEF PassEnds, Record
    <3> QED
      BY <1>0, <2>1, <2>2, <2>3, <3>1
  <2>5. CASE ~ok
    <3>1. failed' = TRUE /\ success' = success /\ took' = took
      BY <1>4, <2>1, <2>5 DEF PassEnds, Record
    <3> QED
      BY <1>0, <2>1, <2>2, <2>3, <3>1
  <2> QED
    BY <2>4, <2>5
<1>5. ASSUME NEW r \in Requests, Put(r) \/ SaveGoesOn(r) PROVE LockOK' /\ StatusTells'
  <2>1. UNCHANGED passes
    BY <1>5 DEF Put, SaveGoesOn, Merge, Save, Replace, Saved, SaveFails, saves
  <2>2. \A s \in Requests : at'[s] = at[s] \/ (~Syncing(s) /\ ~Syncing(s)')
    BY <1>0, <1>5 DEF Put, SaveGoesOn, Merge, Save, Replace, Saved, SaveFails, Goes
  <2> QED
    BY <1>0, <2>1, <2>2 DEF passes, state
<1>6. CASE Kill \/ PowerFails
  BY <1>6 DEF Kill, PowerFails, Gone
<1>7. CASE Start \/ Edit \/ UNCHANGED vars
  BY <1>0, <1>7 DEF Start, Edit, vars, passes, state
<1> QED
  BY <1>1, <1>2, <1>3, <1>4, <1>5, <1>6, <1>7 DEF Next, SyncGoesOn

----------------------------------------------------------------------------

\* The inductive invariant: the types, that what saves have in hand is fit to
\* be written, and that the pass under way is the last one that started.
THEOREM Invariant == Spec => []IInv
<1>1. IInv /\ [Next]_vars => IInv'
  BY TypeStep, SavesStep, SavedStep, FileStep, LockStep DEF IInv
<1> QED
  BY <1>1, InitInv, PTL DEF Spec

\* The file, the requests and what the status shows have their types: whatever
\* replaces the file is a configuration that loads, or the operator's own.
THEOREM TypeCorrect == Spec => []TypeOK
<1>1. IInv => TypeOK
  BY DEF IInv
<1> QED
  BY <1>1, Invariant, PTL

\* Saves by any number of requests at a time, among edits, crashes and losses of
\* power, never lose the auth token, web_ui.enabled or the webhook block.
THEOREM OperatorKeepsAccess == Spec => []NeverLockedOut
<1>1. IInv => NeverLockedOut
  BY DEF IInv
<1> QED
  BY <1>1, Invariant, PTL

\* A save that was reported stays until another save or the operator replaces it.
THEOREM ReportedSaveStays == Spec => []SavedStays
<1>1. IInv => SavedStays
  BY DEF IInv
<1> QED
  BY <1>1, Invariant, PTL

\* What the status shows together is of passes that fit together.
THEOREM StatusConsistent == Spec => []StatusTells
<1>1. IInv => StatusTells
  BY DEF IInv
<1> QED
  BY <1>1, Invariant, PTL

\* Passes on demand never overlap, however many requests press the button.
OnePassAtATime == \A r, s \in Requests : Syncing(r) /\ Syncing(s) => r = s

\* TryLock lets one request through to the pass, and the next one only when the
\* first is done with it.
THEOREM PassesExclude == Spec => []OnePassAtATime
<1>1. IInv => OnePassAtATime
  BY DEF IInv, LockOK, OnePassAtATime
<1> QED
  BY <1>1, Invariant, PTL
=============================================================================
