------------------------------ MODULE SafeFile ------------------------------
(***************************************************************************)
(* What internal/atomicfile promises of a file, whoever writes it and      *)
(* whatever stops them: a reader gets contents some call was given, never  *)
(* a part of them; a call that returns nil has made the file survive a     *)
(* loss of power as it is then; one that returns an error has promised     *)
(* nothing.                                                                *)
(***************************************************************************)
CONSTANTS
    Writers,    \* the threads that may call Write
    Contents,   \* what they may write
    Nothing,    \* no contents: there is no file, no call is underway
    Done        \* as Nothing, and the last call has returned nil

VARIABLES
    file,       \* what a reader of the path gets
    survives,   \* what the path may hold after a loss of power
    writing,    \* what each call underway has been given, or how the last one ended
    landed      \* the calls underway that have replaced the file

Begin(w, v) ==
    /\ writing[w] \in {Nothing, Done}
    /\ writing' = [writing EXCEPT ![w] = v]
    /\ UNCHANGED <<file, survives, landed>>

Replace(w) ==
    /\ writing[w] \in Contents /\ w \notin landed
    /\ file' = writing[w]
    /\ survives' = survives \cup {writing[w]}
    /\ landed' = landed \cup {w}
    /\ UNCHANGED writing

Over(w, result) ==
    /\ writing' = [writing EXCEPT ![w] = result]
    /\ landed' = landed \ {w}

Succeed(w) == w \in landed /\ Over(w, Done) /\ survives' = {file} /\ UNCHANGED file

Fail(w) == writing[w] \in Contents /\ Over(w, Nothing) /\ UNCHANGED <<file, survives>>

\* The process whose threads are ws is killed.
Kill(ws) ==
    /\ writing' = [w \in Writers |-> IF w \in ws THEN Nothing ELSE writing[w]]
    /\ landed' = landed \ ws
    /\ UNCHANGED <<file, survives>>

PowerLoss ==
    /\ file' \in survives /\ survives' = {file'}
    /\ writing' = [w \in Writers |-> Nothing]
    /\ landed' = {}

Init ==
    /\ file \in Contents \cup {Nothing} /\ survives = {file}
    /\ writing = [w \in Writers |-> Nothing] /\ landed = {}

Next ==
    \/ \E w \in Writers : \/ \E v \in Contents : Begin(w, v)
                          \/ Replace(w) \/ Succeed(w) \/ Fail(w)
    \/ \E ws \in SUBSET Writers : Kill(ws)
    \/ PowerLoss

Spec == Init /\ [][Next]_<<file, survives, writing, landed>>
=============================================================================
