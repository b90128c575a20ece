------------------------------ MODULE MCWebUI ------------------------------
(***************************************************************************)
(* An instance of WebUI for TLC: two requests at a time, two tokens the    *)
(* operator may set, a page that sends a form and nothing else, and a      *)
(* client that sends a webhook block with it.                              *)
(***************************************************************************)
EXTENDS WebUI

CONSTANTS r1, r2, good, bad, t1, t2, h1, h2, on

Page(f) == [form |-> f, token |-> Unset, enabled |-> FALSE, hook |-> Unset, metrics |-> Unset]

MCBodies == {Page(good), Page(bad), [Page(good) EXCEPT !.hook = h2]}

Hand(t) == [form |-> good, token |-> t, enabled |-> TRUE, hook |-> h1, metrics |-> on]

MCByHand == {Hand(t1), Hand(t2)}
=============================================================================
