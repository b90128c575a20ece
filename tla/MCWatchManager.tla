--------------------------- MODULE MCWatchManager ---------------------------
(***************************************************************************)
(* Instances of WatchManager for TLC: one or two calendars, and for each   *)
(* as many channels as may be live at once: the current one, the one it    *)
(* replaces, and one that was lost.                                        *)
(***************************************************************************)
EXTENDS WatchManager

CONSTANTS A, B, c1, c2, c3
=============================================================================
