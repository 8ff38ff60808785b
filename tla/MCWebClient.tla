---------------------------- MODULE MCWebClient ----------------------------
(* Two calls under way at most, one list, two entries.                     *)
EXTENDS WebClient

CONSTANTS r1, r2, e1, e2
=============================================================================
