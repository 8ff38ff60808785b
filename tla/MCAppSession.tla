---------------------------- MODULE MCAppSession ----------------------------
(***************************************************************************)
(* Instances of AppSession for TLC.                                        *)
(***************************************************************************)
EXTENDS AppSession, TLC

CONSTANTS dashboard, devices, children

Interchangeable == Permutations(Request)
=============================================================================
