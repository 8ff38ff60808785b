----------------------------- MODULE MCIspPolicy -----------------------------
(***************************************************************************)
(* Instances of IspPolicy for TLC.                                         *)
(***************************************************************************)
EXTENDS IspPolicy, TLC

CONSTANTS s1, s2, ip1, ip2, lan1, lan2, mac1, mac2, bng1, bng2

Interchangeable == Permutations(Subscriber) \cup Permutations(AccessIp)
=============================================================================
