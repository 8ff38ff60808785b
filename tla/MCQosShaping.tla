---------------------------- MODULE MCQosShaping ----------------------------
(***************************************************************************)
(* Instances of QosShaping for TLC.                                        *)
(***************************************************************************)
EXTENDS QosShaping

CONSTANTS tablet, console, lan, wan

L(d, i, c, m) == [device |-> d, ifaces |-> {i}, class |-> c, matches |-> m]

\* A download limit, a category limit with two addresses whose class id collides
\* with it, and an upload limit on the other interface.
Limits3 ==
    {L(tablet, lan, 256, {"dst"}), L(console, lan, 256, {"ip1", "ip2"}),
     L(tablet, wan, 257, {"src"})}
=============================================================================
