------------------------- MODULE MCRouterCommands -------------------------
(***************************************************************************)
(* Instances of RouterCommands for TLC.                                    *)
(***************************************************************************)
EXTENDS RouterCommands

CONSTANT tablet

\* Strategies with and without an inverse, and one no table knows.
Lists ==
    [t \in Types |->
        CASE t = "END_GAMING_SESSION" -> {<<"DISCONNECT_CLIENT", "BLOCK_MAC", "PAUSE_DEVICE">>}
          [] t \in {"BLOCK_DEVICE", "UNBLOCK_DEVICE"} ->
                {<<"NOT_A_REAL_STRATEGY", "PAUSE_DEVICE", "BLOCK_MAC">>}
          [] OTHER -> {<<>>}]

OneList == [t \in Types |-> {<<"PAUSE_DEVICE">>}]
=============================================================================
