-------------------------- MODULE FirewallContract --------------------------
(***************************************************************************)
(* What the main loop of the agent takes a firewall backend for, and what  *)
(* AgentCycle makes of it: a call either replaces the rules of a family by *)
(* exactly those of the policy it is given, or leaves them as they were,   *)
(* and it throws when that happens in the main family.  Only a rollback    *)
(* that cannot be done, or a crash, leaves anything else.                  *)
(***************************************************************************)
CONSTANTS
    Families, Main,         \* the rulesets kept apart; Main's failure throws
    Policies,
    Ruleset(_, _, _),       \* what a policy asks for in a family under a configuration
    InUse(_, _)             \* whether a configuration uses a family at all

VARIABLES
    config,     \* the configuration of the running agent
    asked,      \* the policy of the call in progress or last made
    installed,  \* the rules of each family
    broken,     \* the families a failed rollback has left half-applied
    refused,    \* the families whose last pass left things as they were
    result      \* "none" since the start, "busy" in a call, "ok" or "throw" after it

vars == <<config, asked, installed, broken, refused, result>>

Init ==
    /\ asked = {}
    /\ installed = [f \in Families |-> {}]
    /\ broken = {} /\ refused = {}
    /\ result = "none"

Call ==
    /\ result # "busy"
    /\ asked' \in Policies
    /\ result' = "busy"
    /\ UNCHANGED <<config, installed, broken, refused>>

Install(f) ==
    /\ result = "busy"
    /\ installed' = [installed EXCEPT ![f] = Ruleset(asked, f, config)]
    /\ broken' = broken \ {f}
    /\ refused' = refused \ {f}
    /\ result' \in {"busy", "ok"}
    /\ UNCHANGED <<config, asked>>

\* The rules are believed to be the policy's already.
Keep(f) ==
    /\ result = "busy"
    /\ refused' = refused \ {f}
    /\ result' \in {"busy", "ok"}
    /\ UNCHANGED <<config, asked, installed, broken>>

Refuse(f) ==
    /\ result = "busy"
    /\ refused' = refused \cup {f}
    /\ result' = IF f = Main THEN "throw" ELSE "ok"
    /\ UNCHANGED <<config, asked, installed, broken>>

\* No way back: the family is left with some of the old and some of the new.
Break(f) ==
    /\ result = "busy"
    /\ broken' = broken \cup {f}
    /\ installed' = [installed EXCEPT ![f] = installed'[f]]
    /\ installed'[f] \subseteq installed[f] \cup Ruleset(asked, f, config)
    /\ \/ UNCHANGED <<refused, result>>
       \/ refused' = refused \cup {f} /\ result' = IF f = Main THEN "throw" ELSE "ok"
    /\ UNCHANGED <<config, asked>>

\* The process ends and another one starts; its configuration may differ.
Stop ==
    /\ asked' = {} /\ broken' = {} /\ refused' = {}
    /\ result' = "none"

Next ==
    \/ Call \/ Stop
    \/ \E f \in Families : Install(f) \/ Keep(f) \/ Refuse(f) \/ Break(f)

\* A call that ends well has installed exactly its policy.
OkMeansInstalled ==
    result = "ok" =>
        \A f \in Families \ (broken \cup refused) :
            InUse(config, f) => installed[f] = Ruleset(asked, f, config)

Spec == Init /\ [][Next]_vars /\ []OkMeansInstalled
=============================================================================
