--------------------------- MODULE RouterCommands ---------------------------
(***************************************************************************)
(* The router command executor of the agent (router-command-executor.js):  *)
(* it fetches the commands the backend holds as pending, runs them one by  *)
(* one through a router plugin and acknowledges each.  Calls of the plugin *)
(* and of the backend may fail before or after they took effect, and the   *)
(* agent may be restarted between any two of them.                         *)
(*                                                                         *)
(* The router is the number of GuardTime rules it holds for each device in *)
(* each slot.  As in the OpenWrt and MikroTik plugins pausing a device and *)
(* adding a firewall rule are the same, adding does not look for a rule    *)
(* that is there, and removing takes away one.                             *)
(***************************************************************************)
EXTENDS Naturals, Sequences, FiniteSets

CONSTANTS
    Device,
    Types,          \* the command types in scope
    StrategyLists,  \* the strategy lists the backend sends with each type
    MaxCommands,    \* bound: commands
    MaxFaults,      \* bound: failures of any kind
    Faults          \* kinds of failure in scope, a subset of AllFaults

AllFaults == {"refused", "unanswered", "rollback", "ack", "throw", "restart"}

ASSUME CommandsAssumption ==
    /\ MaxCommands \in Nat /\ MaxFaults \in Nat
    /\ Faults \subseteq AllFaults
    /\ \A t \in Types : StrategyLists[t] \subseteq Seq(STRING)

VARIABLES
    commands,   \* what the backend queued, oldest first
    status,     \* the backend's record: "pending", "ok" or "failed"
    batch,      \* the commands of this sync() still to run, by number
    phase,      \* what the executor does next
    at,         \* the strategy it is at
    result,     \* result.success of the command that ran
    rules,      \* rules in the router
    before,     \* ghost: the rules when the command started
    clean,      \* ghost: no call of the plugin misbehaved in this command
    last,       \* ghost: each device's last command that ran to its end
    faults      \* failures so far

queue == <<commands, status>>
ghosts == <<before, last>>
vars == <<queue, batch, phase, at, result, rules, ghosts, clean, faults>>

Slot == {"rule", "mac"}
NoRules == [s \in Slot |-> 0]
NoCommand == [type |-> "none", ok |-> FALSE]

STRATEGY_METHOD ==
    [DISCONNECT_CLIENT |-> "disconnectClient", PAUSE_DEVICE |-> "pauseDevice",
     APPLY_FIREWALL_RULE |-> "applyFirewallRule", BLOCK_MAC |-> "blockMAC",
     CHANGE_DNS |-> "changeDNS"]

\* Mutant of STRATEGY_INVERSE_METHOD: nothing undoes a MAC block.
InverseWithoutMac ==
    [PAUSE_DEVICE |-> "resumeDevice", APPLY_FIREWALL_RULE |-> "removeFirewallRule"]

STRATEGY_INVERSE_METHOD ==
    [PAUSE_DEVICE |-> "resumeDevice", APPLY_FIREWALL_RULE |-> "removeFirewallRule",
     BLOCK_MAC |-> "unblockMAC"]

UNBLOCK_STRATEGY_METHOD == STRATEGY_INVERSE_METHOD

COMMAND_METHOD ==
    [TEST_CONNECTION |-> "testConnection", CHANGE_DNS |-> "changeDNS",
     PAUSE_DEVICE |-> "pauseDevice", RESUME_DEVICE |-> "resumeDevice",
     DISCONNECT_CLIENT |-> "disconnectClient",
     APPLY_FIREWALL_RULE |-> "applyFirewallRule",
     REMOVE_FIREWALL_RULE |-> "removeFirewallRule",
     BLOCK_MAC |-> "blockMAC", UNBLOCK_MAC |-> "unblockMAC"]

Listed == {"BLOCK_DEVICE", "UNBLOCK_DEVICE", "END_GAMING_SESSION"}
Command == UNION {[type : {t}, device : Device, strategies : StrategyLists[t]] : t \in Types}

\* The slot a method adds a rule to, or takes one from.
Adds == [pauseDevice |-> "rule", applyFirewallRule |-> "rule", blockMAC |-> "mac"]
Removes == [resumeDevice |-> "rule", removeFirewallRule |-> "rule", unblockMAC |-> "mac"]

Blocked(d) == \E s \in Slot : rules[d][s] > 0

Init ==
    /\ commands = <<>> /\ status = <<>>
    /\ batch = <<>> /\ phase = "idle" /\ at = 1 /\ result = FALSE
    /\ rules = [d \in Device |-> NoRules]
    /\ before = NoRules /\ clean = TRUE
    /\ last = [d \in Device |-> NoCommand]
    /\ faults = 0

Fault(kind) == kind \in Faults /\ faults < MaxFaults /\ faults' = faults + 1

----------------------------------------------------------------------------
\* The backend.

Queue ==
    /\ Len(commands) < MaxCommands
    /\ \E c \in Command : commands' = Append(commands, c)
    /\ status' = Append(status, "pending")
    /\ UNCHANGED <<batch, phase, at, result, rules, ghosts, clean, faults>>

----------------------------------------------------------------------------
\* The executor.

Current == commands[Head(batch)]
Begin == phase' = "run" /\ at' = 1 /\ clean' = TRUE

\* sync: the commands the backend still holds as pending, oldest first.
Fetch ==
    /\ phase = "idle"
    /\ LET pending == {i \in DOMAIN status : status[i] = "pending"} IN
        /\ pending # {}
        /\ \E b \in [1..Cardinality(pending) -> pending] :
            /\ \A j, k \in DOMAIN b : j < k => b[j] < b[k]
            /\ batch' = b
            /\ before' = rules[commands[b[1]].device]
    /\ Begin
    /\ UNCHANGED <<queue, result, rules, last, faults>>

\* sync: the backend holds nothing.
FetchNothing ==
    /\ phase = "idle"
    /\ \A i \in DOMAIN status : status[i] # "pending"
    /\ UNCHANGED vars

\* One strategy after the other; a single action is a list of its own.
Methods ==
    CASE Current.type = "UNBLOCK_DEVICE" -> UNBLOCK_STRATEGY_METHOD
      [] Current.type \in {"BLOCK_DEVICE", "END_GAMING_SESSION"} -> STRATEGY_METHOD
      [] OTHER -> COMMAND_METHOD

Strategies == IF Current.type \in Listed THEN Current.strategies ELSE <<Current.type>>

\* A call of a plugin method: it does what it says, is refused, or loses its
\* answer after it took effect and reports a failure.
Effect(method) ==
    LET d == Current.device IN
    rules' = CASE method \in DOMAIN Adds ->
                    [rules EXCEPT ![d][Adds[method]] = @ + 1]
               [] method \in DOMAIN Removes ->
                    [rules EXCEPT ![d][Removes[method]] = IF @ = 0 THEN 0 ELSE @ - 1]
               [] OTHER -> rules

\* Mutant of Call: a method reports success for a call that was refused.
CallUnverified(method, ok) ==
    \/ ok /\ Effect(method) /\ UNCHANGED <<clean, faults>>
    \/ ok /\ Fault("refused") /\ UNCHANGED <<rules, clean>>
    \/ ~ok /\ Fault("unanswered") /\ Effect(method) /\ clean' = FALSE

Call(method, ok) ==
    \/ ok /\ Effect(method) /\ UNCHANGED <<clean, faults>>
    \/ ~ok /\ Fault("refused") /\ UNCHANGED <<rules, clean>>
    \/ ~ok /\ Fault("unanswered") /\ Effect(method) /\ clean' = FALSE

Finish(ok) == result' = ok /\ phase' = "ack"

\* The lists are exhausted: success is false.
Exhausted ==
    /\ phase = "run" /\ at > Len(Strategies)
    /\ Finish(FALSE)
    /\ UNCHANGED <<queue, batch, at, rules, ghosts, clean, faults>>

\* Mutant of Skip: the loop does not move on.
SkipInPlace ==
    /\ phase = "run" /\ at <= Len(Strategies)
    /\ Strategies[at] \notin DOMAIN Methods
    /\ UNCHANGED vars

\* A strategy the command has no method for is skipped.
Skip ==
    /\ phase = "run" /\ at <= Len(Strategies)
    /\ Strategies[at] \notin DOMAIN Methods
    /\ at' = at + 1
    /\ UNCHANGED <<queue, batch, phase, result, rules, ghosts, clean, faults>>

\* A success ends the command, except that END_GAMING_SESSION checks the
\* connection first; a failure moves on to the next strategy.
Try ==
    /\ phase = "run" /\ at <= Len(Strategies)
    /\ Strategies[at] \in DOMAIN Methods
    /\ \E ok \in BOOLEAN :
        /\ Call(Methods[Strategies[at]], ok)
        /\ IF ok THEN /\ at' = at
                      /\ IF Current.type = "END_GAMING_SESSION"
                         THEN phase' = "check" /\ UNCHANGED result
                         ELSE Finish(TRUE)
                 ELSE at' = at + 1 /\ UNCHANGED <<phase, result>>
    /\ UNCHANGED <<queue, batch, ghosts>>

\* runEndGamingSession: online, or roll the strategy back if it has an inverse.
CheckConnectivity ==
    /\ phase = "check"
    /\ \/ Finish(TRUE) /\ UNCHANGED at
       \/ /\ UNCHANGED result
          /\ IF Strategies[at] \in DOMAIN STRATEGY_INVERSE_METHOD
             THEN phase' = "undo" /\ UNCHANGED at
             ELSE phase' = "run" /\ at' = at + 1
    /\ UNCHANGED <<queue, batch, rules, ghosts, clean, faults>>

\* A rollback that fails is logged, and the next strategy is tried.
RollBack ==
    /\ phase = "undo"
    /\ LET method == STRATEGY_INVERSE_METHOD[Strategies[at]] IN
        \/ Effect(method) /\ UNCHANGED <<clean, faults>>
        \/ Fault("rollback") /\ clean' = FALSE /\ UNCHANGED rules
    /\ phase' = "run" /\ at' = at + 1
    /\ UNCHANGED <<queue, batch, result, ghosts>>

\* The plugin cannot be loaded, or another error: the command fails.
Throw ==
    /\ phase = "run" /\ at = 1
    /\ Fault("throw")
    /\ phase' = "reack" /\ result' = FALSE
    /\ UNCHANGED <<queue, batch, at, rules, ghosts, clean>>

Record(ok) == status' = [status EXCEPT ![Head(batch)] = IF ok THEN "ok" ELSE "failed"]

Outcome == [type |-> Current.type, ok |-> result]

\* The next command of the batch, or the end of sync().
Advance ==
    /\ batch' = Tail(batch)
    /\ last' = [last EXCEPT ![Current.device] = Outcome]
    /\ IF Len(batch) = 1
       THEN phase' = "idle" /\ UNCHANGED <<at, clean, before>>
       ELSE Begin /\ before' = rules[commands[batch[2]].device]

Ack ==
    /\ phase = "ack"
    /\ \/ Record(result) /\ Advance /\ UNCHANGED faults
       \/ /\ Fault("ack")
          /\ Record(result) \/ UNCHANGED status
          /\ phase' = "reack"
          /\ UNCHANGED <<batch, at, clean, ghosts>>
    /\ UNCHANGED <<commands, result, rules>>

\* Mutant of ackFailure: it repeats the result the backend did not confirm.
RepeatResult ==
    \/ Record(TRUE) /\ UNCHANGED faults
    \/ Fault("ack") /\ UNCHANGED status

\* The catch of sync: the command is acknowledged as failed, whatever it did;
\* an acknowledgement that is lost again is ignored.
ackFailure ==
    \/ Record(FALSE) /\ UNCHANGED faults
    \/ Fault("ack") /\ UNCHANGED status

Reack ==
    /\ phase = "reack"
    /\ ackFailure
    /\ Advance
    /\ UNCHANGED <<commands, result, rules>>

\* The agent is restarted; the router keeps its rules.
Restart ==
    /\ phase # "idle"
    /\ Fault("restart")
    /\ phase' = "idle" /\ batch' = <<>> /\ at' = 1
    /\ last' = [last EXCEPT ![Current.device] = NoCommand]
    /\ UNCHANGED <<queue, result, rules, before, clean>>

Step == Fetch \/ FetchNothing \/ Exhausted \/ Skip \/ Try \/ CheckConnectivity \/ RollBack
            \/ Throw \/ Ack \/ Reack

Next == Queue \/ Step \/ Restart

Spec == Init /\ [][Next]_vars

\* Every call has a timeout and the main loop calls sync() for ever; the
\* failures are bounded by MaxFaults.
FairSpec == Spec /\ WF_vars(Step)

----------------------------------------------------------------------------
TypeOK ==
    /\ commands \in Seq(Command) /\ Len(status) = Len(commands)
    /\ \A i \in DOMAIN status : status[i] \in {"pending", "ok", "failed"}
    /\ \A k \in DOMAIN batch : batch[k] \in DOMAIN commands
    /\ phase \in {"idle", "run", "check", "undo", "ack", "reack"}
    /\ phase = "idle" <=> batch = <<>>
    /\ rules \in [Device -> [Slot -> Nat]]
    /\ result \in BOOLEAN /\ clean \in BOOLEAN
    /\ faults \in 0..MaxFaults

\* A device whose last command is a BLOCK_DEVICE that reported success is
\* blocked, whatever was delivered twice, rolled back or interrupted before.
BlockHolds ==
    \A d \in Device : phase = "idle" /\ last[d] = [type |-> "BLOCK_DEVICE", ok |-> TRUE]
                        => Blocked(d)

\* An END_GAMING_SESSION that reports failure leaves the device's rules as it
\* found them, unless a call misbehaved or a rollback failed.
FailedSessionRestores ==
    phase = "ack" /\ Current.type = "END_GAMING_SESSION" /\ ~result /\ clean
        => rules[Current.device] = before

\* The backend records a success only for a command that succeeded: the
\* fallback acknowledgement never turns a failure into a success.
NoFalseSuccess ==
    [][\A i \in DOMAIN status : status'[i] = "ok" /\ status[i] # "ok" => result /\ phase = "ack"]_vars

\* Every command the backend queues gets an answer in the end: a command that
\* throws, or whose acknowledgement is lost, does not stay pending.
EveryCommandAnswered ==
    \A i \in 1..MaxCommands :
        (i \in DOMAIN status /\ status[i] = "pending")
            ~> (i \in DOMAIN status /\ status[i] # "pending")

----------------------------------------------------------------------------
\* What the documentation says and the code does not do.

\* router-command-executor.js, runMultiStrategyAction: an UNBLOCK_DEVICE that
\* succeeded has unblocked the device, no separate check is needed.
UnblockHolds ==
    \A d \in Device : phase = "idle" /\ last[d] = [type |-> "UNBLOCK_DEVICE", ok |-> TRUE]
                        => ~Blocked(d)

\* router-command-executor.js, the class comment: it acknowledges the result back.
\* Stated for the only command there is: if it succeeded, it is not recorded as
\* failed.
AckIsResult ==
    phase = "idle" /\ Len(commands) = 1 /\ last[commands[1].device].ok
        => status[1] # "failed"
=============================================================================
