--------------------------- MODULE TokenRotation ---------------------------
(***************************************************************************)
(* The gateway token of the agent (token-rotation.js, config.js) against a *)
(* backend that replaces it: the copy in memory every request is signed    *)
(* with, and the copy in .env that a restart reads.  Tokens are numbered   *)
(* in the order the backend issues them; 0 is no token.  The names differ  *)
(* from those of AgentCycle, beside which AgentCycleProofs takes them.     *)
(***************************************************************************)
EXTENDS Naturals

CONSTANTS
    MaxRotations,   \* bound: rotations
    TokenFaults,    \* kinds of failure in scope, a subset of AllTokenFaults
    Pinned          \* the token is also in the process environment, as in the
                    \* container of docker-compose.prod.yml

AllTokenFaults == {"lost", "persist", "crash"}

ASSUME RotationAssumption ==
    /\ MaxRotations \in Nat
    /\ TokenFaults \subseteq AllTokenFaults
    /\ Pinned \in BOOLEAN

VARIABLES
    current,        \* the token the backend issued last
    previousToken,  \* the token it still accepts during the grace period, 0 if none
    heard,          \* the agent had an answer since the last rotation or start
    memory,         \* the token of BackendClient and config
    file,           \* the token in .env
    tokenStage,     \* of applyRotatedToken
    lost            \* some write of .env failed or was cut short

tokens == <<current, previousToken>>
tokenVars == <<tokens, heard, memory, file, tokenStage, lost>>

Token == 1..(MaxRotations + 1)
AcceptedTokens == {current, previousToken} \ {0}

TokenInit ==
    /\ current = 1 /\ previousToken = 0
    /\ heard = FALSE
    /\ memory = 1 /\ file = 1
    /\ tokenStage = "idle" /\ lost = FALSE

----------------------------------------------------------------------------
\* The backend.  The grace period is assumed to outlast one cycle of an agent
\* that runs and hears an answer.

Idle == heard /\ tokenStage = "idle"

Rotate ==
    /\ current <= MaxRotations
    /\ previousToken = 0 \/ Idle
    /\ current' = current + 1 /\ previousToken' = current
    /\ heard' = FALSE
    /\ UNCHANGED <<memory, file, tokenStage, lost>>

GraceEnds ==
    /\ previousToken # 0 /\ Idle
    /\ previousToken' = 0
    /\ UNCHANGED <<current, heard, memory, file, tokenStage, lost>>

----------------------------------------------------------------------------
\* The agent.

\* getPolicies is answered: rotatedToken is there if the request was signed
\* with the previous token.  applyRotatedToken ignores the token it has.
PollToken ==
    /\ tokenStage = "idle" /\ memory \in AcceptedTokens
    /\ heard' = TRUE
    /\ IF memory = current
       THEN UNCHANGED <<memory, tokenStage>>
       ELSE memory' = current /\ tokenStage' = "switched"
    /\ UNCHANGED <<tokens, file, lost>>

\* The request is refused, or it or its answer is lost (after one retry).
PollTokenFails ==
    /\ tokenStage = "idle"
    /\ memory \notin AcceptedTokens \/ "lost" \in TokenFaults
    /\ UNCHANGED tokenVars

\* Mutant of Truncate: a token that was only switched in memory is not written.
SkipWrite ==
    /\ tokenStage = "switched"
    /\ tokenStage' = "idle"
    /\ UNCHANGED <<tokens, heard, memory, file, lost>>

\* persistRotatedToken has read .env; writeFile opens it and truncates it.
Truncate ==
    /\ tokenStage = "switched"
    /\ file' = 0 /\ tokenStage' = "truncated"
    /\ UNCHANGED <<tokens, heard, memory, lost>>

Write ==
    /\ tokenStage = "truncated"
    /\ file' = memory /\ tokenStage' = "idle"
    /\ UNCHANGED <<tokens, heard, memory, lost>>

\* The file cannot be read or opened, or the write fails half way; the error is
\* logged, and the token in memory stays.
PersistFails ==
    /\ "persist" \in TokenFaults
    /\ tokenStage \in {"switched", "truncated"}
    /\ tokenStage' = "idle" /\ lost' = TRUE
    /\ UNCHANGED <<tokens, heard, memory, file>>

Crash ==
    /\ "crash" \in TokenFaults /\ tokenStage # "down"
    /\ tokenStage' = "down"
    /\ lost' = (lost \/ tokenStage = "truncated")
    /\ UNCHANGED <<tokens, heard, memory, file>>

\* Mutant of loadedToken: the token the agent was installed with.
InstalledToken == 1

\* loadDotEnv: a variable of the process environment wins over .env.
loadedToken == IF Pinned THEN 1 ELSE file

\* Mutant of Start: the check for a token is gone.
StartWithoutCheck ==
    /\ tokenStage = "down"
    /\ memory' = loadedToken /\ heard' = FALSE
    /\ tokenStage' = "idle"
    /\ UNCHANGED <<tokens, file, lost>>

\* loadConfig accepts a token that is not empty.
Start ==
    /\ tokenStage = "down"
    /\ loadedToken # 0
    /\ memory' = loadedToken /\ heard' = FALSE
    /\ tokenStage' = "idle"
    /\ UNCHANGED <<tokens, file, lost>>

\* loadConfig throws; the service manager will try again.
StartFails ==
    /\ tokenStage = "down" /\ loadedToken = 0
    /\ UNCHANGED tokenVars

TokenNext == Rotate \/ GraceEnds \/ PollToken \/ PollTokenFails \/ Truncate \/ Write
            \/ PersistFails \/ Crash \/ Start \/ StartFails

TokenSpec == TokenInit /\ [][TokenNext]_tokenVars

\* The loop polls for ever, a call into the file system returns, and the
\* service manager starts the agent again.
TokenFairSpec ==
    /\ TokenSpec
    /\ WF_tokenVars(PollToken) /\ WF_tokenVars(Truncate)
    /\ WF_tokenVars(Write) /\ WF_tokenVars(Start)

----------------------------------------------------------------------------
TokenTypeOK ==
    /\ current \in Token /\ previousToken \in 0..MaxRotations
    /\ memory \in Token /\ file \in {0} \cup Token
    /\ heard \in BOOLEAN /\ lost \in BOOLEAN
    /\ tokenStage \in {"idle", "switched", "truncated", "down"}

\* Unless a write of .env failed, the agent can always authenticate, and so
\* could one started now: crashes between the switch in memory and the write of
\* .env included (token-rotation.js, applyRotatedToken).
NoLockOut ==
    ~lost =>
        /\ tokenStage # "down" => memory \in AcceptedTokens
        /\ tokenStage # "truncated" => file \in AcceptedTokens

\* After the last rotation, crash and failed write the agent and its .env end
\* up on the backend's token.
Adopts ==
    <>[][~(Rotate \/ Crash \/ PersistFails)]_tokenVars =>
        <>[](lost \/ (memory = current /\ file = current))

----------------------------------------------------------------------------
\* What the documentation says and the code does not do.

\* token-rotation.js, the error message of applyRotatedToken: a write of .env
\* that failed is tried again in a later cycle.
PersistRetried ==
    (tokenStage = "idle" /\ memory = current /\ file # memory)
        ~> (file = memory \/ tokenStage = "down" \/ memory # current)

\* token-rotation.js, persistRotatedToken: a restart after the write picks up
\* the token the running process had switched to.
RestartKeepsToken ==
    [][tokenStage = "down" /\ tokenStage' = "idle" /\ file = memory => memory' = memory]_tokenVars
=============================================================================
