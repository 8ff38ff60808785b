----------------------------- MODULE AppSession -----------------------------
(***************************************************************************)
(* The session of the parent app: the copy in memory, the copy in secure   *)
(* storage, requests that meet an expired access token, and the queued     *)
(* interceptor of auth_repository.dart that refreshes it, against a user   *)
(* who logs in and out.  A session is the serial number of its token pair, *)
(* 0 is none; every await of the code separates two steps.                 *)
(*                                                                         *)
(* The backend accepts a refresh token once and answers with a new pair    *)
(* (SYSTEM_ANALYSIS.md, simulation-report.md).                             *)
(***************************************************************************)
EXTENDS Naturals, Sequences

CONSTANTS
    Request,        \* authenticated calls, each made once
    maxRetries,     \* _maxRetries of ApiClient
    MaxPairs,       \* bound: no login once so many token pairs are issued
    Faults          \* kinds of failure in scope, a subset of AllFaults

AllFaults == {"server", "net", "retry", "lost", "storage", "kill"}

ASSUME SessionAssumption ==
    /\ maxRetries \in Nat /\ MaxPairs \in Nat
    /\ Faults \subseteq AllFaults

VARIABLES
    issued,     \* the number of token pairs the backend has issued
    access,     \* the pairs whose access token it accepts
    refresh,    \* the pairs whose refresh token it accepts
    leaving,    \* POST /auth/logout in flight: the pair it carries, 0 if none
    session,    \* AuthState.session
    stored,     \* the session in secure storage
    booting,    \* AuthState.isBootstrapping
    user,       \* what login or logout is doing, and with which pair
    phase,      \* of each call
    token,      \* the pair a call carries, 0 when it does not need one
    attempt,    \* ApiClient's attempt of a call
    errors,     \* the error queue of the interceptor
    job,        \* its error handler: step, call, pair it spends, pair it got
    out,        \* ghost: the user has logged out, and neither in nor out since
    crossed,    \* ghost: a refresh was under way during the last logout
    meddled,    \* ghost: the user logged in or out while a call was under way
    excused     \* ghost: a refresh token may be lost: failed refresh, kill, logout

backend == <<issued, access, refresh, leaving>>
app == <<session, stored, booting>>
calls == <<phase, token, attempt>>
ghosts == <<out, crossed, meddled, excused>>
vars == <<backend, app, user, calls, errors, job, ghosts>>

Phases == {"new", "sent", "retrying", "resent", "error", "delay", "done", "failed"}
Ended == {"done", "failed"}

NoUser == [step |-> "none", pair |-> 0]
Free == [step |-> "free", call |-> "none", spend |-> 0, got |-> 0]
Idle == job = Free /\ errors = << >>
Quiet == Idle /\ \A r \in Request : phase[r] \in Ended \cup {"new"}

\* A parent is signed in, the app was just started.
Init ==
    /\ issued = 1 /\ access = {1} /\ refresh = {1} /\ leaving = 0
    /\ session = 0 /\ stored = 1 /\ booting = TRUE
    /\ user = NoUser
    /\ phase = [r \in Request |-> "new"]
    /\ token = [r \in Request |-> 0] /\ attempt = [r \in Request |-> 0]
    /\ errors = << >> /\ job = Free
    /\ out = FALSE /\ crossed = FALSE /\ meddled = FALSE /\ excused = FALSE

----------------------------------------------------------------------------
\* The backend.

\* An access token expires; one just obtained by a refresh outlives the retry,
\* unless retries may fail.
Expire ==
    /\ "retry" \in Faults \/ job.got = 0
    /\ \E s \in access : access' = access \ {s}
    /\ UNCHANGED <<issued, refresh, leaving, app, user, calls, errors, job, ghosts>>

\* POST /auth/logout arrives, or it is refused or lost; nobody waits for it.
LogoutArrives ==
    /\ leaving # 0
    /\ \/ leaving \in access /\ refresh' = {} /\ excused' = TRUE
       \/ /\ leaving \notin access \/ "lost" \in Faults
          /\ UNCHANGED <<refresh, excused>>
    /\ leaving' = 0
    /\ UNCHANGED <<issued, access, app, user, calls, errors, job, out, crossed, meddled>>

----------------------------------------------------------------------------
\* Calls.

\* onRequest: the session in memory, else the one in storage.
Carried == IF session # 0 THEN session ELSE stored

\* A screen makes a call (only screens behind a session do), or ApiClient
\* repeats one after its delay.
Send(r) ==
    /\ phase[r] = "new" => session # 0
    /\ phase[r] \in {"new", "delay"}
    /\ phase' = [phase EXCEPT ![r] = "sent"]
    /\ token' = [token EXCEPT ![r] = Carried]
    /\ meddled' = (meddled \/ user # NoUser)
    /\ UNCHANGED <<backend, app, user, attempt, errors, job, out, crossed, excused>>

\* The retry inside the handler: onRequest overwrites its header if it finds a
\* session.
Resend(r) ==
    /\ phase[r] = "retrying"
    /\ phase' = [phase EXCEPT ![r] = "resent"]
    /\ token' = [token EXCEPT ![r] = IF Carried # 0 THEN Carried ELSE job.got]
    /\ UNCHANGED <<backend, app, user, attempt, errors, job, ghosts>>

\* The call is answered; the handler of a retried one resolves and is free.
Succeed(r) ==
    /\ phase[r] \in {"sent", "resent"}
    /\ token[r] \in access
    /\ phase' = [phase EXCEPT ![r] = "done"]
    /\ token' = [token EXCEPT ![r] = 0] /\ attempt' = [attempt EXCEPT ![r] = 0]
    /\ job' = IF phase[r] = "resent" THEN Free ELSE job
    /\ UNCHANGED <<backend, app, user, errors, ghosts>>

\* The call fails with 401, with 500 to 503, or without an answer: its error
\* waits for the handler, which a failed retry does not free.
Fail(r) ==
    /\ phase[r] \in {"sent", "resent"}
    /\ \E kind \in {"401"} \cup (Faults \cap {"server", "net"}) :
        /\ kind = "401" <=> token[r] \notin access
        /\ phase[r] = "resent" => "retry" \in Faults
        /\ errors' = Append(errors,
             [call |-> r, kind |-> kind, retried |-> phase[r] = "resent"])
    /\ phase' = [phase EXCEPT ![r] = "error"]
    /\ UNCHANGED <<backend, app, user, token, attempt, job, ghosts>>

\* ApiClient._request: some errors are tried again after a delay.
Caught(r, kind) ==
    /\ token' = [token EXCEPT ![r] = 0]
    /\ IF kind = "server" /\ attempt[r] < maxRetries
       THEN /\ phase' = [phase EXCEPT ![r] = "delay"]
            /\ attempt' = [attempt EXCEPT ![r] = @ + 1]
       ELSE /\ phase' = [phase EXCEPT ![r] = "failed"]
            /\ attempt' = [attempt EXCEPT ![r] = 0]

----------------------------------------------------------------------------
\* onError: one error at a time.

NeedsRefresh(e) == e.kind = "401" /\ ~e.retried

Pass ==
    /\ job = Free /\ errors # << >>
    /\ ~NeedsRefresh(Head(errors))
    /\ errors' = Tail(errors)
    /\ Caught(Head(errors).call, Head(errors).kind)
    /\ UNCHANGED <<backend, app, user, job, ghosts>>

\* A logout is under way; a refresh is, which may yet bring its pair.
LoggingOut == {"clear", "drop"}
Refreshing == {"read", "refresh", "save", "replace"}

Working(step, call, spend, got) ==
    job' = [step |-> step, call |-> call, spend |-> spend, got |-> got]

\* Mutant of PairToSpend: the pair the failed call carried.
PairOfCall(r) == token[r]

\* The pair onError refreshes with: of now, not of the call.
PairToSpend(r) == session

\* A 401 that was not retried yet; without a session in memory the handler
\* waits for storage.
Handle ==
    /\ job = Free /\ errors # << >>
    /\ NeedsRefresh(Head(errors))
    /\ LET r == Head(errors).call IN
        IF session = 0 THEN Working("read", r, 0, 0)
                       ELSE Working("refresh", r, PairToSpend(r), 0)
    /\ errors' = Tail(errors)
    /\ crossed' = (crossed \/ user.step \in LoggingOut)
    /\ UNCHANGED <<backend, app, user, calls, out, meddled, excused>>

ReadStored ==
    /\ job.step = "read"
    /\ IF stored = 0 THEN Working("clear", job.call, 0, 0)
                     ELSE Working("refresh", job.call, stored, 0)
    /\ UNCHANGED <<backend, app, user, calls, errors, ghosts>>

\* POST /auth/refresh: the backend replaces the pair.
RefreshServed ==
    /\ job.step = "refresh" /\ job.spend \in refresh
    /\ issued' = issued + 1
    /\ access' = access \cup {issued + 1}
    /\ refresh' = (refresh \ {job.spend}) \cup {issued + 1}
    /\ \/ Working("save", job.call, 0, issued + 1) /\ UNCHANGED excused
       \/ "lost" \in Faults /\ Working("clear", job.call, 0, 0) /\ excused' = TRUE
    /\ UNCHANGED <<leaving, app, user, calls, errors, out, crossed, meddled>>

\* It is refused, or fails on the way: any DioException ends the session.
RefreshFails ==
    /\ job.step = "refresh"
    /\ \/ job.spend \notin refresh /\ UNCHANGED excused
       \/ Faults \cap {"server", "net"} # {} /\ excused' = TRUE
    /\ Working("clear", job.call, 0, 0)
    /\ UNCHANGED <<backend, app, user, calls, errors, out, crossed, meddled>>

\* Mutant of Save: the new pair is not stored.
SkipSave ==
    /\ job.step = "save"
    /\ job' = [job EXCEPT !.step = "replace"]
    /\ UNCHANGED <<backend, app, user, calls, errors, ghosts>>

Save ==
    /\ job.step = "save"
    /\ stored' = job.got
    /\ job' = [job EXCEPT !.step = "replace"]
    /\ UNCHANGED <<backend, session, booting, user, calls, errors, ghosts>>

\* The storage throws, when the pair is written or deleted: no DioException, so
\* the handler ends without an answer and its queue waits for ever.
StorageThrows ==
    /\ "storage" \in Faults
    /\ job.step \in {"save", "clear"}
    /\ Working("stuck", job.call, 0, 0)
    /\ excused' = TRUE
    /\ UNCHANGED <<backend, app, user, calls, errors, out, crossed, meddled>>

\* replaceSession, and the retry without a wait between.
Replace ==
    /\ job.step = "replace"
    /\ session' = job.got
    /\ job' = [job EXCEPT !.step = "retry"]
    /\ phase' = [phase EXCEPT ![job.call] = "retrying"]
    /\ UNCHANGED <<backend, stored, booting, user, token, attempt, errors, ghosts>>

\* clearSession: storage first, memory after the wait for it.
ClearStored ==
    /\ job.step = "clear"
    /\ stored' = 0
    /\ job' = [job EXCEPT !.step = "drop"]
    /\ UNCHANGED <<backend, session, booting, user, calls, errors, ghosts>>

\* Mutant of Drop: the error is not handed on.
DropAndKeep ==
    /\ job.step = "drop"
    /\ session' = 0
    /\ job' = Free
    /\ UNCHANGED <<backend, stored, booting, user, calls, errors, ghosts>>

Drop ==
    /\ job.step = "drop"
    /\ session' = 0
    /\ job' = Free
    /\ Caught(job.call, "401")
    /\ UNCHANGED <<backend, stored, booting, user, errors, ghosts>>

----------------------------------------------------------------------------
\* The user, and the app's start.

MayAct == ~booting /\ user = NoUser

\* Login is answered with a pair of its own (the login screen is shown only
\* without a session), then stored, then shown.
Login ==
    /\ MayAct /\ session = 0
    /\ issued < MaxPairs
    /\ issued' = issued + 1
    /\ access' = access \cup {issued + 1} /\ refresh' = refresh \cup {issued + 1}
    /\ user' = [step |-> "save", pair |-> issued + 1]
    /\ out' = FALSE /\ crossed' = FALSE
    /\ meddled' = (meddled \/ ~Quiet)
    /\ UNCHANGED <<leaving, app, calls, errors, job, excused>>

LoginStored ==
    /\ user.step = "save"
    /\ stored' = user.pair
    /\ user' = [user EXCEPT !.step = "show"]
    /\ UNCHANGED <<backend, session, booting, calls, errors, job, ghosts>>

\* The storage throws: the error is shown, and nobody is signed in.
LoginFails ==
    /\ "storage" \in Faults
    /\ user.step = "save"
    /\ user' = NoUser /\ excused' = TRUE
    /\ UNCHANGED <<backend, app, calls, errors, job, out, crossed, meddled>>

LoginShown ==
    /\ user.step = "show"
    /\ session' = user.pair /\ user' = NoUser
    /\ UNCHANGED <<backend, stored, booting, calls, errors, job, ghosts>>

\* logout does not wait for its request, then clears the session.
Logout ==
    /\ MayAct /\ session # 0
    /\ leaving' = session
    /\ user' = [step |-> "clear", pair |-> 0]
    /\ out' = FALSE /\ crossed' = (job.step \in Refreshing)
    /\ meddled' = (meddled \/ ~Quiet)
    /\ UNCHANGED <<issued, access, refresh, app, calls, errors, job, excused>>

\* Mutant of LogoutStored: the session is cleared in memory only.
LogoutInMemory ==
    /\ user.step = "clear"
    /\ user' = [user EXCEPT !.step = "drop"]
    /\ UNCHANGED <<backend, app, calls, errors, job, ghosts>>

LogoutStored ==
    /\ user.step = "clear"
    /\ stored' = 0
    /\ user' = [user EXCEPT !.step = "drop"]
    /\ UNCHANGED <<backend, session, booting, calls, errors, job, ghosts>>

\* The storage throws: nothing is cleared.
LogoutFails ==
    /\ "storage" \in Faults
    /\ user.step = "clear"
    /\ user' = NoUser
    /\ UNCHANGED <<backend, app, calls, errors, job, ghosts>>

LogoutShown ==
    /\ user.step = "drop"
    /\ session' = 0 /\ user' = NoUser /\ out' = TRUE
    /\ UNCHANGED <<backend, stored, booting, calls, errors, job, crossed, meddled, excused>>

\* _restoreSession.
Restore ==
    /\ booting
    /\ session' = stored /\ booting' = FALSE
    /\ UNCHANGED <<backend, stored, user, calls, errors, job, ghosts>>

\* The system ends the app and the user starts it again.
Kill ==
    /\ "kill" \in Faults /\ ~booting
    /\ session' = 0 /\ booting' = TRUE
    /\ phase' = [r \in Request |-> IF phase[r] = "new" THEN "new" ELSE
                                   IF phase[r] = "done" THEN "done" ELSE "failed"]
    /\ token' = [r \in Request |-> 0] /\ attempt' = [r \in Request |-> 0]
    /\ errors' = << >> /\ job' = Free /\ user' = NoUser
    /\ excused' = (excused \/ job.step = "save" \/ user.step = "save")
    /\ out' = (out \/ user.step = "drop")
    /\ UNCHANGED <<backend, stored, crossed, meddled>>

Handler == Pass \/ Handle \/ ReadStored \/ RefreshServed \/ RefreshFails \/ Save \/ Replace
               \/ ClearStored \/ Drop \/ StorageThrows

Call(r) == Send(r) \/ Resend(r) \/ Succeed(r) \/ Fail(r)

User == Login \/ LoginStored \/ LoginFails \/ LoginShown
            \/ Logout \/ LogoutStored \/ LogoutFails \/ LogoutShown

Next ==
    \/ Expire \/ LogoutArrives \/ Restore \/ Kill
    \/ User \/ Handler
    \/ \E r \in Request : Call(r)

Spec == Init /\ [][Next]_vars

\* Every request has timeouts of 15 s, storage answers, a delay ends.
FairSpec ==
    /\ Spec
    /\ WF_vars(Handler) /\ WF_vars(Restore)
    /\ \A r \in Request : WF_vars(phase[r] # "new" /\ Call(r))

----------------------------------------------------------------------------
Errors == [call : Request, kind : {"401", "server", "net"}, retried : BOOLEAN]

TypeOK ==
    /\ issued \in Nat
    /\ access \subseteq 1..issued /\ refresh \subseteq 1..issued
    /\ leaving \in 0..issued /\ session \in 0..issued /\ stored \in 0..issued
    /\ booting \in BOOLEAN /\ {out, crossed, meddled, excused} \subseteq BOOLEAN
    /\ user \in [step : {"none", "save", "show", "clear", "drop"}, pair : 0..issued]
    /\ phase \in [Request -> Phases]
    /\ token \in [Request -> 0..issued]
    /\ attempt \in [Request -> 0..maxRetries]
    /\ errors \in Seq(Errors)
    /\ job \in [step : {"free", "read", "refresh", "save", "replace", "retry", "clear",
                       "drop", "stuck"},
               call : Request \cup {"none"}, spend : 0..issued, got : 0..issued]

\* However many calls meet an expired token at once, the app never signs the
\* user out by itself, unless a refresh failed on the way or could not be stored,
\* the app was ended before it had stored the pair, or the user logged in or out
\* in the middle of a call (onError of auth_repository.dart).
KeepsSession ==
    ~excused /\ ~meddled /\ ~out /\ ~booting /\ user = NoUser => session # 0

\* When nothing is going on the session in memory is the one in storage, which
\* is the one a restart would find, unless the user logged in or out in the
\* middle of a call.
StorageFollows ==
    ~meddled /\ ~booting /\ user = NoUser /\ Quiet => session = stored

\* After a logout there is no session until the next login, whatever calls are
\* in flight, waiting for a retry or queued with an expired token: none in memory,
\* and none a call or a restart would find in storage.  The exception is a
\* refresh under way during the logout, whose pair comes back with it (logout and
\* clearSession of auth_controller.dart; auth_repository.dart:84-85).
LogoutIsFinal == out /\ ~crossed => session = 0 /\ stored = 0

\* The storage threw in the handler, or a retry went out with the token of a
\* login that has expired already: the handler never ends.
Jammed ==
    \/ job.step = "stuck"
    \/ \E r \in Request : phase[r] = "resent" /\ token[r] \notin access

\* Every call ends, with an answer or an error for its screen, as long as the
\* storage does not throw in the handler and no retry fails.
EveryRequestEnds ==
    \A r \in Request : phase[r] # "new" ~> phase[r] \in Ended \/ Jammed

----------------------------------------------------------------------------
\* What does not hold.

\* A logout is final even with a refresh under way.
LogoutAlwaysFinal == out => session = 0 /\ stored = 0
=============================================================================
