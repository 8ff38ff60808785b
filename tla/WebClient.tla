----------------------------- MODULE WebClient -----------------------------
(***************************************************************************)
(* The parents' web client (web port client (parent-app)): the pages fetch *)
(* lists through react-query and change entries with axios calls, whose    *)
(* interceptors carry, refresh and drop the tokens in localStorage while   *)
(* the persisted store says on its own whether somebody is logged in.      *)
(*                                                                         *)
(* A list is the set of entries for which the thing a button toggles holds *)
(* (a locked device, a running session, a child that exists).  A refresh   *)
(* token is a number; numbers nobody holds any more are used again.  An    *)
(* access token may run out whenever it is used, and is there or not.      *)
(***************************************************************************)
EXTENDS Naturals, FiniteSets

CONSTANTS
    Request,        \* room for calls under way
    List, Entry,
    Sessions,       \* the list the home page has a stop button for
    None,
    MaxOps,         \* what the user does: fetches, changes, pairings, logouts, visits
    MaxFaults       \* answers that are lost, and errors

ASSUME WebAssumption ==
    /\ IsFiniteSet(Request)
    /\ Sessions \in List /\ None \notin Nat \cup Entry
    /\ MaxOps \in Nat /\ MaxFaults \in Nat

VARIABLES
    lists,          \* server: [List -> set of entries]
    live,           \* server: refresh tokens it accepts
    access, refresh,  \* localStorage: whether there is an access token; the refresh token
    isAuthenticated,  \* the persisted store
    page,           \* "/", "dashboard", on the way to "/login", or there
    calls,          \* [Request -> call or Free]
    shown,          \* the query cache: [List -> set of entries, or None]
    modal,          \* the pairing dialog: its device and whose code it shows
    ops, faults,
    spoiled,        \* ghost: what happened that no call can make up for
    stopped         \* ghost: lists the home page changed, with no fetch begun since

server == <<lists, live>>
tokens == <<access, refresh>>
bounds == <<ops, faults>>
ghosts == <<spoiled, stopped>>
vars == <<server, tokens, isAuthenticated, page, calls, shown, modal, bounds, ghosts>>

Token == 0..2 * Cardinality(Request) + 1
Free == [at |-> "free"]
NoModal == [device |-> None, code |-> None]

\* with says whether the call carries an access token, retried is _retry, attempt
\* the retries of react-query, dropped a query nobody waits for any more.
Call(op, list, entry, on) ==
    [at |-> "start", op |-> op, list |-> list, entry |-> entry, on |-> on, with |-> FALSE,
     retried |-> FALSE, attempt |-> 0, dropped |-> FALSE, spend |-> None, answer |-> None]

Init ==
    /\ lists = [l \in List |-> {}] /\ live = {}
    /\ access = FALSE /\ refresh = None /\ isAuthenticated = FALSE /\ page = "/"
    /\ calls = [r \in Request |-> Free] /\ shown = [l \in List |-> None] /\ modal = NoModal
    /\ ops = 0 /\ faults = 0 /\ spoiled = {} /\ stopped = {}

Active == {r \in Request : calls[r] # Free}
Held == {refresh} \cup UNION {{calls[r].spend, calls[r].answer} : r \in Active}
NewToken == CHOOSE t \in Token : t \notin Held

Does == ops < MaxOps /\ ops' = ops + 1 /\ UNCHANGED faults
Fault == faults < MaxFaults /\ faults' = faults + 1 /\ UNCHANGED ops
Set(r, call) == calls' = [calls EXCEPT ![r] = call]

Fetches(l) == {r \in Active : calls[r].op = "list" /\ calls[r].list = l /\ ~calls[r].dropped}

\* Mutant: a fetch under way is taken for the refetch.
JoinFetch(r) ==
    [calls EXCEPT ![r] = IF Fetches(@.list) # {} THEN Free ELSE Call("list", @.list, None, FALSE)]

\* A change is followed by a refetch of its list.  The fetch under way is given
\* up, but its request runs on; the first fetch of a list, with nothing to show
\* yet, is taken for the refetch (react-query).
Joins(r) == shown[calls[r].list] = None /\ Fetches(calls[r].list) # {}
Refetch(r) ==
    IF Joins(r) THEN [calls EXCEPT ![r] = Free]
    ELSE [s \in Request |->
            IF s = r THEN Call("list", calls[r].list, None, FALSE)
            ELSE IF s \in Fetches(calls[r].list) THEN [calls[s] EXCEPT !.dropped = TRUE]
                 ELSE calls[s]]

----------------------------------------------------------------------------
\* The user.

\* handleSubmit of the login page: a token pair of a session of its own.
Login ==
    /\ page = "/" /\ ~isAuthenticated /\ UNCHANGED bounds
    /\ access' = TRUE /\ refresh' = NewToken /\ live' = (live \cap Held) \cup {NewToken}
    /\ isAuthenticated' = TRUE /\ page' = "dashboard"
    /\ spoiled' = IF Active = {} THEN spoiled \cap {"failure", "joined"} ELSE spoiled
    /\ UNCHANGED <<lists, calls, shown, modal, stopped>>

\* handleLogout and handleDeleteAccount: calls under way go on.
Logout ==
    /\ page = "dashboard" /\ isAuthenticated /\ Does
    /\ access' = FALSE /\ refresh' = None /\ isAuthenticated' = FALSE /\ page' = "/"
    /\ modal' = NoModal
    /\ spoiled' = IF Active = {} THEN spoiled ELSE spoiled \cup {"logout"}
    /\ UNCHANGED <<server, calls, shown, stopped>>

\* The effects of the two guarded pages.
Redirect ==
    /\ \/ page = "/" /\ isAuthenticated /\ page' = "dashboard"
       \/ page = "dashboard" /\ ~isAuthenticated /\ page' = "/"
    /\ UNCHANGED <<server, tokens, isAuthenticated, calls, shown, modal, bounds, ghosts>>

\* A page is opened, or the window looked at again: one fetch of a list at a time.
Fetch ==
    /\ page = "dashboard" /\ Does
    /\ \E l \in List, r \in Request \ Active :
        Fetches(l) = {} /\ Set(r, Call("list", l, None, FALSE)) /\ stopped' = stopped \ {l}
    /\ UNCHANGED <<server, tokens, isAuthenticated, page, shown, modal, spoiled>>

\* toggleInternet, stopSession, handleDelete: the opposite of what the list
\* shows; handleSubmit adds an entry, also before there is a list.
Change ==
    /\ page = "dashboard" /\ Does
    /\ \E l \in List, e \in Entry, r \in Request \ Active :
        Set(r, Call("change", l, e, shown[l] # None => e \notin shown[l]))
    /\ UNCHANGED <<server, tokens, isAuthenticated, page, shown, modal, ghosts>>

\* The stop button of the home page: nobody waits for its answer.
Stop ==
    /\ page = "dashboard" /\ Does /\ shown[Sessions] # None
    /\ \E e \in shown[Sessions], r \in Request \ Active :
        Set(r, Call("stop", Sessions, e, FALSE))
    /\ UNCHANGED <<server, tokens, isAuthenticated, page, shown, modal, ghosts>>

openPairingModal ==
    /\ page = "dashboard" /\ Does
    /\ \E e \in Entry, r \in Request \ Active :
        /\ Set(r, Call("pair", CHOOSE l \in List : TRUE, e, FALSE))
        /\ modal' = [device |-> e, code |-> None]
    /\ UNCHANGED <<server, tokens, isAuthenticated, page, shown, ghosts>>

----------------------------------------------------------------------------
\* A call.

\* The request interceptor: the token of the moment, or the one it had.
Send(r) ==
    /\ calls[r].at = "start"
    /\ Set(r, [calls[r] EXCEPT !.at = "sent",
                               !.with = access \/ @])
    /\ UNCHANGED <<server, tokens, isAuthenticated, page, shown, modal, bounds, ghosts>>

\* The server: what it does, and the answer it gives.
Effect(r) ==
    /\ IF calls[r].op \in {"change", "stop"}
       THEN lists' = [lists EXCEPT ![calls[r].list] =
                       IF calls[r].on THEN @ \cup {calls[r].entry} ELSE @ \ {calls[r].entry}]
       ELSE UNCHANGED lists
    /\ stopped' = IF calls[r].op = "stop" THEN stopped \cup {calls[r].list} ELSE stopped
Answer(r, at) == Set(r, [calls[r] EXCEPT !.at = at])
Content(r) == Set(r, [calls[r] EXCEPT !.at = "ok", !.entry = IF calls[r].op = "list"
                                        THEN lists[calls[r].list] ELSE @])
Serve(r) ==
    /\ calls[r].at = "sent"
    /\ \/ calls[r].with /\ Effect(r) /\ Content(r) /\ UNCHANGED bounds
       \/ Answer(r, "401") /\ UNCHANGED <<lists, stopped, bounds>>  \* none, or it ran out
       \/ Answer(r, "failed") /\ Fault /\ UNCHANGED <<lists, stopped>>  \* an error
       \/ /\ calls[r].with /\ Effect(r) /\ Answer(r, "failed") /\ Fault  \* no answer
    /\ UNCHANGED <<live, spoiled, tokens, isAuthenticated, page, shown, modal>>

\* The call ends: a list is shown, a change refetches, a code goes to the dialog,
\* and a stop from the home page leaves everything as it is shown.
Completed(r) ==
    CASE calls[r].op = "list" ->
            /\ Set(r, Free) /\ UNCHANGED <<modal, stopped>>
            /\ shown' = IF calls[r].dropped THEN shown
                        ELSE [shown EXCEPT ![calls[r].list] = calls[r].entry]
      [] calls[r].op = "change" ->
            /\ calls' = Refetch(r) /\ stopped' = stopped \ {calls[r].list}
            /\ UNCHANGED <<shown, modal>>
      [] calls[r].op = "stop" -> Set(r, Free) /\ UNCHANGED <<shown, modal, stopped>>
      [] OTHER -> /\ Set(r, Free) /\ UNCHANGED <<shown, stopped>>
                  /\ modal' = [modal EXCEPT !.code = calls[r].entry]

\* The call fails: a query is tried once more, as a call of its own.
Failed(r) ==
    /\ IF calls[r].op = "list" /\ calls[r].attempt = 0 /\ ~calls[r].dropped
       THEN /\ Set(r, [Call("list", calls[r].list, None, FALSE) EXCEPT !.attempt = 1])
            /\ UNCHANGED spoiled
       ELSE Set(r, Free) /\ spoiled' = spoiled \cup {"failure"}
    /\ UNCHANGED <<shown, modal, stopped>>

\* Another refresh is on its way, or has been answered and not been stored.
Overlaps(r) == \E s \in Active \ {r} : calls[s].at \in {"refreshing", "refreshed", "refused"}
\* Mutant: the call is not marked as retried.
Unmarked(call) == call
Marked(call) == [call EXCEPT !.retried = TRUE]

\* The response interceptor.
Handle(r) ==
    /\ \/ /\ calls[r].at = "ok" /\ Completed(r)
          /\ spoiled' = IF calls[r].op = "change" /\ Joins(r) THEN spoiled \cup {"joined"} ELSE spoiled
       \/ /\ calls[r].at = "401" /\ ~calls[r].retried /\ refresh # None
          /\ Set(r, [Marked(calls[r]) EXCEPT !.at = "refreshing", !.spend = refresh])
          /\ spoiled' = IF Overlaps(r) THEN spoiled \cup {"overlap"} ELSE spoiled
          /\ UNCHANGED <<shown, modal, stopped>>
       \/ /\ calls[r].at = "failed" \/ (calls[r].at = "401" /\ (calls[r].retried \/ refresh = None))
          /\ Failed(r)
    /\ UNCHANGED <<server, tokens, isAuthenticated, page, bounds>>

\* The server accepts a refresh token once and answers with a new pair.
ServeRefresh(r) ==
    /\ calls[r].at = "refreshing"
    /\ \/ /\ calls[r].spend \in live
          /\ live' = ((live \cap Held) \ {calls[r].spend}) \cup {NewToken}
          /\ \/ /\ Set(r, [calls[r] EXCEPT !.at = "refreshed", !.answer = NewToken])
                /\ UNCHANGED <<bounds, spoiled>>
             \/ Fault /\ spoiled' = spoiled \cup {"lost"} /\ Answer(r, "refused")
       \/ /\ calls[r].spend \notin live /\ Answer(r, "refused")
          /\ UNCHANGED <<live, bounds, spoiled>>
    /\ UNCHANGED <<lists, tokens, isAuthenticated, page, shown, modal, stopped>>

\* Mutant: the refresh token of the answer is not stored.
StoreAccessToken(token) == access' = TRUE /\ UNCHANGED refresh
StorePair(token) == access' = TRUE /\ refresh' = token

\* The pair is stored and the call sent again, or the tokens are dropped and
\* the browser is sent to /login; the store is not told.
HandleRefresh(r) ==
    /\ \/ /\ calls[r].at = "refreshed" /\ StorePair(calls[r].answer)
          /\ Set(r, [calls[r] EXCEPT !.at = "start", !.with = TRUE,
                                     !.spend = None, !.answer = None])
          /\ UNCHANGED <<page, shown, modal, ghosts>>
       \/ /\ calls[r].at = "refused" /\ access' = FALSE /\ refresh' = None
          /\ page' = "leaving" /\ Failed(r)
    /\ UNCHANGED <<server, isAuthenticated, bounds>>

Step(r) == r \in Active /\ (Send(r) \/ Serve(r) \/ Handle(r) \/ ServeRefresh(r) \/ HandleRefresh(r))

\* The browser leaves the application, and the user opens it again.
Unload ==
    /\ page = "leaving" /\ page' = "/login"
    /\ calls' = [r \in Request |-> Free] /\ shown' = [l \in List |-> None] /\ modal' = NoModal
    /\ spoiled' = spoiled \ {"failure", "joined"} /\ stopped' = {}
    /\ UNCHANGED <<server, tokens, isAuthenticated, bounds>>
Open ==
    /\ page = "/login" /\ Does /\ page' = "/"
    /\ UNCHANGED <<server, tokens, isAuthenticated, calls, shown, modal, ghosts>>

Next ==
    \/ Login \/ Logout \/ Redirect \/ Fetch \/ Change \/ Stop \/ openPairingModal
    \/ (\E r \in Request : Step(r)) \/ Unload \/ Open

\* The network answers or fails, and the browser runs its handlers.
Spec == Init /\ [][Next]_vars /\ (\A r \in Request : WF_vars(Step(r))) /\ WF_vars(Unload)

----------------------------------------------------------------------------
Calls ==
    [at : {"start", "sent", "ok", "401", "failed", "refreshing", "refreshed", "refused"},
     op : {"list", "change", "stop", "pair"}, list : List, entry : {None} \cup Entry \cup SUBSET Entry,
     on : BOOLEAN, with : BOOLEAN, retried : BOOLEAN, attempt : {0, 1}, dropped : BOOLEAN,
     spend : Token \cup {None}, answer : Token \cup {None}]

TypeOK ==
    /\ lists \in [List -> SUBSET Entry] /\ live \subseteq Token
    /\ access \in BOOLEAN /\ refresh \in Token \cup {None} /\ isAuthenticated \in BOOLEAN
    /\ page \in {"/", "dashboard", "leaving", "/login"}
    /\ calls \in [Request -> Calls \cup {Free}]
    /\ \A r \in Active : IF calls[r].op # "list" THEN calls[r].entry \in Entry
                         ELSE calls[r].at = "ok" => calls[r].entry \subseteq Entry
    /\ shown \in [List -> {None} \cup SUBSET Entry]
    /\ modal \in [device : Entry \cup {None}, code : Entry \cup {None}]
    /\ ops \in 0..MaxOps /\ faults \in 0..MaxFaults
    /\ spoiled \subseteq {"overlap", "lost", "logout", "failure", "joined"} /\ stopped \subseteq List

\* Whoever is logged in has a session: the refresh token stored, or one that has
\* just been answered, is one the server accepts, however often the access
\* token runs out and whatever calls fail - unless two refreshes overlap, the
\* answer to one is lost, or the user logs out during a call (api.ts:20-43).
KeepsSession ==
    isAuthenticated /\ spoiled \cap {"overlap", "lost", "logout"} = {} =>
        /\ page \in {"/", "dashboard"}
        /\ \/ refresh \in live
           \/ \E r \in Active : calls[r].at = "refreshed" /\ calls[r].answer \in live

\* With no call under way, and none that failed, the lists shown are the
\* server's, in whatever order changes, fetches and refetches were answered,
\* but for a change that is made before its list is there, and for the sessions
\* once one was stopped from the home page and no fetch has begun since
\* (toggleInternet, stopSession, handleSubmit, handleDelete of the pages;
\* dashboard-home.tsx:205, which refetches nothing).
ShownIsServer ==
    Active = {} /\ spoiled \cap {"failure", "joined"} = {} =>
        \A l \in List \ stopped : shown[l] \in {None, lists[l]}

\* Every call ends, even if the token it was given for its retry has run out
\* when it is used, again and again (api.ts:23).
EveryCallEnds == \A r \in Request : []<>(calls[r] = Free)

----------------------------------------------------------------------------
\* What the pages mean and the code does not do.

\* dashboard-home.tsx: a session stopped from the home page leaves its list.
StopIsShown ==
    Active = {} /\ spoiled \cap {"failure", "joined"} = {} =>
        shown[Sessions] \in {None, lists[Sessions]}

\* devices/page.tsx: the dialog shows the code of its device.
PairingOfModal == modal.code \in {None, modal.device}

\* api.ts:24: calls that meet an expired token together keep their session.
ParallelKeepsSession ==
    isAuthenticated /\ spoiled \cap {"lost", "logout"} = {} => page \in {"/", "dashboard"}

\* store.ts: isAuthenticated means that there are tokens.
AuthenticatedHasTokens == isAuthenticated => refresh # None
=============================================================================
