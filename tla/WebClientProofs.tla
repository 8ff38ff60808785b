-------------------------- MODULE WebClientProofs --------------------------
(***************************************************************************)
(* Proofs about WebClient, for any number of calls under way, lists and    *)
(* entries, and any number of things the user does and answers lost.       *)
(***************************************************************************)
EXTENDS WebClient, FiniteSetTheorems, TLAPS

----------------------------------------------------------------------------
\* The inductive invariant.

\* One refresh at a time, or an overlap has been noted.
RefreshSteps == {"refreshing", "refreshed", "refused"}
OneRefresh ==
    "overlap" \notin spoiled =>
        \A r, s \in Active :
            calls[r].at \in RefreshSteps /\ calls[s].at \in RefreshSteps => r = s

\* Who is logged out sees no dashboard, and has no call under way unless he
\* logged out during one.
SignedOut ==
    ~isAuthenticated => page # "dashboard" /\ ("logout" \notin spoiled => Active = {})

\* While nothing has spoiled the session, the one refresh that is under way has
\* the stored token, the server accepts it or the one it has answered with, and
\* no refresh is refused.
Clean == spoiled \cap {"overlap", "lost", "logout"} = {}
Session ==
    Clean =>
        /\ page \in {"/", "dashboard"}
        /\ \A r \in Active :
              /\ calls[r].at # "refused"
              /\ calls[r].at = "refreshing" => calls[r].spend = refresh /\ refresh \in live
              /\ calls[r].at = "refreshed" => calls[r].answer \in live
        /\ isAuthenticated => refresh \in live \/ \E r \in Active : calls[r].at = "refreshed"

\* A list that differs from the server's has a change under way, which will be
\* followed by a fetch, or a fetch that will bring it up to date, or the home
\* page has changed it.
Changing(l) == \E r \in Active : calls[r].op = "change" /\ calls[r].list = l
UpToDate(l) ==
    /\ \A r \in Fetches(l) : calls[r].at = "ok" => calls[r].entry = lists[l]
    /\ shown[l] \in {None, lists[l]} \/ Fetches(l) # {}
Kept(l) == l \in stopped \/ Changing(l) \/ UpToDate(l)
Followed == spoiled \cap {"failure", "joined"} = {} => \A l \in List : Kept(l)

IInv == TypeOK /\ OneRefresh /\ SignedOut /\ Session /\ Followed

----------------------------------------------------------------------------
\* There is always a token nobody holds: a call holds two, the storage one.

LEMMA TokenCount == IsFiniteSet(Token) /\ Cardinality(Token) = 2 * Cardinality(Request) + 2
<1>1. Cardinality(Request) \in Nat
  BY WebAssumption, FS_CardinalityType DEF WebAssumption
<1>2. 0 \in Int /\ 2 * Cardinality(Request) + 1 \in Int
  BY <1>1
<1>3. QED BY <1>1, <1>2, FS_Interval DEF Token

LEMMA ImageCount ==
    ASSUME NEW S, IsFiniteSet(S), NEW T, NEW f \in [S -> T], \A t \in T : \E x \in S : f[x] = t
    PROVE  IsFiniteSet(T) /\ Cardinality(T) <= Cardinality(S)
BY FS_Surjection DEF Surjection

LEMMA UnionCount ==
    ASSUME NEW S, IsFiniteSet(S), NEW T, IsFiniteSet(T)
    PROVE  /\ IsFiniteSet(S \cup T)
           /\ Cardinality(S \cup T) <= Cardinality(S) + Cardinality(T)
<1>1. /\ Cardinality(S) \in Nat /\ Cardinality(T) \in Nat
      /\ Cardinality(S \cap T) \in Nat
  BY FS_CardinalityType, FS_Intersection
<1>2. /\ IsFiniteSet(S \cup T)
      /\ Cardinality(S \cup T) = Cardinality(S) + Cardinality(T) - Cardinality(S \cap T)
  BY FS_Union
<1>3. QED BY <1>1, <1>2

LEMMA HeldCount ==
    IsFiniteSet(Held) /\ Cardinality(Held) <= 2 * Cardinality(Request) + 1
<1> DEFINE Spent == {calls[r].spend : r \in Active}
           Answered == {calls[r].answer : r \in Active}
           n == Cardinality(Request)
<1>1. IsFiniteSet(Active) /\ n \in Nat /\ Cardinality(Active) <= n
  BY WebAssumption, FS_Subset, FS_CardinalityType DEF WebAssumption, Active
<1>2. IsFiniteSet(Spent) /\ Cardinality(Spent) <= n
  <2> DEFINE f == [r \in Active |-> calls[r].spend]
  <2>1. f \in [Active -> Spent] /\ \A t \in Spent : \E r \in Active : f[r] = t
    OBVIOUS
  <2>2. IsFiniteSet(Spent) /\ Cardinality(Spent) <= Cardinality(Active)
    BY ONLY <1>1, <2>1, ImageCount
  <2>3. QED BY <1>1, <2>2, FS_CardinalityType
<1>3. IsFiniteSet(Answered) /\ Cardinality(Answered) <= n
  <2> DEFINE f == [r \in Active |-> calls[r].answer]
  <2>1. f \in [Active -> Answered] /\ \A t \in Answered : \E r \in Active : f[r] = t
    OBVIOUS
  <2>2. IsFiniteSet(Answered) /\ Cardinality(Answered) <= Cardinality(Active)
    BY ONLY <1>1, <2>1, ImageCount
  <2>3. QED BY <1>1, <2>2, FS_CardinalityType
<1>4. IsFiniteSet({refresh}) /\ Cardinality({refresh}) = 1
  BY FS_Singleton
<1>5. Held = {refresh} \cup (Spent \cup Answered)
  BY DEF Held
<1> HIDE DEF Spent, Answered, n
<1>6. /\ IsFiniteSet(Spent \cup Answered)
      /\ Cardinality(Spent \cup Answered) <= Cardinality(Spent) + Cardinality(Answered)
  BY <1>2, <1>3, UnionCount
<1>7. /\ IsFiniteSet(Held)
      /\ Cardinality(Held) <= 1 + Cardinality(Spent \cup Answered)
  BY <1>4, <1>5, <1>6, UnionCount
<1>8. /\ Cardinality(Spent) \in Nat /\ Cardinality(Answered) \in Nat
      /\ Cardinality(Spent \cup Answered) \in Nat /\ Cardinality(Held) \in Nat
  BY <1>2, <1>3, <1>6, <1>7, FS_CardinalityType
<1>9. Cardinality(Held) <= 2 * n + 1
  BY <1>1, <1>2, <1>3, <1>6, <1>7, <1>8
<1>10. QED BY <1>7, <1>9 DEF n

LEMMA NewTokenFresh == NewToken \in Token /\ NewToken \notin Held
<1>1. \E t \in Token : t \notin Held
  <2>1. SUFFICES ASSUME Token \subseteq Held PROVE FALSE
    OBVIOUS
  <2>2. Cardinality(Token) <= Cardinality(Held)
    BY <2>1, HeldCount, FS_Subset
  <2>3. Cardinality(Request) \in Nat /\ Cardinality(Held) \in Nat
    BY HeldCount, WebAssumption, FS_CardinalityType DEF WebAssumption
  <2>4. QED BY <2>2, <2>3, HeldCount, TokenCount
<1>2. QED BY <1>1 DEF NewToken

----------------------------------------------------------------------------
\* Calls.

\* What a call carries.
Carries(c) ==
    IF c.op # "list" THEN c.entry \in Entry ELSE c.at = "ok" => c.entry \subseteq Entry

CallType == calls \in [Request -> Calls \cup {Free}] /\ \A r \in Active : Carries(calls[r])

LEMMA FreeIsNoCall == Free \notin Calls /\ Free.at = "free"
<1>1. Free.at = "free"
  BY DEF Free
<1>2. \A c \in Calls : c.at # "free"
  BY DEF Calls
<1>3. QED BY <1>1, <1>2

LEMMA ActiveCalls ==
    ASSUME CallType, NEW r \in Request
    PROVE  /\ r \in Active <=> calls[r].at # "free"
           /\ r \in Active => calls[r] \in Calls /\ Carries(calls[r])
           /\ r \notin Active => calls[r] = Free
<1>1. calls[r] \in Calls => calls[r].at # "free"
  BY DEF Calls
<1>2. QED BY <1>1, FreeIsNoCall DEF CallType, Active

LEMMA NewCall ==
    ASSUME NEW op \in {"list", "change", "stop", "pair"}, NEW l \in List,
           NEW e \in {None} \cup Entry, NEW on \in BOOLEAN
    PROVE  /\ Call(op, l, e, on) \in Calls
           /\ Call(op, l, e, on).at = "start" /\ Call(op, l, e, on).op = op
           /\ Call(op, l, e, on).list = l /\ Call(op, l, e, on).entry = e
           /\ ~Call(op, l, e, on).dropped
           /\ (op # "list" => e \in Entry) => Carries(Call(op, l, e, on))
BY DEF Call, Calls, Carries

LEMMA SetCall ==
    ASSUME CallType, NEW r \in Request, NEW c, Set(r, c)
    PROVE  /\ calls'[r] = c
           /\ \A s \in Request \ {r} : calls'[s] = calls[s]
           /\ c = Free => Active' = Active \ {r}
           /\ c \in Calls => Active' = Active \cup {r}
           /\ (c \in Calls /\ Carries(c)) \/ c = Free => CallType'
<1>1. /\ calls'[r] = c
      /\ \A s \in Request \ {r} : calls'[s] = calls[s]
      /\ \A S : calls \in [Request -> S] /\ c \in S => calls' \in [Request -> S]
  BY DEF Set, CallType
<1>2. c = Free => Active' = Active \ {r}
  BY <1>1 DEF Active
<1>3. c \in Calls => Active' = Active \cup {r}
  BY <1>1, FreeIsNoCall DEF Active
<1>4. (c \in Calls /\ Carries(c)) \/ c = Free => CallType'
  <2>1. ASSUME (c \in Calls /\ Carries(c)) \/ c = Free
        PROVE  calls' \in [Request -> Calls \cup {Free}]
    BY <1>1, <2>1 DEF CallType
  <2>2. ASSUME (c \in Calls /\ Carries(c)) \/ c = Free, NEW s \in Active'
        PROVE  Carries(calls'[s])
    <3>1. s \in Request /\ calls'[s] # Free
      BY DEF Active
    <3>2. CASE s = r
      BY <1>1, <2>2, <3>1, <3>2
    <3>3. CASE s # r
      BY <1>1, <3>1, <3>3 DEF CallType, Active
    <3>4. QED BY <3>2, <3>3
  <2>3. QED BY <2>1, <2>2 DEF CallType
<1>5. QED BY <1>1, <1>2, <1>3, <1>4

----------------------------------------------------------------------------
\* Type correctness, by parts of the state.

ServerType == lists \in [List -> SUBSET Entry] /\ live \subseteq Token
ClientType ==
    /\ access \in BOOLEAN /\ refresh \in Token \cup {None} /\ isAuthenticated \in BOOLEAN
    /\ page \in {"/", "dashboard", "leaving", "/login"}
ViewType ==
    /\ shown \in [List -> {None} \cup SUBSET Entry]
    /\ modal \in [device : Entry \cup {None}, code : Entry \cup {None}]
CountType ==
    /\ ops \in 0..MaxOps /\ faults \in 0..MaxFaults
    /\ spoiled \subseteq {"overlap", "lost", "logout", "failure", "joined"} /\ stopped \subseteq List

LEMMA TypeParts ==
    TypeOK <=> ServerType /\ ClientType /\ CallType /\ ViewType /\ CountType
BY DEF TypeOK, ServerType, ClientType, CallType, ViewType, CountType,
         Carries

LEMMA TypeInit == Init => TypeOK
<1> SUFFICES ASSUME Init PROVE TypeOK
  OBVIOUS
<1>1. CountType
  <2>1. ops \in 0..MaxOps /\ faults \in 0..MaxFaults
    BY WebAssumption DEF WebAssumption, Init
  <2>2. QED BY <2>1 DEF Init, CountType
<1>2. ServerType /\ ClientType
  BY DEF Init, ServerType, ClientType
<1>3. CallType
  BY DEF Init, CallType, Active
<1>4. ViewType
  BY DEF Init, ViewType, NoModal
<1>5. QED BY <1>1, <1>2, <1>3, <1>4, TypeParts

\* The home page stops a session it shows.
LEMMA StopStarts ==
    ASSUME ViewType, Stop
    PROVE  \E l \in List, e \in Entry, r \in Request \ Active : Set(r, Call("stop", l, e, FALSE))
<1>1. PICK e \in shown[Sessions], r \in Request \ Active : Set(r, Call("stop", Sessions, e, FALSE))
  BY DEF Stop
<1>2. Sessions \in List /\ shown[Sessions] \subseteq Entry
  BY WebAssumption DEF WebAssumption, Stop, ViewType
<1>3. QED BY <1>1, <1>2

\* How each step changes the calls.
LEMMA UserCalls ==
    ASSUME CallType, NEW r \in Request,
           \/ \E l \in List : Set(r, Call("list", l, None, FALSE))
           \/ \E l \in List, e \in Entry, on \in BOOLEAN : Set(r, Call("change", l, e, on))
           \/ \E l \in List, e \in Entry, op \in {"stop", "pair"} : Set(r, Call(op, l, e, FALSE))
    PROVE  CallType'
<1>1. PICK op \in {"list", "change", "stop", "pair"}, l \in List, e \in {None} \cup Entry,
           on \in BOOLEAN :
           Set(r, Call(op, l, e, on)) /\ (op # "list" => e \in Entry)
  OBVIOUS
<1>2. QED BY <1>1, NewCall, SetCall

\* A refetch frees the change and gives up the fetch under way, or starts one
\* in its place.
LEMMA RefetchCalls ==
    ASSUME CallType, NEW r \in Active, calls' = Refetch(r)
    PROVE  /\ CallType'
           /\ Joins(r) => Set(r, Free)
           /\ ~Joins(r) =>
                /\ calls'[r] = Call("list", calls[r].list, None, FALSE)
                /\ \A s \in Request \ {r} :
                      calls'[s] = IF s \in Fetches(calls[r].list)
                                  THEN [calls[s] EXCEPT !.dropped = TRUE] ELSE calls[s]
                /\ Active' = Active
<1>1. r \in Request /\ calls[r] \in Calls /\ calls[r].list \in List
  BY ActiveCalls DEF Active, Calls
<1>2. CASE Joins(r)
  BY <1>1, <1>2, SetCall DEF Refetch, Set
<1>3. CASE ~Joins(r)
  <2> DEFINE new == Call("list", calls[r].list, None, FALSE)
  <2>1. new \in Calls /\ Carries(new)
    BY <1>1, NewCall
  <2>2. /\ calls'[r] = new
        /\ \A s \in Request \ {r} :
              calls'[s] = IF s \in Fetches(calls[r].list)
                          THEN [calls[s] EXCEPT !.dropped = TRUE] ELSE calls[s]
        /\ DOMAIN calls' = Request
    BY <1>1, <1>3 DEF Refetch
  <2>3. ASSUME NEW s \in Active
        PROVE  LET d == [calls[s] EXCEPT !.dropped = TRUE] IN d \in Calls /\ Carries(d)
    <3>1. s \in Request /\ calls[s] \in Calls /\ Carries(calls[s])
      BY <2>3, ActiveCalls DEF Active
    <3>2. QED BY <3>1 DEF Calls, Carries
  <2>4. Fetches(calls[r].list) \subseteq Active
    BY DEF Fetches
  <2> HIDE DEF new
  <2>5. ASSUME NEW s \in Request
        PROVE  /\ calls'[s] \in Calls \cup {Free}
               /\ calls'[s] # Free => Carries(calls'[s])
               /\ calls'[s] = Free <=> calls[s] = Free
    <3>1. CASE s = r
      BY <2>1, <2>2, <3>1, FreeIsNoCall DEF Active
    <3>2. CASE s # r /\ s \in Fetches(calls[r].list)
      BY <2>2, <2>3, <2>4, <3>2, FreeIsNoCall DEF Active
    <3>3. CASE s # r /\ s \notin Fetches(calls[r].list)
      BY <2>2, <3>3 DEF CallType, Active
    <3>4. QED BY <3>1, <3>2, <3>3
  <2>6. Active' = Active
    BY <2>5 DEF Active
  <2>7. calls' \in [Request -> Calls \cup {Free}]
    <3>1. calls' = [s \in Request |-> calls'[s]]
      BY <1>3 DEF Refetch
    <3>2. QED BY <2>5, <3>1
  <2>8. CallType'
    BY <2>5, <2>7 DEF CallType, Active
  <2>9. QED BY <1>3, <2>2, <2>6, <2>8 DEF new
<1>4. QED BY <1>2, <1>3

\* A failed call is tried again or ends.
LEMMA FailedCalls ==
    ASSUME CallType, NEW r \in Active, Failed(r)
    PROVE  /\ CallType'
           /\ \/ Set(r, Free) /\ spoiled' = spoiled \cup {"failure"}
              \/ /\ spoiled' = spoiled /\ calls[r].op = "list"
                 /\ ~calls[r].dropped
                 /\ \E c \in Calls :
                      /\ Set(r, c) /\ c.at = "start" /\ c.op = "list" /\ ~c.dropped
                      /\ c.list = calls[r].list
<1>1. r \in Request /\ calls[r] \in Calls /\ calls[r].list \in List
  BY ActiveCalls DEF Active, Calls
<1>2. CASE calls[r].op = "list" /\ calls[r].attempt = 0 /\ ~calls[r].dropped
  <2> DEFINE n == Call("list", calls[r].list, None, FALSE)
  <2>1. /\ n \in Calls /\ Carries(n)
        /\ n.at = "start" /\ n.op = "list" /\ n.list = calls[r].list /\ ~n.dropped
    <3>1. n \in Calls /\ Carries(n)
      BY <1>1, NewCall
    <3>2. n.at = "start" /\ n.op = "list" /\ n.list = calls[r].list /\ ~n.dropped
      BY DEF Call
    <3>3. QED BY <3>1, <3>2
  <2> DEFINE c == [n EXCEPT !.attempt = 1]
  <2>2. Set(r, c) /\ spoiled' = spoiled
    BY <1>2 DEF Failed
  <2> HIDE DEF n
  <2>3. /\ c \in Calls /\ Carries(c)
        /\ c.at = "start" /\ c.op = "list" /\ ~c.dropped /\ c.list = calls[r].list
    BY <2>1 DEF Calls, Carries
  <2> HIDE DEF c
  <2>4. CallType'
    BY <1>1, <2>2, <2>3, SetCall
  <2>5. QED BY <1>2, <2>2, <2>3, <2>4
<1>3. CASE ~(calls[r].op = "list" /\ calls[r].attempt = 0 /\ ~calls[r].dropped)
  <2>1. Set(r, Free) /\ spoiled' = spoiled \cup {"failure"}
    BY <1>3 DEF Failed
  <2>2. QED BY <1>1, <2>1, SetCall
<1>4. QED BY <1>2, <1>3

\* A call that neither ends nor starts anew goes on as the call it is; a list it
\* is given is the server's.
GoesOn(q, c) ==
    /\ Set(q, c) /\ Carries(c)
    /\ c.op = calls[q].op /\ c.list = calls[q].list /\ c.dropped = calls[q].dropped
    /\ c.op = "list" /\ c.at = "ok" => c.entry = lists[c.list]
Quiet == UNCHANGED shown /\ stopped \subseteq stopped'

LEMMA CallMoves ==
    ASSUME ServerType, ClientType, CallType, NEW q \in Active, Step(q)
    PROVE  \/ (\E c \in Calls : GoesOn(q, c)) /\ Quiet
           \/ calls[q].at = "ok" /\ Completed(q)
           \/ Failed(q)
<1>1. q \in Request /\ calls[q] \in Calls /\ Carries(calls[q])
  BY ActiveCalls DEF Active
<1>2. ASSUME NEW at \in {"401", "failed", "refused"}, Answer(q, at)
      PROVE  \E c \in Calls : GoesOn(q, c)
  <2> DEFINE c == [calls[q] EXCEPT !.at = at]
  <2>1. c \in Calls /\ c.at # "ok" /\ Carries(c)
        /\ c.op = calls[q].op /\ c.list = calls[q].list /\ c.dropped = calls[q].dropped
    BY <1>1 DEF Calls, Carries
  <2>2. Set(q, c)
    BY <1>2 DEF Answer
  <2> HIDE DEF c
  <2>3. QED BY <2>1, <2>2 DEF GoesOn
<1>3. CASE Send(q)
  <2> DEFINE c == [calls[q] EXCEPT !.at = "sent", !.with = access \/ @]
  <2>1. c \in Calls /\ c.at # "ok" /\ Carries(c)
        /\ c.op = calls[q].op /\ c.list = calls[q].list /\ c.dropped = calls[q].dropped
    BY <1>1 DEF Calls, Carries
  <2>2. Set(q, c) /\ Quiet
    BY <1>3 DEF Send, ghosts, Quiet
  <2> HIDE DEF c
  <2>3. QED BY <2>1, <2>2 DEF GoesOn
<1>4. CASE Serve(q)
  <2>1. CASE Content(q)
    <3> DEFINE c == [calls[q] EXCEPT !.at = "ok",
                        !.entry = IF calls[q].op = "list" THEN lists[calls[q].list] ELSE @]
    <3>1. lists[calls[q].list] \in SUBSET Entry
      BY <1>1 DEF Calls, ServerType
    <3>2. /\ c \in Calls /\ Carries(c) /\ (c.op = "list" => c.entry = lists[c.list])
          /\ c.op = calls[q].op /\ c.list = calls[q].list /\ c.dropped = calls[q].dropped
      BY <1>1, <3>1 DEF Calls, Carries
    <3>3. Set(q, c) /\ Quiet
      BY <1>4, <2>1 DEF Content, Serve, Effect, Quiet
    <3> HIDE DEF c
    <3>4. QED BY <3>2, <3>3 DEF GoesOn
  <2>2. QED BY <1>2, <1>4, <2>1 DEF Serve, Effect, Quiet
<1>5. CASE Handle(q)
  <2>1. CASE /\ Set(q, [Marked(calls[q]) EXCEPT !.at = "refreshing", !.spend = refresh])
             /\ Quiet
    <3> DEFINE c == [Marked(calls[q]) EXCEPT !.at = "refreshing", !.spend = refresh]
    <3>1. c \in Calls /\ c.at # "ok" /\ Carries(c)
          /\ c.op = calls[q].op /\ c.list = calls[q].list /\ c.dropped = calls[q].dropped
      BY <1>1 DEF Calls, Carries, Marked, ClientType
    <3>2. Set(q, c)
      BY <2>1
    <3> HIDE DEF c
    <3>3. QED BY <2>1, <3>1, <3>2 DEF GoesOn
  <2>2. QED BY <1>5, <2>1 DEF Handle, Quiet
<1>6. CASE ServeRefresh(q)
  <2>1. Quiet
    BY <1>6 DEF ServeRefresh, Quiet
  <2>2. CASE Set(q, [calls[q] EXCEPT !.at = "refreshed", !.answer = NewToken])
    <3> DEFINE c == [calls[q] EXCEPT !.at = "refreshed", !.answer = NewToken]
    <3>1. c \in Calls /\ c.at # "ok" /\ Carries(c)
          /\ c.op = calls[q].op /\ c.list = calls[q].list /\ c.dropped = calls[q].dropped
      BY <1>1, NewTokenFresh DEF Calls, Carries
    <3>2. Set(q, c)
      BY <2>2
    <3> HIDE DEF c
    <3>3. QED BY <2>1, <3>1, <3>2 DEF GoesOn
  <2>3. QED BY <1>2, <1>6, <2>1, <2>2 DEF ServeRefresh
<1>7. CASE HandleRefresh(q)
  <2>1. CASE /\ Quiet
             /\ Set(q, [calls[q] EXCEPT !.at = "start", !.with = TRUE,
                                        !.spend = None, !.answer = None])
    <3> DEFINE c == [calls[q] EXCEPT !.at = "start", !.with = TRUE,
                                     !.spend = None, !.answer = None]
    <3>1. c \in Calls /\ c.at # "ok" /\ Carries(c)
          /\ c.op = calls[q].op /\ c.list = calls[q].list /\ c.dropped = calls[q].dropped
      BY <1>1 DEF Calls, Carries
    <3>2. Set(q, c)
      BY <2>1
    <3> HIDE DEF c
    <3>3. QED BY <2>1, <3>1, <3>2 DEF GoesOn
  <2>2. QED BY <1>7, <2>1 DEF HandleRefresh, ghosts, Quiet
<1>8. QED BY <1>3, <1>4, <1>5, <1>6, <1>7 DEF Step

LEMMA CallTypeStep == TypeOK /\ [Next]_vars => CallType'
<1> SUFFICES ASSUME ServerType, ClientType, CallType, ViewType, [Next]_vars PROVE CallType'
  BY TypeParts
<1>1. CASE UNCHANGED calls
  BY <1>1 DEF CallType, Active
<1>2. CASE Fetch \/ Change \/ Stop \/ openPairingModal
  <2>1. ASSUME NEW l \in List, NEW e PROVE (shown[l] # None => e \notin shown[l]) \in BOOLEAN
    OBVIOUS
  <2>2. (CHOOSE l \in List : TRUE) \in List
    BY WebAssumption DEF WebAssumption
  <2>3. \E r \in Request :
           \/ \E l \in List : Set(r, Call("list", l, None, FALSE))
           \/ \E l \in List, e \in Entry, on \in BOOLEAN : Set(r, Call("change", l, e, on))
           \/ \E l \in List, e \in Entry, op \in {"stop", "pair"} : Set(r, Call(op, l, e, FALSE))
    <3>1. CASE Fetch
      BY <3>1 DEF Fetch
    <3>2. CASE Change
      BY <2>1, <3>2 DEF Change
    <3>3. CASE openPairingModal
      BY <2>2, <3>3 DEF openPairingModal
    <3>4. CASE Stop
      BY <3>4, StopStarts
    <3>5. QED BY <1>2, <3>1, <3>2, <3>3, <3>4
  <2>4. QED BY <2>3, UserCalls
<1>3. CASE Unload
  BY <1>3 DEF Unload, CallType, Active
<1>4. ASSUME NEW r \in Active, Step(r) PROVE CallType'
  <2>1. r \in Request
    BY DEF Active
  <2>2. CASE \E c \in Calls : GoesOn(r, c)
    BY <2>1, <2>2, SetCall DEF GoesOn
  <2>3. CASE Completed(r)
    BY <2>1, <2>3, RefetchCalls, SetCall DEF Completed
  <2>4. CASE Failed(r)
    BY <2>4, FailedCalls
  <2>5. QED BY <1>4, <2>2, <2>3, <2>4, CallMoves
<1>5. QED
  <2>1. Login \/ Logout \/ Redirect \/ Open \/ UNCHANGED vars => UNCHANGED calls
    BY DEF Login, Logout, Redirect, Open, vars
  <2>2. QED BY <1>1, <1>2, <1>3, <1>4, <2>1 DEF Next, Step

\* What a call is given when its list is served is what the page then shows.
LEMMA ServerTypeStep == TypeOK /\ [Next]_vars => ServerType'
<1> SUFFICES ASSUME ServerType, CallType, [Next]_vars PROVE ServerType'
  BY TypeParts
<1>1. live' \subseteq Token
  <2>1. CASE Login
    BY <2>1, NewTokenFresh DEF Login, ServerType
  <2>2. ASSUME NEW r \in Request, ServeRefresh(r) PROVE live' \subseteq Token
    BY <2>2, NewTokenFresh DEF ServeRefresh, ServerType
  <2>3. CASE UNCHANGED live
    BY <2>3 DEF ServerType
  <2>4. QED
    BY <2>1, <2>2, <2>3 DEF Next, Step, Logout, Redirect, Fetch, Change, Stop, openPairingModal,
       Send, Serve, Handle, HandleRefresh, Unload, Open, server, vars
<1>2. lists' \in [List -> SUBSET Entry]
  <2>1. ASSUME NEW r \in Active, Effect(r) PROVE lists' \in [List -> SUBSET Entry]
    <3>1. calls[r] \in Calls /\ Carries(calls[r])
      BY ActiveCalls DEF Active
    <3>2. calls[r].op \in {"change", "stop"} => calls[r].entry \in Entry
      BY <3>1 DEF Carries
    <3>3. QED BY <2>1, <3>1, <3>2 DEF Effect, ServerType
  <2>2. CASE UNCHANGED lists
    BY <2>2 DEF ServerType
  <2>3. QED
    BY <2>1, <2>2 DEF Next, Step, Login, Logout, Redirect, Fetch, Change, Stop, openPairingModal,
       Send, Serve, Handle, ServeRefresh, HandleRefresh, Unload, Open, server, vars
<1>3. QED BY <1>1, <1>2 DEF ServerType

LEMMA ClientTypeStep == TypeOK /\ [Next]_vars => ClientType'
<1> SUFFICES ASSUME ClientType, CallType, [Next]_vars PROVE ClientType'
  BY TypeParts
<1> USE DEF ClientType
<1>1. CASE Login
  BY <1>1, NewTokenFresh DEF Login
<1>2. CASE Logout \/ Redirect \/ Unload \/ Open
  BY <1>2 DEF Logout, Redirect, Unload, Open, tokens
<1>3. ASSUME NEW r \in Active, HandleRefresh(r) PROVE ClientType'
  <2>1. calls[r] \in Calls
    BY ActiveCalls DEF Active
  <2>2. CASE calls[r].at = "refreshed" /\ StorePair(calls[r].answer) /\ UNCHANGED page
    <3>1. calls[r].answer \in Token \cup {None}
      BY <2>1 DEF Calls
    <3>2. QED BY <1>3, <2>2, <3>1 DEF StorePair, HandleRefresh
  <2>3. CASE access' = FALSE /\ refresh' = None /\ page' = "leaving"
    BY <1>3, <2>3 DEF HandleRefresh
  <2>4. QED BY <1>3, <2>2, <2>3 DEF HandleRefresh
<1>4. CASE UNCHANGED <<tokens, isAuthenticated, page>>
  BY <1>4 DEF tokens
<1>5. QED
  BY <1>1, <1>2, <1>3, <1>4 DEF Next, Step, Fetch, Change, Stop, openPairingModal, Send, Serve,
     Handle, ServeRefresh, vars

LEMMA ViewTypeStep == TypeOK /\ [Next]_vars => ViewType'
<1> SUFFICES ASSUME ViewType, CallType, [Next]_vars PROVE ViewType'
  BY TypeParts
<1>1. CASE Logout \/ Unload \/ openPairingModal
  <2>1. CASE Logout
    BY <2>1 DEF Logout, NoModal, ViewType
  <2>2. CASE Unload
    BY <2>2 DEF Unload, NoModal, ViewType
  <2>3. CASE openPairingModal
    BY <2>3 DEF openPairingModal, ViewType
  <2>4. QED BY <1>1, <2>1, <2>2, <2>3
<1>2. ASSUME NEW r \in Active, calls[r].at = "ok", Completed(r) PROVE ViewType'
  <2>1. calls[r] \in Calls /\ Carries(calls[r])
    BY ActiveCalls DEF Active
  <2>2. CASE calls[r].op = "list"
    <3>1. calls[r].entry \in SUBSET Entry
      BY <1>2, <2>1, <2>2 DEF Carries
    <3>2. QED BY <1>2, <2>2, <3>1 DEF Completed, ViewType
  <2>3. CASE calls[r].op = "change"
    BY <1>2, <2>3 DEF Completed, ViewType
  <2>4. CASE calls[r].op = "pair"
    <3>1. calls[r].entry \in Entry
      BY <2>1, <2>4 DEF Carries
    <3>2. QED BY <1>2, <2>4, <3>1 DEF Completed, ViewType
  <2>5. CASE calls[r].op = "stop"
    BY <1>2, <2>5 DEF Completed, ViewType
  <2>6. QED BY <2>1, <2>2, <2>3, <2>4, <2>5 DEF Calls
<1>3. CASE UNCHANGED <<shown, modal>>
  BY <1>3 DEF ViewType
<1>4. QED
  BY <1>1, <1>2, <1>3 DEF Next, Step, Login, Redirect, Fetch, Change, Stop, Send, Serve, Handle,
     Failed, ServeRefresh, HandleRefresh, Open, vars

LEMMA CountTypeStep == TypeOK /\ [Next]_vars => CountType'
<1> SUFFICES ASSUME CountType, CallType, [Next]_vars PROVE CountType'
  BY TypeParts
<1>1. ops' \in 0..MaxOps /\ faults' \in 0..MaxFaults
  <2>1. CASE Does \/ Fault \/ UNCHANGED bounds
    BY <2>1, WebAssumption DEF WebAssumption, Does, Fault, bounds, CountType
  <2>2. QED
    BY <2>1 DEF Next, Step, Login, Logout, Redirect, Fetch, Change, Stop, openPairingModal, Send,
       Serve, Handle, ServeRefresh, HandleRefresh, Unload, Open, bounds, vars
<1>2. spoiled' \subseteq spoiled \cup {"overlap", "lost", "logout", "failure", "joined"}
  BY DEF Next, Step, Login, Logout, Redirect, Fetch, Change, Stop, openPairingModal, Send, Serve,
     Handle, Failed, ServeRefresh, HandleRefresh, Unload, Open, vars, ghosts
<1>3. stopped' \subseteq List
  <2>1. ASSUME NEW r \in Active, Serve(r) PROVE stopped' \subseteq List
    <3>1. calls[r].list \in List
      BY ActiveCalls DEF Active, Calls
    <3>2. QED BY <2>1, <3>1 DEF Serve, Effect, CountType
  <2>2. CASE stopped' \subseteq stopped
    BY <2>2 DEF CountType
  <2>3. QED
    BY <2>1, <2>2 DEF Next, Step, Login, Logout, Redirect, Fetch, Change, Stop, openPairingModal,
       Send, Handle, Completed, Failed, ServeRefresh, HandleRefresh, Unload, Open, ghosts, vars
<1>4. QED BY <1>1, <1>2, <1>3 DEF CountType

LEMMA TypeStep == TypeOK /\ [Next]_vars => TypeOK'
<1> SUFFICES ASSUME TypeOK, [Next]_vars PROVE TypeOK'
  OBVIOUS
<1>1. ServerType' /\ ClientType' /\ CallType' /\ ViewType' /\ CountType'
  BY ServerTypeStep, ClientTypeStep, CallTypeStep, ViewTypeStep, CountTypeStep
<1>2. QED BY <1>1, TypeParts DEF TypeOK, ServerType, ClientType, CallType, ViewType, CountType,
         Carries

----------------------------------------------------------------------------
\* What a step of a call does to it and to the others.

SameCall(s) ==
    /\ s \in Active' <=> s \in Active
    /\ calls'[s].at = calls[s].at /\ calls'[s].op = calls[s].op
    /\ calls'[s].list = calls[s].list /\ calls'[s].entry = calls[s].entry
    /\ calls'[s].spend = calls[s].spend /\ calls'[s].answer = calls[s].answer

LEMMA OthersRest ==
    ASSUME TypeOK, NEW r \in Active, Step(r), NEW s \in Request, s # r
    PROVE  SameCall(s)
<1>1. CallType /\ r \in Request
  BY TypeParts DEF Active
<1>2. CASE \E c : Set(r, c)
  BY <1>1, <1>2 DEF Set, CallType, SameCall, Active
<1>3. CASE calls' = Refetch(r)
  <2>1. CASE Joins(r)
    BY <1>1, <1>3, <2>1, RefetchCalls DEF Set, CallType, SameCall, Active
  <2>2. CASE ~Joins(r) /\ s \in Fetches(calls[r].list)
    <3>1. calls[s] \in Calls /\ s \in Active
      BY <1>1, <2>2, ActiveCalls DEF Fetches
    <3>2. calls'[s] = [calls[s] EXCEPT !.dropped = TRUE] /\ Active' = Active
      BY <1>1, <1>3, <2>2, RefetchCalls
    <3>3. QED BY <3>1, <3>2 DEF Calls, SameCall
  <2>3. CASE ~Joins(r) /\ s \notin Fetches(calls[r].list)
    BY <1>1, <1>3, <2>3, RefetchCalls DEF SameCall
  <2>4. QED BY <2>1, <2>2, <2>3
<1>4. (\E c : Set(r, c)) \/ calls' = Refetch(r)
  <2>1. CASE Send(r)
    BY <2>1 DEF Send
  <2>2. CASE Serve(r)
    BY <2>2 DEF Serve, Answer, Content
  <2>3. CASE Handle(r)
    BY <2>3 DEF Handle, Completed, Failed
  <2>4. CASE ServeRefresh(r)
    BY <2>4 DEF ServeRefresh, Answer
  <2>5. CASE HandleRefresh(r)
    BY <2>5 DEF HandleRefresh, Failed
  <2>6. QED BY <2>1, <2>2, <2>3, <2>4, <2>5 DEF Step
<1>5. QED BY <1>2, <1>3, <1>4

\* A call takes its refresh token while nobody else refreshes, or it is noted.
LEMMA RefreshBegins ==
    ASSUME TypeOK, NEW r \in Active, Step(r), calls'[r].at \in RefreshSteps
    PROVE  \/ calls[r].at = "refreshing" /\ ServeRefresh(r)
           \/ /\ calls'[r].at = "refreshing" /\ calls'[r].spend = refresh
              /\ Handle(r) /\ UNCHANGED <<live, refresh, page>>
              /\ spoiled' = IF Overlaps(r) THEN spoiled \cup {"overlap"} ELSE spoiled
<1>1. r \in Request /\ calls[r] \in Calls /\ CallType
  BY TypeParts, ActiveCalls DEF Active
<1>2. CASE Send(r)
  <2>1. calls'[r].at = "sent"
    BY <1>1, <1>2 DEF Send, Set, Calls, CallType
  <2>2. QED BY <2>1 DEF RefreshSteps
<1>3. CASE Serve(r)
  <2>1. calls'[r].at \in {"ok", "401", "failed"}
    <3>1. ASSUME NEW at, Answer(r, at) PROVE calls'[r].at = at
      BY <1>1, <3>1 DEF Answer, Set, Calls, CallType
    <3>2. Content(r) => calls'[r].at = "ok"
      BY <1>1 DEF Content, Set, Calls, CallType
    <3>3. QED BY <1>3, <3>1, <3>2 DEF Serve
  <2>2. QED BY <2>1 DEF RefreshSteps
<1>4. CASE Handle(r)
  <2>1. CASE /\ Set(r, [Marked(calls[r]) EXCEPT !.at = "refreshing", !.spend = refresh])
             /\ spoiled' = IF Overlaps(r) THEN spoiled \cup {"overlap"} ELSE spoiled
    <3>1. calls'[r].at = "refreshing" /\ calls'[r].spend = refresh
      BY <1>1, <2>1 DEF Set, Marked, Calls, CallType
    <3>2. QED BY <1>4, <2>1, <3>1 DEF Handle, server, tokens
  <2>2. CASE Completed(r)
    <3>1. calls'[r].at \in {"free", "start"}
      <4>1. CASE calls[r].op = "change"
        <5>1. Call("list", calls[r].list, None, FALSE).at = "start"
          BY DEF Call
        <5>2. calls' = Refetch(r)
          BY <2>2, <4>1 DEF Completed
        <5>3. QED BY <1>1, <5>1, <5>2, RefetchCalls, SetCall, FreeIsNoCall
      <4>2. CASE calls[r].op # "change"
        BY <1>1, <2>2, <4>2, SetCall, FreeIsNoCall DEF Completed
      <4>3. QED BY <4>1, <4>2
    <3>2. QED BY <3>1 DEF RefreshSteps
  <2>3. CASE Failed(r)
    <3>1. calls'[r].at \in {"free", "start"}
      BY <1>1, <2>3, FailedCalls, SetCall, FreeIsNoCall
    <3>2. QED BY <3>1 DEF RefreshSteps
  <2>4. QED BY <1>4, <2>1, <2>2, <2>3 DEF Handle
<1>5. CASE ServeRefresh(r)
  BY <1>5 DEF ServeRefresh
<1>6. CASE HandleRefresh(r)
  <2>1. CASE Set(r, [calls[r] EXCEPT !.at = "start", !.with = TRUE,
                                     !.spend = None, !.answer = None])
    <3>1. calls'[r].at = "start"
      BY <1>1, <2>1 DEF Set, Calls, CallType
    <3>2. QED BY <3>1 DEF RefreshSteps
  <2>2. CASE Failed(r)
    <3>1. calls'[r].at \in {"free", "start"}
      BY <1>1, <2>2, FailedCalls, SetCall, FreeIsNoCall
    <3>2. QED BY <3>1 DEF RefreshSteps
  <2>3. QED BY <1>6, <2>1, <2>2 DEF HandleRefresh
<1>7. QED BY <1>2, <1>3, <1>4, <1>5, <1>6 DEF Step

\* What the user starts is a call of its own.
LEMMA UserStarts ==
    ASSUME TypeOK, Fetch \/ Change \/ Stop \/ openPairingModal
    PROVE  /\ Active \subseteq Active'
           /\ \A s \in Active : calls'[s] = calls[s]
           /\ \A s \in Active' \ Active :
                 calls'[s].at = "start" /\ (calls'[s].op = "list" => ~calls'[s].dropped)
<1>1. CallType
  BY TypeParts
<1>2. PICK r \in Request \ Active, op \in {"list", "change", "stop", "pair"}, l \in List,
           e \in {None} \cup Entry, on \in BOOLEAN :
             Set(r, Call(op, l, e, on))
  <2>1. ASSUME NEW l \in List, NEW e PROVE (shown[l] # None => e \notin shown[l]) \in BOOLEAN
    OBVIOUS
  <2>2. (CHOOSE l \in List : TRUE) \in List
    BY WebAssumption DEF WebAssumption
  <2>3. CASE Fetch
    BY <2>3 DEF Fetch
  <2>4. CASE Change
    BY <2>1, <2>4 DEF Change
  <2>5. CASE openPairingModal
    BY <2>2, <2>5 DEF openPairingModal
  <2>6. CASE Stop
    <3>1. ViewType
      BY TypeParts
    <3>2. QED BY <2>6, <3>1, StopStarts
  <2>7. QED BY <2>3, <2>4, <2>5, <2>6
<1>3. Call(op, l, e, on).at = "start" /\ ~Call(op, l, e, on).dropped
  BY DEF Call
<1>4. Call(op, l, e, on) \in Calls
  BY NewCall
<1>5. QED BY <1>1, <1>2, <1>3, <1>4, SetCall DEF Active

LEMMA OneRefreshStep == TypeOK /\ OneRefresh /\ [Next]_vars => OneRefresh'
<1> SUFFICES ASSUME TypeOK, OneRefresh, [Next]_vars, "overlap" \notin spoiled',
                    NEW r \in Active', NEW s \in Active',
                    calls'[r].at \in RefreshSteps, calls'[s].at \in RefreshSteps
             PROVE  r = s
  BY DEF OneRefresh
<1>1. CASE Login
  BY <1>1 DEF Login, OneRefresh, Active
<1>2. CASE Logout \/ Redirect \/ Open \/ UNCHANGED vars
  BY <1>2 DEF Logout, Redirect, Open, vars, OneRefresh, Active, ghosts
<1>3. CASE Fetch \/ Change \/ Stop \/ openPairingModal
  <2>1. spoiled' = spoiled
    BY <1>3 DEF Fetch, Change, Stop, openPairingModal, ghosts
  <2>2. r \in Active /\ s \in Active
    BY <1>3, UserStarts DEF RefreshSteps
  <2>3. QED BY <1>3, <2>1, <2>2, UserStarts DEF OneRefresh
<1>4. CASE Unload
  BY <1>4 DEF Unload, Active
<1>5. ASSUME NEW q \in Active, Step(q) PROVE r = s
  <2>1. "overlap" \notin spoiled
    BY <1>5 DEF Step, Send, Serve, Handle, Failed, ServeRefresh, HandleRefresh, ghosts
  <2>2. ASSUME NEW t \in Active', t # q, calls'[t].at \in RefreshSteps
        PROVE  t \in Active /\ calls[t].at \in RefreshSteps
    BY <1>5, <2>2, OthersRest DEF SameCall, Active
  <2>3. ASSUME NEW t \in Active, t # q, calls[t].at \in RefreshSteps,
               calls'[q].at \in RefreshSteps
        PROVE  FALSE
    <3>1. CASE calls[q].at = "refreshing"
      BY <2>1, <2>3, <3>1 DEF OneRefresh, RefreshSteps
    <3>2. CASE spoiled' = IF Overlaps(q) THEN spoiled \cup {"overlap"} ELSE spoiled
      BY <2>3, <3>2 DEF Overlaps, RefreshSteps
    <3>3. QED BY <1>5, <2>3, <3>1, <3>2, RefreshBegins
  <2>4. QED BY <2>1, <2>2, <2>3 DEF OneRefresh
<1>6. QED BY <1>1, <1>2, <1>3, <1>4, <1>5 DEF Next, Step

LEMMA SignedOutStep == TypeOK /\ SignedOut /\ [Next]_vars => SignedOut'
<1> SUFFICES ASSUME TypeOK, SignedOut, [Next]_vars PROVE SignedOut'
  OBVIOUS
<1>1. CASE Login \/ Redirect \/ Open \/ UNCHANGED vars
  BY <1>1 DEF Login, Redirect, Open, vars, SignedOut, Active, ghosts
<1>2. CASE Logout
  BY <1>2 DEF Logout, SignedOut, Active
<1>3. CASE Fetch \/ Change \/ Stop \/ openPairingModal
  BY <1>3 DEF Fetch, Change, Stop, openPairingModal, SignedOut
<1>4. CASE Unload
  BY <1>4 DEF Unload, SignedOut, Active
<1>5. ASSUME NEW q \in Active, Step(q) PROVE SignedOut'
  <2>1. isAuthenticated' = isAuthenticated /\ spoiled \subseteq spoiled'
        /\ page' \in {page, "leaving"}
    BY <1>5 DEF Step, Send, Serve, Handle, Failed, ServeRefresh, HandleRefresh, ghosts
  <2>2. QED BY <1>5, <2>1 DEF SignedOut
<1>6. QED BY <1>1, <1>2, <1>3, <1>4, <1>5 DEF Next, Step

\* A step of a call that neither begins nor ends a refresh.
LEMMA SessionRests ==
    ASSUME TypeOK, Session, Clean, NEW q \in Active, Step(q),
           calls[q].at \notin RefreshSteps, calls'[q].at \notin RefreshSteps,
           UNCHANGED <<live, refresh, page, isAuthenticated>>
    PROVE  Session'
<1>1. ASSUME NEW r \in Active', calls'[r].at \in RefreshSteps
      PROVE  r # q /\ SameCall(r)
  BY <1>1, OthersRest DEF Active
<1>2. ASSUME NEW r \in Active, calls[r].at = "refreshed"
      PROVE  r \in Active' /\ calls'[r].at = "refreshed"
  BY <1>2, OthersRest DEF SameCall, RefreshSteps, Active
<1>3. QED BY <1>1, <1>2 DEF Session, SameCall, RefreshSteps

LEMMA SessionStep ==
    TypeOK /\ OneRefresh /\ SignedOut /\ Session /\ [Next]_vars => Session'
<1> SUFFICES ASSUME TypeOK, OneRefresh, SignedOut, Session, [Next]_vars, Clean'
             PROVE  Session'
  BY DEF Session
<1>1. CASE Login
  <2>1. Active = {} /\ Active' = {}
    BY <1>1 DEF Login, SignedOut, Clean, Active
  <2>2. QED BY <1>1, <2>1 DEF Login, Session
<1>2. CASE Logout
  <2>1. Active = {} /\ Active' = {}
    BY <1>2 DEF Logout, Clean, Active
  <2>2. QED BY <1>2, <2>1 DEF Logout, Session
<1>3. CASE Redirect \/ Open \/ UNCHANGED vars
  BY <1>3 DEF Redirect, Open, vars, Session, Clean, Active, server, tokens, ghosts
<1>4. CASE Fetch \/ Change \/ Stop \/ openPairingModal
  <2>1. UNCHANGED <<live, refresh, page, isAuthenticated, spoiled>>
    BY <1>4 DEF Fetch, Change, Stop, openPairingModal, server, tokens, ghosts
  <2>2. QED BY <1>4, <2>1, UserStarts DEF Session, Clean
<1>5. CASE Unload
  BY <1>5 DEF Unload, Session, Clean
<1>6. ASSUME NEW q \in Active, Step(q) PROVE Session'
  <2>1. Clean /\ UNCHANGED isAuthenticated
    BY <1>6 DEF Step, Send, Serve, Handle, Failed, ServeRefresh, HandleRefresh, Clean, ghosts
  <2>2. isAuthenticated
    BY <2>1 DEF SignedOut, Clean
  <2>3. calls[q].at \in RefreshSteps =>
           \A r \in Active' \ {q} : calls'[r].at \notin RefreshSteps
    BY <1>6, <2>1, OthersRest DEF OneRefresh, SameCall, Clean, Active
  <2>4. CASE Send(q) \/ Serve(q)
    <3>1. /\ calls[q].at \notin RefreshSteps
          /\ UNCHANGED <<live, refresh, page>>
      BY <2>4 DEF Send, Serve, RefreshSteps, server, tokens
    <3>2. calls'[q].at \notin RefreshSteps
      BY <1>6, <2>4, RefreshBegins DEF Send, Serve, Handle, RefreshSteps
    <3>3. QED BY <1>6, <2>1, <3>1, <3>2, SessionRests
  <2>5. CASE Handle(q)
    <3>1. /\ calls[q].at \notin RefreshSteps
          /\ UNCHANGED <<live, refresh, page>>
      BY <2>5 DEF Handle, RefreshSteps, server, tokens
    <3>2. CASE calls'[q].at \notin RefreshSteps
      BY <1>6, <2>1, <3>1, <3>2, SessionRests
    <3>3. CASE calls'[q].at \in RefreshSteps
      <4>1. /\ calls'[q].at = "refreshing" /\ calls'[q].spend = refresh
            /\ ~Overlaps(q)
        BY <1>6, <3>1, <3>3, RefreshBegins DEF RefreshSteps, Clean
      <4>2. \A r \in Active : calls[r].at # "refreshed"
        BY <3>1, <4>1 DEF Overlaps, RefreshSteps
      <4>3. refresh \in live
        BY <2>1, <2>2, <4>2 DEF Session
      <4>4. \A r \in Active' \ {q} : calls'[r].at \notin RefreshSteps
        BY <1>6, <4>1, OthersRest DEF Overlaps, SameCall, RefreshSteps, Active
      <4>5. QED BY <2>1, <3>1, <4>1, <4>3, <4>4 DEF Session, RefreshSteps
    <3>4. QED BY <3>2, <3>3
  <2>6. CASE ServeRefresh(q)
    <3>1. calls[q].at = "refreshing" /\ calls[q].spend \in live
      BY <2>1, <2>6 DEF Session, ServeRefresh
    <3>2. /\ Set(q, [calls[q] EXCEPT !.at = "refreshed", !.answer = NewToken])
          /\ NewToken \in live'
      BY <2>6, <3>1 DEF ServeRefresh, Clean
    <3>3. q \in Request /\ CallType /\ calls[q] \in Calls
      BY TypeParts, ActiveCalls DEF Active
    <3>4. /\ calls'[q].at = "refreshed" /\ calls'[q].answer = NewToken
      BY <3>2, <3>3 DEF Set, CallType, Calls
    <3>5. q \in Active'
      BY <3>3, <3>4, FreeIsNoCall DEF Active
    <3>6. UNCHANGED page
      BY <2>6 DEF ServeRefresh
    <3>7. QED BY <2>1, <2>3, <3>1, <3>2, <3>4, <3>5, <3>6 DEF Session, RefreshSteps
  <2>7. CASE HandleRefresh(q)
    <3>1. calls[q].at = "refreshed" /\ calls[q].answer \in live
      BY <2>1, <2>7 DEF Session, HandleRefresh
    <3>2. refresh' \in live' /\ UNCHANGED page
      BY <2>7, <3>1 DEF HandleRefresh, StorePair, server
    <3>3. calls'[q].at \notin RefreshSteps
      BY <1>6, <2>7, <3>1, RefreshBegins DEF Handle, RefreshSteps
    <3>4. QED BY <2>1, <2>3, <3>1, <3>2, <3>3 DEF Session, RefreshSteps
  <2>8. QED BY <1>6, <2>4, <2>5, <2>6, <2>7 DEF Step
<1>7. QED BY <1>1, <1>2, <1>3, <1>4, <1>5, <1>6 DEF Next, Step

\* A step of a call that stays what it is: a list it is given is the server's,
\* and only a change changes the server's, its own list.
LEMMA CallGoesOn ==
    ASSUME TypeOK, NEW q \in Active, NEW c \in Calls, Set(q, c),
           \A l \in List : Kept(l),
           c.op = calls[q].op, c.list = calls[q].list, c.dropped = calls[q].dropped,
           c.op = "list" /\ c.at = "ok" => c.entry = lists'[c.list],
           UNCHANGED shown,
           \A l \in List : \/ calls[q].op = "change" /\ l = calls[q].list
                           \/ l \in stopped' \/ lists'[l] = lists[l],
           stopped \subseteq stopped'
    PROVE  \A l \in List : Kept(l)'
<1>1. CallType /\ q \in Request /\ calls[q] \in Calls
  BY TypeParts, ActiveCalls DEF Active
<1>2. /\ Active' = Active /\ calls'[q] = c
      /\ \A s \in Active \ {q} : calls'[s] = calls[s]
  BY <1>1, SetCall DEF Active
<1> SUFFICES ASSUME NEW l \in List, l \notin stopped' PROVE Changing(l)' \/ UpToDate(l)'
  BY DEF Kept
<1>3. Changing(l) => Changing(l)'
  BY <1>2 DEF Changing
<1>4. Fetches(l)' = Fetches(l)
  BY <1>2 DEF Fetches
<1>5. CASE Changing(l)
  BY <1>3, <1>5
<1>6. CASE UpToDate(l) /\ ~Changing(l)
  <2>1. lists'[l] = lists[l]
    BY <1>6 DEF Changing
  <2>2. ASSUME NEW r \in Fetches(l)', calls'[r].at = "ok" PROVE calls'[r].entry = lists'[l]
    <3>1. CASE r = q
      BY <1>2, <1>4, <2>2, <3>1 DEF Fetches
    <3>2. CASE r # q
      BY <1>2, <1>4, <1>6, <2>1, <2>2, <3>2 DEF Fetches, UpToDate
    <3>3. QED BY <3>1, <3>2
  <2>3. QED BY <1>4, <1>6, <2>1, <2>2 DEF UpToDate
<1>7. QED BY <1>5, <1>6 DEF Kept

\* The call of an answered request ends.
LEMMA CallCompleted ==
    ASSUME TypeOK, NEW q \in Active, calls[q].at = "ok", Completed(q),
           calls[q].op = "change" => ~Joins(q),
           \A l \in List : Kept(l), UNCHANGED lists
    PROVE  \A l \in List : Kept(l)'
<1>1. CallType /\ ViewType /\ q \in Request /\ calls[q] \in Calls
  BY TypeParts, ActiveCalls DEF Active
<1> SUFFICES ASSUME NEW l \in List, l \notin stopped' PROVE Changing(l)' \/ UpToDate(l)'
  BY DEF Kept
<1>2. CASE calls[q].op # "change"
  <2>1. Set(q, Free) /\ stopped' = stopped
    BY <1>2 DEF Completed
  <2>2. /\ Active' = Active \ {q}
        /\ \A s \in Active' : calls'[s] = calls[s]
    BY <1>1, <2>1, SetCall DEF Active
  <2>3. Changing(l) => Changing(l)'
    BY <1>2, <2>2 DEF Changing
  <2>4. Fetches(l)' = Fetches(l) \ {q}
    BY <2>2 DEF Fetches
  <2>5. ASSUME UpToDate(l) PROVE UpToDate(l)'
    <3>1. \A r \in Fetches(l)' : calls'[r].at = "ok" => calls'[r].entry = lists'[l]
      BY <2>2, <2>4, <2>5 DEF UpToDate, Fetches
    <3>2. CASE q \in Fetches(l)
      <4>1. shown'[l] = calls[q].entry /\ calls[q].entry = lists[l]
        BY <1>1, <2>5, <3>2 DEF Completed, Fetches, UpToDate, ViewType
      <4>2. QED BY <3>1, <4>1 DEF UpToDate
    <3>3. CASE q \notin Fetches(l)
      <4>1. shown'[l] = shown[l]
        BY <1>1, <1>2, <3>3 DEF Completed, Fetches, ViewType, Calls
      <4>2. QED BY <2>4, <2>5, <3>1, <3>3, <4>1 DEF UpToDate
    <3>4. QED BY <3>2, <3>3
  <2>6. QED BY <2>1, <2>3, <2>5 DEF Kept
<1>3. CASE calls[q].op = "change"
  <2>1. /\ calls' = Refetch(q) /\ ~Joins(q) /\ shown' = shown
        /\ stopped' = stopped \ {calls[q].list}
    BY <1>3 DEF Completed
  <2>2. /\ calls'[q] = Call("list", calls[q].list, None, FALSE) /\ Active' = Active
        /\ \A s \in Request \ {q} :
              calls'[s] = IF s \in Fetches(calls[q].list)
                          THEN [calls[s] EXCEPT !.dropped = TRUE] ELSE calls[s]
    BY <1>1, <2>1, RefetchCalls
  <2>3. ASSUME NEW s \in Active, s # q, s \in Fetches(calls[q].list)
        PROVE  /\ calls'[s].op = "list" /\ calls'[s].list = calls[q].list
               /\ calls'[s].dropped
    <3>1. calls[s] \in Calls /\ s \in Request
      BY <1>1, ActiveCalls DEF Active
    <3>2. QED BY <2>2, <2>3, <3>1 DEF Calls, Fetches
  <2>4. /\ calls'[q].op = "list" /\ calls'[q].list = calls[q].list /\ ~calls'[q].dropped
        /\ calls'[q].at = "start"
    BY <2>2 DEF Call
  <2>5. CASE l = calls[q].list
    <3>1. Fetches(l)' = {q}
      <4>1. q \in Fetches(l)'
        BY <2>2, <2>4, <2>5 DEF Fetches
      <4>2. ASSUME NEW s \in Fetches(l)', s # q PROVE FALSE
        <5>1. s \in Active /\ s \in Request
          BY <2>2 DEF Fetches, Active
        <5>2. CASE s \in Fetches(l)
          BY <2>3, <2>5, <4>2, <5>1, <5>2 DEF Fetches
        <5>3. CASE s \notin Fetches(l)
          BY <2>2, <2>5, <4>2, <5>1, <5>3 DEF Fetches
        <5>4. QED BY <5>2, <5>3
      <4>3. QED BY <4>1, <4>2
    <3>2. QED BY <2>4, <3>1 DEF UpToDate
  <2>6. CASE l # calls[q].list
    <3>1. ASSUME NEW s \in Request \ {q}, s \notin Fetches(calls[q].list)
          PROVE  calls'[s] = calls[s]
      BY <2>2, <3>1
    <3>2. Changing(l) => Changing(l)'
      BY <2>2, <2>6, <3>1 DEF Changing, Fetches, Active
    <3>3. Fetches(l)' = Fetches(l)
      <4>1. q \notin Fetches(l) /\ q \notin Fetches(l)'
        BY <2>4, <2>6 DEF Fetches
      <4>2. ASSUME NEW s \in Active, s # q PROVE s \in Fetches(l)' <=> s \in Fetches(l)
        <5>1. CASE s \in Fetches(calls[q].list)
          BY <2>3, <2>6, <4>2, <5>1 DEF Fetches
        <5>2. CASE s \notin Fetches(calls[q].list)
          BY <2>2, <3>1, <4>2, <5>2 DEF Fetches, Active
        <5>3. QED BY <5>1, <5>2
      <4>3. QED BY <2>2, <4>1, <4>2 DEF Fetches
    <3>4. \A s \in Fetches(l) : calls'[s] = calls[s]
      BY <1>3, <2>6, <3>1 DEF Fetches, Active
    <3>5. QED BY <2>1, <2>6, <3>2, <3>3, <3>4 DEF UpToDate, Kept
  <2>7. QED BY <2>5, <2>6
<1>4. QED BY <1>2, <1>3

Untroubled == spoiled \cap {"failure", "joined"} = {}

LEMMA FollowedStep == TypeOK /\ Followed /\ [Next]_vars => Followed'
<1> SUFFICES ASSUME TypeOK, Followed, [Next]_vars, Untroubled'
             PROVE  \A l \in List : Kept(l)'
  BY DEF Followed, Untroubled
<1>1. CASE Login \/ Logout \/ Redirect \/ Open \/ UNCHANGED vars
  <2>1. Untroubled /\ UNCHANGED <<lists, calls, shown, stopped>>
    BY <1>1 DEF Login, Logout, Redirect, Open, vars, Untroubled, server, ghosts
  <2>2. QED BY <2>1 DEF Followed, Untroubled, Kept, Changing, UpToDate, Fetches, Active
<1>2. CASE Fetch \/ Change \/ Stop \/ openPairingModal
  <2>1. Untroubled /\ UNCHANGED <<lists, shown>>
    BY <1>2 DEF Fetch, Change, Stop, openPairingModal, Untroubled, server, ghosts
  <2>2. ASSUME NEW l \in List, l \notin stopped' PROVE Changing(l)' \/ UpToDate(l)'
    <3>1. Changing(l) => Changing(l)'
      BY <1>2, UserStarts DEF Changing
    <3>2. Fetches(l) \subseteq Fetches(l)'
      BY <1>2, UserStarts DEF Fetches
    <3>3. \A r \in Fetches(l)' \ Fetches(l) : calls'[r].at = "start"
      BY <1>2, UserStarts DEF Fetches
    <3>4. \A r \in Fetches(l) : calls'[r] = calls[r]
      BY <1>2, UserStarts DEF Fetches
    <3>5. UpToDate(l) => UpToDate(l)'
      BY <2>1, <3>2, <3>3, <3>4 DEF UpToDate
    <3>6. CASE l \notin stopped
      BY <2>1, <3>1, <3>5, <3>6 DEF Followed, Untroubled, Kept
    <3>7. CASE l \in stopped
      <4>1. Fetch /\ Fetches(l) = {}
        BY <1>2, <2>2, <3>7 DEF Fetch, Change, Stop, openPairingModal, ghosts
      <4>2. CallType
        BY TypeParts
      <4>3. PICK r \in Request : Set(r, Call("list", l, None, FALSE))
        BY <2>2, <3>7, <4>1 DEF Fetch
      <4>4. Call("list", l, None, FALSE) \in Calls
        BY NewCall
      <4>5. r \in Fetches(l)'
        BY <4>2, <4>3, <4>4, SetCall DEF Fetches, Call
      <4>6. QED BY <3>3, <4>1, <4>5 DEF UpToDate
    <3>8. QED BY <3>6, <3>7
  <2>3. QED BY <2>2 DEF Kept
<1>3. CASE Unload
  BY <1>3 DEF Unload, UpToDate, Fetches, Active, Kept
<1>4. ASSUME NEW q \in Active, Step(q)
      PROVE  \A l \in List : Kept(l)'
  <2>1. \A l \in List : Kept(l)
    <3>1. spoiled \subseteq spoiled'
      BY <1>4 DEF Step, Send, Serve, Handle, Failed, ServeRefresh, HandleRefresh, ghosts
    <3>2. QED BY <3>1 DEF Followed, Untroubled
  <2>2. CallType /\ ServerType /\ ClientType /\ q \in Request /\ calls[q] \in Calls
    BY TypeParts, ActiveCalls DEF Active
  <2>3. Effect(q) \/ UNCHANGED lists
    BY <1>4 DEF Step, Send, Serve, Handle, ServeRefresh, HandleRefresh, server
  <2>4. /\ \A l \in List : \/ calls[q].op = "change" /\ l = calls[q].list
                          \/ l \in stopped' \/ lists'[l] = lists[l]
        /\ calls[q].op = "list" => lists' = lists
    BY <2>2, <2>3 DEF Effect, ServerType
  <2>5. CASE (\E c \in Calls : GoesOn(q, c)) /\ Quiet
    <3>1. PICK c \in Calls : GoesOn(q, c)
      BY <2>5
    <3>2. c.op = "list" /\ c.at = "ok" => c.entry = lists'[c.list]
      BY <2>4, <3>1 DEF GoesOn
    <3>3. QED BY <2>1, <2>4, <2>5, <3>1, <3>2, CallGoesOn DEF GoesOn, Quiet
  <2>6. CASE calls[q].at = "ok" /\ Completed(q)
    <3>1. calls[q].at # "401" /\ calls[q].at # "failed"
      BY <2>6
    <3>2. UNCHANGED lists /\ (calls[q].op = "change" => ~Joins(q))
      BY <1>4, <2>6, <3>1
         DEF Step, Send, Serve, Handle, ServeRefresh, HandleRefresh, server, Untroubled
    <3>3. QED BY <2>1, <2>6, <3>2, CallCompleted
  <2>7. CASE Failed(q)
    <3>1. PICK c \in Calls :
             /\ Set(q, c) /\ c.at = "start" /\ c.op = "list" /\ ~c.dropped
             /\ c.list = calls[q].list /\ calls[q].op = "list" /\ ~calls[q].dropped
      BY <2>2, <2>7, FailedCalls DEF Untroubled
    <3>2. c.op = calls[q].op /\ c.dropped = calls[q].dropped
      BY <2>2, <3>1 DEF Calls
    <3>3. UNCHANGED <<shown, stopped>>
      BY <2>7 DEF Failed
    <3>4. QED BY <2>1, <2>4, <3>1, <3>2, <3>3, CallGoesOn
  <2>8. QED BY <1>4, <2>2, <2>5, <2>6, <2>7, CallMoves
<1>5. QED BY <1>1, <1>2, <1>3, <1>4 DEF Next, Step

----------------------------------------------------------------------------

LEMMA InvInit == Init => IInv
<1> SUFFICES ASSUME Init PROVE IInv
  OBVIOUS
<1>1. Active = {} /\ page = "/" /\ ~isAuthenticated
  BY DEF Init, Active
<1>2. \A l \in List : UpToDate(l)
  BY <1>1 DEF Init, UpToDate, Fetches
<1>3. QED BY <1>1, <1>2, TypeInit DEF IInv, OneRefresh, SignedOut, Session, Followed, Kept

LEMMA InvStep == IInv /\ [Next]_vars => IInv'
BY TypeStep, OneRefreshStep, SignedOutStep, SessionStep, FollowedStep DEF IInv

LEMMA InvKeepsSession == IInv => KeepsSession
BY DEF IInv, Session, Clean, KeepsSession

LEMMA InvShownIsServer == IInv => ShownIsServer
BY DEF IInv, Followed, Kept, Changing, UpToDate, Fetches, ShownIsServer

\* Every variable of the web client keeps its type, and the tokens never run out.
THEOREM TypeCorrect == Spec => []TypeOK
BY TypeInit, TypeStep, PTL DEF Spec

\* However many calls meet an expired token one after another, whatever fails and
\* however often the access token runs out: who is logged in has a refresh token
\* the server accepts, unless two refreshes overlap, the answer to one is lost, or
\* the user logs out during a call (the response interceptor of api.ts).
THEOREM LoggedInStays == Spec => []KeepsSession
BY InvInit, InvStep, InvKeepsSession, PTL DEF Spec

\* For any number of calls and lists: when the last call is answered and none has
\* failed, the page shows the server's lists, whatever the order of changes and
\* fetches was, unless a change was made before its list was there (the refetches
\* of the pages), or the home page has stopped a session and the list has not
\* been fetched since (dashboard-home.tsx:205).
THEOREM ListsCatchUp == Spec => []ShownIsServer
BY InvInit, InvStep, InvShownIsServer, PTL DEF Spec
=============================================================================
