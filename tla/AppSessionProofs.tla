-------------------------- MODULE AppSessionProofs --------------------------
(***************************************************************************)
(* Proofs about AppSession, for every set of calls, any number of logins   *)
(* and every combination of failures.                                      *)
(***************************************************************************)
EXTENDS AppSession, TLAPS

----------------------------------------------------------------------------
\* The inductive invariant.

\* A user who does not meddle acts, the app starts, and a signed-out app rests,
\* only while no call is under way.
Alone ==
    /\ user # NoUser \/ booting \/ out => Quiet
    /\ booting => user = NoUser /\ session = 0
    /\ out => user = NoUser /\ session = 0 /\ stored = 0

\* A retry belongs to the handler, which does nothing else meanwhile.
Retries ==
    \A r \in Request :
        phase[r] \in {"retrying", "resent"} => job.step = "retry" /\ job.call = r

\* How the two copies of the session relate while one of them is behind.
Copies ==
    /\ user.step \in {"save", "clear"} => session = stored
    /\ user.step = "show" => stored = user.pair
    /\ user.step = "drop" => stored = 0
    /\ user = NoUser /\ ~booting =>
        /\ job.step \notin {"replace", "drop"} => session = stored
        /\ job.step = "replace" => stored = job.got
        /\ job.step = "drop" => stored = 0
        /\ job.step = "refresh" => job.spend = stored

\* The newest pair the app has is one that the backend still refreshes.
Holding ==
    ~excused /\ ~out =>
        /\ job.step \notin {"read", "clear", "drop"}
        /\ job.step \in {"save", "replace"} => job.got \in refresh /\ session # 0
        /\ user.step = "save" => user.pair \in refresh
        /\ user.step \notin {"save", "drop"} /\ job.step # "save" => stored \in refresh

\* What a logout leaves when no refresh was under way: no session, and nothing
\* on its way that could bring one.
Gone ==
    /\ out => user = NoUser
    /\ ~crossed /\ user.step \in LoggingOut => job.step \notin Refreshing
    /\ ~crossed /\ user.step = "drop" => stored = 0
    /\ ~crossed /\ out => /\ session = 0 /\ stored = 0
                         /\ job.step \notin {"refresh", "save", "replace"}

IInv ==
    /\ TypeOK /\ Retries
    /\ ~meddled => Alone /\ Copies /\ Holding

----------------------------------------------------------------------------
\* Type correctness, by parts of the state.

BackendType ==
    /\ issued \in Nat
    /\ access \subseteq 1..issued /\ refresh \subseteq 1..issued
    /\ leaving \in 0..issued

AppType == session \in 0..issued /\ stored \in 0..issued

FlagType == booting \in BOOLEAN /\ {out, crossed, meddled, excused} \subseteq BOOLEAN

UserType == user \in [step : {"none", "save", "show", "clear", "drop"}, pair : 0..issued]

CallType ==
    /\ phase \in [Request -> Phases]
    /\ token \in [Request -> 0..issued]
    /\ attempt \in [Request -> 0..maxRetries]

HandlerType ==
    /\ errors \in Seq(Errors)
    /\ job \in [step : {"free", "read", "refresh", "save", "replace", "retry", "clear",
                        "drop", "stuck"},
                call : Request \cup {"none"}, spend : 0..issued, got : 0..issued]

LEMMA TypeParts ==
    TypeOK <=> /\ BackendType /\ AppType /\ FlagType
               /\ UserType /\ CallType /\ HandlerType
BY DEF TypeOK, BackendType, AppType, FlagType, UserType, CallType, HandlerType

LEMMA TypeInit == Init => TypeOK
<1> SUFFICES ASSUME Init PROVE TypeOK
  OBVIOUS
<1>1. BackendType
  BY DEF Init, BackendType
<1>2. AppType
  BY DEF Init, AppType
<1>3. UserType
  BY DEF Init, UserType, NoUser
<1>4. CallType
  BY SessionAssumption DEF SessionAssumption, Init, CallType, Phases
<1>5. HandlerType
  BY DEF Init, HandlerType, Free
<1>6. FlagType
  BY DEF Init, FlagType
<1>7. QED BY <1>1, <1>2, <1>3, <1>4, <1>5, <1>6, TypeParts

\* Pairs are only ever added.
LEMMA PairsGrow ==
    ASSUME BackendType, [Next]_vars
    PROVE  issued' \in Nat /\ 0..issued \subseteq 0..issued' /\ 1..issued \subseteq 1..issued'
<1>1. issued' \in {issued, issued + 1}
  BY DEF Next, User, Handler, Call, Expire, LogoutArrives, Restore, Kill, Login,
         LoginStored, LoginFails, LoginShown, Logout, LogoutStored, LogoutFails, LogoutShown, Pass, Handle, ReadStored,
         RefreshServed, RefreshFails, Save, Replace, ClearStored, Drop, StorageThrows,
         Send, Resend, Succeed, Fail, backend, vars
<1>2. QED BY <1>1 DEF BackendType

LEMMA BackendTypeStep == TypeOK /\ [Next]_vars => BackendType'
<1> SUFFICES ASSUME BackendType, AppType, [Next]_vars PROVE BackendType'
  BY TypeParts
<1> USE DEF BackendType
<1>1. CASE Expire \/ LogoutArrives
  <2>1. issued' = issued /\ access' \subseteq access /\ refresh' \subseteq refresh
    BY <1>1 DEF Expire, LogoutArrives
  <2>2. leaving' \in {0, leaving}
    BY <1>1 DEF Expire, LogoutArrives
  <2>3. QED BY <2>1, <2>2
<1>2. CASE Login
  BY <1>2, PairsGrow DEF Login
<1>3. CASE RefreshServed
  <2>1. /\ issued' = issued + 1 /\ leaving' = leaving
        /\ access' \subseteq access \cup {issued'} /\ refresh' \subseteq refresh \cup {issued'}
    BY <1>3 DEF RefreshServed
  <2>2. QED BY <2>1, PairsGrow
<1>4. CASE Logout
  BY <1>4 DEF Logout, AppType
<1>5. CASE UNCHANGED backend
  BY <1>5 DEF backend
<1>6. QED
  BY <1>1, <1>2, <1>3, <1>4, <1>5
     DEF Next, User, Handler, Call, Restore, Kill, LoginStored, LoginFails, LoginShown,
         LogoutStored, LogoutFails, LogoutShown, Pass, Handle, ReadStored, RefreshFails, Save,
         Replace, ClearStored, Drop, StorageThrows, Send, Resend, Succeed, Fail, backend, vars

LEMMA AppTypeStep == TypeOK /\ [Next]_vars => AppType'
<1> SUFFICES ASSUME BackendType, AppType, UserType, HandlerType, [Next]_vars PROVE AppType'
  BY TypeParts
<1> USE PairsGrow DEF AppType
<1>1. CASE Save \/ Replace
  BY <1>1 DEF Save, Replace, HandlerType
<1>2. CASE LoginStored \/ LoginShown
  BY <1>2 DEF LoginStored, LoginShown, UserType
<1>3. CASE \/ LogoutStored \/ LogoutShown \/ ClearStored \/ Drop \/ Restore \/ Kill
           \/ UNCHANGED app
  <2>1. session' \in {0, session, stored} /\ stored' \in {0, stored}
    BY <1>3 DEF LogoutStored, LogoutShown, ClearStored, Drop, Restore, Kill, app
  <2>2. QED BY <2>1 DEF BackendType
<1>4. QED
  BY <1>1, <1>2, <1>3
     DEF Next, User, Handler, Call, Expire, LogoutArrives, Login, LoginFails, Logout,
         LogoutFails, Pass, Handle, ReadStored, RefreshServed, RefreshFails, StorageThrows, Send, Resend, Succeed, Fail, vars

LEMMA FlagTypeStep == TypeOK /\ [Next]_vars => FlagType'
<1> SUFFICES ASSUME FlagType, [Next]_vars PROVE FlagType'
  BY TypeParts
<1>1. booting' \in BOOLEAN
  BY DEF FlagType, Next, User, Handler, Call, Expire, LogoutArrives, Restore, Kill, Login,
         LoginStored, LoginFails, LoginShown, Logout, LogoutStored, LogoutFails, LogoutShown,
         Pass, Handle, ReadStored,
         RefreshServed, RefreshFails, Save, Replace, ClearStored, Drop, StorageThrows,
         Send, Resend, Succeed, Fail, app, vars
<1>2. {out', crossed', meddled', excused'} \subseteq BOOLEAN
  <2>1. CASE Login \/ LoginStored \/ LoginFails \/ LoginShown
    <3>1. CASE Login
      <4>1. out' = FALSE /\ crossed' = FALSE /\ excused' = excused
        BY <3>1 DEF Login
      <4>2. meddled' \in BOOLEAN
        BY <3>1 DEF Login, FlagType
      <4>3. QED BY <4>1, <4>2 DEF FlagType
    <3>2. CASE LoginStored \/ LoginFails \/ LoginShown
      BY <3>2 DEF FlagType, LoginStored, LoginFails, LoginShown, ghosts
    <3>3. QED BY <2>1, <3>1, <3>2
  <2>2. CASE Logout \/ LogoutStored \/ LogoutFails \/ LogoutShown
    <3>1. CASE Logout
      <4>1. out' = FALSE /\ crossed' \in BOOLEAN /\ excused' = excused
        BY <3>1 DEF Logout
      <4>2. meddled' \in BOOLEAN
        BY <3>1 DEF Logout, FlagType
      <4>3. QED BY <4>1, <4>2 DEF FlagType
    <3>2. CASE LogoutStored \/ LogoutFails \/ LogoutShown
      BY <3>2 DEF FlagType, LogoutStored, LogoutFails, LogoutShown, ghosts
    <3>3. QED BY <2>2, <3>1, <3>2
  <2>3. CASE Expire \/ LogoutArrives \/ Restore \/ Kill \/ UNCHANGED vars
    BY <2>3 DEF FlagType, Expire, LogoutArrives, Restore, Kill, ghosts, vars
  <2>4. CASE Handler
    BY <2>4 DEF FlagType, Handler, Pass, Handle, ReadStored, RefreshServed, RefreshFails, Save,
                Replace, ClearStored, Drop, StorageThrows, ghosts
  <2>5. ASSUME NEW r \in Request, Call(r)
        PROVE  {out', crossed', meddled', excused'} \subseteq BOOLEAN
    BY <2>5 DEF FlagType, Call, Send, Resend, Succeed, Fail, ghosts
  <2>6. QED BY <2>1, <2>2, <2>3, <2>4, <2>5 DEF Next, User
<1>3. QED BY <1>1, <1>2 DEF FlagType

LEMMA UserTypeStep == TypeOK /\ [Next]_vars => UserType'
<1> SUFFICES ASSUME BackendType, UserType, [Next]_vars PROVE UserType'
  BY TypeParts
<1> USE PairsGrow DEF UserType
<1>1. CASE Login
  BY <1>1 DEF Login, BackendType
<1>2. CASE LoginStored \/ LogoutStored
  BY <1>2 DEF LoginStored, LogoutStored
<1>3. CASE LoginShown \/ LoginFails \/ Logout \/ LogoutFails \/ LogoutShown \/ Kill
  BY <1>3 DEF LoginShown, LoginFails, Logout, LogoutFails, LogoutShown, Kill, NoUser, BackendType
<1>4. CASE UNCHANGED user
  BY <1>4
<1>5. QED
  BY <1>1, <1>2, <1>3, <1>4
     DEF Next, User, Handler, Call, Expire, LogoutArrives, Restore, Pass, Handle, ReadStored,
         RefreshServed, RefreshFails, Save, Replace, ClearStored, Drop, StorageThrows,
         Send, Resend, Succeed, Fail, vars

LEMMA CaughtType ==
    ASSUME BackendType, CallType, [Next]_vars, NEW r, NEW kind, Caught(r, kind)
    PROVE  CallType'
<1>1. phase' \in [Request -> Phases]
  BY DEF Caught, CallType, Phases
<1>2. attempt' \in [Request -> 0..maxRetries]
  BY SessionAssumption DEF Caught, CallType, SessionAssumption
<1>3. token' \in [Request -> 0..issued']
  <2>1. token \in [Request -> 0..issued'] /\ 0 \in 0..issued'
    BY PairsGrow DEF CallType
  <2>2. token' = [token EXCEPT ![r] = 0]
    BY DEF Caught
  <2>3. QED BY <2>1, <2>2
<1>4. QED BY <1>1, <1>2, <1>3 DEF CallType

LEMMA CallTypeStep == TypeOK /\ [Next]_vars => CallType'
<1> SUFFICES ASSUME BackendType, AppType, HandlerType, CallType, [Next]_vars PROVE CallType'
  BY TypeParts
<1>1. token \in [Request -> 0..issued']
  BY PairsGrow DEF CallType
<1>2. CASE Pass \/ Drop
  BY <1>2, CaughtType DEF Pass, Drop
<1>3. CASE Replace
  BY <1>1, <1>3 DEF Replace, CallType, Phases
<1>8. CASE Kill
  BY <1>8, SessionAssumption, PairsGrow DEF Kill, CallType, Phases, SessionAssumption
<1>4. ASSUME NEW r \in Request, Send(r) \/ Resend(r)
      PROVE  CallType'
  BY <1>1, <1>4 DEF Send, Resend, Carried, CallType, AppType, HandlerType, Phases, backend
<1>5. ASSUME NEW r \in Request, Succeed(r) \/ Fail(r)
      PROVE  CallType'
  <2>1. 0 \in 0..issued' /\ 0 \in 0..maxRetries
    BY SessionAssumption, PairsGrow DEF SessionAssumption
  <2>2. CASE Succeed(r)
    <3>1. token' = [token EXCEPT ![r] = 0] /\ attempt' = [attempt EXCEPT ![r] = 0]
      BY <2>2 DEF Succeed
    <3>2. token' \in [Request -> 0..issued'] /\ attempt' \in [Request -> 0..maxRetries]
      BY <1>1, <2>1, <3>1 DEF CallType
    <3>3. phase' \in [Request -> Phases]
      BY <2>2 DEF Succeed, CallType, Phases
    <3>4. QED BY <3>2, <3>3 DEF CallType
  <2>3. CASE Fail(r)
    BY <1>1, <2>3 DEF Fail, CallType, Phases
  <2>4. QED BY <1>5, <2>2, <2>3
<1>6. CASE UNCHANGED calls
  BY <1>1, <1>6 DEF calls, CallType
<1>7. QED
  BY <1>2, <1>3, <1>4, <1>5, <1>6, <1>8
     DEF Next, User, Handler, Call, Expire, LogoutArrives, Restore, Login, LoginStored,
         LoginFails, LoginShown, Logout, LogoutStored, LogoutFails, LogoutShown, Handle,
         ReadStored, RefreshServed, RefreshFails, Save, ClearStored, StorageThrows, vars

LEMMA HandlerTypeStep == TypeOK /\ [Next]_vars => HandlerType'
<1> SUFFICES ASSUME BackendType, AppType, HandlerType, CallType, [Next]_vars PROVE HandlerType'
  BY TypeParts
<1> USE PairsGrow
<1>1. ASSUME errors # << >>
      PROVE  Head(errors) \in Errors /\ Tail(errors) \in Seq(Errors)
  BY <1>1 DEF HandlerType
<1>2. CASE Pass
  BY <1>1, <1>2 DEF Pass, HandlerType
<1>3. CASE Handle
  <2>1. Head(errors).call \in Request
    BY <1>1, <1>3 DEF Handle, Errors
  <2>2. QED
    BY <1>1, <1>3, <2>1 DEF Handle, Working, PairToSpend, HandlerType, AppType, BackendType
<1>4. CASE ReadStored \/ RefreshServed \/ RefreshFails
  BY <1>4 DEF ReadStored, RefreshServed, RefreshFails, Working, HandlerType, AppType,
              BackendType
<1>5. CASE Save \/ Replace \/ ClearStored \/ StorageThrows
  BY <1>5 DEF Save, Replace, ClearStored, StorageThrows, Working, HandlerType, BackendType
<1>6. CASE Drop \/ Kill
  <2>1. job' = Free /\ errors' \in {errors, << >>}
    BY <1>6 DEF Drop, Kill
  <2>2. errors' \in Seq(Errors)
    <3>1. CASE errors' = errors
      BY <3>1 DEF HandlerType
    <3>2. CASE errors' = << >>
      BY <3>2
    <3>3. QED BY <2>1, <3>1, <3>2
  <2>3. QED BY <2>1, <2>2 DEF Free, HandlerType, BackendType
<1>7. ASSUME NEW r \in Request, Succeed(r)
      PROVE  HandlerType'
  BY <1>7 DEF Succeed, Free, HandlerType, BackendType
<1>8. ASSUME NEW r \in Request, Fail(r)
      PROVE  HandlerType'
  BY <1>8 DEF Fail, Errors, HandlerType
<1>9. CASE UNCHANGED <<errors, job>>
  BY <1>9 DEF HandlerType
<1>10. QED
  BY <1>2, <1>3, <1>4, <1>5, <1>6, <1>7, <1>8, <1>9
     DEF Next, User, Handler, Call, Expire, LogoutArrives, Restore, Login, LoginStored,
         LoginFails, LoginShown, Logout, LogoutStored, LogoutFails, LogoutShown, Send, Resend,
         vars

LEMMA TypeStep == TypeOK /\ [Next]_vars => TypeOK'
<1>1. TypeOK' <=> /\ BackendType' /\ AppType' /\ FlagType'
                  /\ UserType' /\ CallType' /\ HandlerType'
  BY DEF TypeOK, BackendType, AppType, FlagType, UserType, CallType, HandlerType
<1>2. QED
  BY <1>1, BackendTypeStep, AppTypeStep, FlagTypeStep, UserTypeStep, CallTypeStep,
     HandlerTypeStep

----------------------------------------------------------------------------
\* The rest of the invariant.

LEMMA InvInit == Init => IInv /\ Gone
BY TypeInit DEF Init, IInv, Alone, Retries, Copies, Holding, Gone, Quiet, Idle, NoUser, Free,
               LoggingOut

\* What goes on while the app is not quiet goes on in a signed-in app that the
\* user leaves alone.
LEMMA SignedIn ==
    ASSUME Alone, ~Quiet
    PROVE  user = NoUser /\ ~booting /\ ~out
BY DEF Alone

LEMMA HandlerBusy == Handler => ~Quiet /\ UNCHANGED <<user, booting, out, meddled>>
BY DEF Handler, Pass, Handle, ReadStored, RefreshServed, RefreshFails, Save, Replace,
       ClearStored, Drop, StorageThrows, Quiet, Idle, Free, app, ghosts

LEMMA CallsBusy ==
    ASSUME NEW r \in Request, Resend(r) \/ Succeed(r) \/ Fail(r)
    PROVE  ~Quiet /\ UNCHANGED <<backend, app, user, ghosts>>
BY DEF Resend, Succeed, Fail, Quiet, Ended

\* Meddling is not forgotten.
LEMMA MeddledStays == TypeOK /\ [Next]_vars /\ ~meddled' => ~meddled
<1> SUFFICES ASSUME FlagType, [Next]_vars, ~meddled' PROVE ~meddled
  BY TypeParts
<1>1. CASE Handler
  BY <1>1, HandlerBusy
<1>2. ASSUME NEW r \in Request, Call(r) PROVE ~meddled
  BY <1>2 DEF Call, Send, Resend, Succeed, Fail, ghosts
<1>3. CASE User
  BY <1>3 DEF User, Login, LoginStored, LoginFails, LoginShown, Logout, LogoutStored,
             LogoutFails, LogoutShown, ghosts
<1>4. CASE Expire \/ LogoutArrives \/ Restore \/ Kill \/ UNCHANGED vars
  BY <1>4 DEF Expire, LogoutArrives, Restore, Kill, ghosts, vars
<1>5. QED BY <1>1, <1>2, <1>3, <1>4 DEF Next

\* A user who does not meddle acts while no error is handled.
LEMMA UserAlone ==
    ASSUME ~meddled', Alone, User
    PROVE  job = Free /\ job' = Free
<1>1. CASE Login \/ Logout
  BY <1>1 DEF Login, Logout, Quiet, Idle
<1>2. CASE LoginStored \/ LoginFails \/ LoginShown \/ LogoutStored \/ LogoutFails \/ LogoutShown
  <2>1. user # NoUser /\ job' = job
    BY <1>2 DEF LoginStored, LoginFails, LoginShown, LogoutStored, LogoutFails, LogoutShown,
                NoUser
  <2>2. QED BY <2>1 DEF Alone, Quiet, Idle
<1>3. QED BY <1>1, <1>2 DEF User

LEMMA UserQuiet ==
    ASSUME Alone, Quiet, UNCHANGED <<calls, errors, job>>
    PROVE  Quiet'
BY DEF calls, Quiet, Idle

LEMMA AloneStep == IInv /\ [Next]_vars /\ ~meddled' => Alone'
<1> SUFFICES ASSUME IInv, [Next]_vars, ~meddled' PROVE Alone'
  OBVIOUS
<1>0. TypeOK /\ Alone /\ Copies
  BY MeddledStays DEF IInv
<1>1. CASE Handler
  BY <1>0, <1>1, HandlerBusy, SignedIn DEF Alone
<1>2. ASSUME NEW r \in Request, Resend(r) \/ Succeed(r) \/ Fail(r)
      PROVE  Alone'
  BY <1>0, <1>2, CallsBusy, SignedIn DEF Alone, app, ghosts
<1>3. ASSUME NEW r \in Request, Send(r)
      PROVE  Alone'
  <2>1. user = NoUser /\ ~booting /\ ~out
    <3>1. CASE phase[r] = "delay"
      BY <1>0, <3>1, SignedIn DEF Quiet, Ended
    <3>2. CASE phase[r] # "delay"
      BY <1>0, <1>3, <3>2 DEF Send, Alone
    <3>3. QED BY <3>1, <3>2
  <2>2. QED BY <1>3, <2>1 DEF Send, app, Alone
<1>4. CASE Login \/ Logout
  <2>1. Quiet /\ ~booting /\ ~out' /\ booting' = booting
    BY <1>0, <1>4 DEF Login, Logout, MayAct, Alone, app
  <2>2. Quiet'
    BY <1>0, <1>4, <2>1, UserQuiet DEF Login, Logout
  <2>3. QED BY <2>1, <2>2 DEF Alone
<1>5. CASE LoginStored \/ LoginFails \/ LoginShown \/ LogoutStored \/ LogoutFails \/ LogoutShown
  <2>1. user # NoUser /\ UNCHANGED <<booting, calls, errors, job>>
    BY <1>5 DEF LoginStored, LoginFails, LoginShown, LogoutStored, LogoutFails, LogoutShown,
                NoUser, app
  <2>2. Quiet' /\ ~booting' /\ ~out
    BY <1>0, <2>1, UserQuiet DEF Alone
  <2>3. CASE LogoutShown
    BY <1>0, <2>2, <2>3 DEF LogoutShown, Copies, Alone
  <2>4. CASE ~LogoutShown
    <3>1. out' = out
      BY <1>5, <2>4 DEF LoginStored, LoginFails, LoginShown, LogoutStored, LogoutFails, ghosts
    <3>2. QED BY <2>2, <3>1 DEF Alone
  <2>5. QED BY <2>3, <2>4
<1>6. CASE Restore
  <2>1. Quiet' /\ ~booting' /\ user' = NoUser
    BY <1>0, <1>6, UserQuiet DEF Restore, Alone
  <2>2. QED BY <1>0, <1>6, <2>1 DEF Restore, Alone, ghosts
<1>7. CASE Kill
  <2>1. Quiet'
    BY <1>0, <1>7 DEF TypeOK, Kill, Quiet, Idle, Ended
  <2>2. user' = NoUser /\ session' = 0
    BY <1>7 DEF Kill
  <2>3. out' => stored' = 0
    BY <1>0, <1>7 DEF Kill, Alone, Copies
  <2>4. QED BY <2>1, <2>2, <2>3 DEF Alone
<1>8. CASE Expire \/ LogoutArrives \/ UNCHANGED vars
  <2>1. UNCHANGED <<app, user, calls, errors, job, out>>
    BY <1>8 DEF Expire, LogoutArrives, vars, ghosts
  <2>2. QED BY <1>0, <2>1 DEF Alone, Quiet, Idle, app, calls
<1>9. QED
  BY <1>1, <1>2, <1>3, <1>4, <1>5, <1>6, <1>7, <1>8 DEF Next, User, Call

LEMMA RetriesStep == IInv /\ [Next]_vars => Retries'
<1> SUFFICES ASSUME IInv, [Next]_vars PROVE Retries'
  OBVIOUS
<1>0. Retries /\ CallType /\ HandlerType
  BY TypeParts DEF IInv
<1> USE DEF Retries
<1>1. CASE Pass \/ Drop
  <2>1. PICK r, kind : Caught(r, kind)
    BY <1>1 DEF Pass, Drop
  <2>2. \A q \in Request :
            phase'[q] \in {"retrying", "resent"} => phase[q] \in {"retrying", "resent"}
    BY <1>0, <2>1 DEF Caught, CallType
  <2>3. job.step # "retry"
    BY <1>1 DEF Pass, Drop, Free
  <2>4. QED BY <1>0, <2>2, <2>3
<1>2. CASE \/ Handle \/ ReadStored \/ RefreshServed \/ RefreshFails
           \/ Save \/ ClearStored \/ StorageThrows
  BY <1>0, <1>2 DEF Handle, ReadStored, RefreshServed, RefreshFails, Save, ClearStored,
                    StorageThrows, calls, Free
<1>3. CASE Replace
  BY <1>0, <1>3 DEF Replace, CallType, HandlerType
<1>4. CASE Kill
  BY <1>0, <1>4 DEF Kill, CallType
<1>5. ASSUME NEW r \in Request, Call(r)
      PROVE  Retries'
  BY <1>0, <1>5 DEF Call, Send, Resend, Succeed, Fail, CallType
<1>6. CASE UNCHANGED <<calls, job>>
  BY <1>0, <1>6 DEF calls
<1>7. QED
  BY <1>1, <1>2, <1>3, <1>4, <1>5, <1>6
     DEF Next, User, Handler, Expire, LogoutArrives, Restore, Login, LoginStored, LoginFails,
         LoginShown, Logout, LogoutStored, LogoutFails, LogoutShown, vars

LEMMA CopiesStep == IInv /\ [Next]_vars /\ ~meddled' => Copies'
<1> SUFFICES ASSUME IInv, [Next]_vars, ~meddled' PROVE Copies'
  OBVIOUS
<1>0. Alone /\ Retries /\ Copies /\ UserType /\ HandlerType
  BY TypeParts, MeddledStays DEF IInv
<1> USE DEF Copies
<1>1. CASE Handler
  <2>1. user = NoUser /\ ~booting /\ user' = NoUser /\ ~booting'
    BY <1>0, <1>1, HandlerBusy, SignedIn
  <2>2. CASE Pass \/ Handle \/ ReadStored
    BY <1>0, <2>1, <2>2 DEF Pass, Handle, ReadStored, Working, PairToSpend, app, Free, NoUser
  <2>3. CASE RefreshServed \/ RefreshFails
    BY <1>0, <2>1, <2>3 DEF RefreshServed, RefreshFails, Working, app, NoUser
  <2>4. CASE Save \/ Replace \/ ClearStored \/ Drop \/ StorageThrows
    BY <1>0, <2>1, <2>4 DEF Save, Replace, ClearStored, Drop, StorageThrows, Working, app,
                            HandlerType, Free, NoUser
  <2>5. QED BY <1>1, <2>2, <2>3, <2>4 DEF Handler
<1>2. ASSUME NEW r \in Request, Call(r)
      PROVE  Copies'
  <2>1. UNCHANGED <<app, user>>
    BY <1>2 DEF Call, Send, Resend, Succeed, Fail
  <2>2. CASE UNCHANGED job
    BY <1>0, <2>1, <2>2 DEF app
  <2>3. CASE Succeed(r) /\ phase[r] = "resent"
    <3>1. user = NoUser /\ ~booting /\ job.step = "retry"
      BY <1>0, <2>3, CallsBusy, SignedIn DEF Retries
    <3>2. session = stored /\ job' = Free
      BY <1>0, <2>3, <3>1 DEF Succeed
    <3>3. QED BY <2>1, <3>1, <3>2 DEF app, Free, NoUser
  <2>4. QED BY <1>2, <2>2, <2>3 DEF Call, Send, Resend, Succeed, Fail
<1>3. CASE User
  <2>1. job = Free /\ job' = Free
    BY <1>0, <1>3, UserAlone
  <2>2. CASE Login \/ Logout
    BY <1>0, <2>1, <2>2 DEF Login, Logout, MayAct, Free, app, NoUser
  <2>3. CASE LoginStored \/ LogoutStored
    BY <1>0, <2>3 DEF LoginStored, LogoutStored, UserType, NoUser
  <2>6. CASE LoginFails \/ LogoutFails
    BY <1>0, <2>1, <2>6 DEF LoginFails, LogoutFails, app, NoUser, Free
  <2>4. CASE LoginShown \/ LogoutShown
    BY <1>0, <2>1, <2>4 DEF LoginShown, LogoutShown, NoUser, Free
  <2>5. QED BY <1>3, <2>2, <2>3, <2>4, <2>6 DEF User
<1>4. CASE Restore
  BY <1>0, <1>4 DEF Restore, Alone, Quiet, Idle, Free, NoUser
<1>5. CASE Kill
  BY <1>5 DEF Kill, NoUser
<1>6. CASE Expire \/ LogoutArrives \/ UNCHANGED vars
  BY <1>0, <1>6 DEF Expire, LogoutArrives, vars, app
<1>7. QED
  BY <1>1, <1>2, <1>3, <1>4, <1>5, <1>6 DEF Next

LEMMA HoldingStep == IInv /\ [Next]_vars /\ ~meddled' => Holding'
<1> SUFFICES ASSUME IInv, [Next]_vars, ~meddled', ~excused', ~out' PROVE Holding'
  BY DEF Holding
<1>0. /\ Alone /\ Copies /\ Holding
      /\ BackendType /\ AppType /\ UserType /\ HandlerType
  BY TypeParts, MeddledStays DEF IInv
<1> USE DEF Holding
<1>1. CASE Handler
  <2>1. /\ user = NoUser /\ ~booting /\ user' = NoUser /\ ~booting' /\ ~out
        /\ user.step = "none" /\ user'.step = "none"
    BY <1>0, <1>1, HandlerBusy, SignedIn DEF NoUser
  <2>2. ~excused
    BY <1>1 DEF Handler, Pass, Handle, ReadStored, RefreshServed, RefreshFails, Save, Replace,
                ClearStored, Drop, StorageThrows, ghosts
  <2>3. job.step # "save" => stored \in refresh
    BY <1>0, <2>1, <2>2
  <2>4. CASE Pass \/ Handle
    <3>1. job = Free /\ UNCHANGED <<backend, app>>
      BY <2>4 DEF Pass, Handle
    <3>2. session = stored /\ stored \in refresh /\ session # 0
      BY <1>0, <2>1, <2>3, <3>1 DEF Copies, Free, BackendType
    <3>3. job' = job \/ job'.step = "refresh"
      BY <2>4, <3>2 DEF Pass, Handle, Working
    <3>4. QED BY <2>1, <3>1, <3>2, <3>3 DEF Free, backend, app
  <2>5. CASE ReadStored \/ ClearStored \/ Drop \/ StorageThrows
    BY <1>0, <2>1, <2>2, <2>5 DEF ReadStored, ClearStored, Drop, StorageThrows
  <2>6. CASE RefreshServed
    <3>1. job'.step = "save" /\ job'.got = issued + 1 /\ issued + 1 \in refresh'
      BY <2>6 DEF RefreshServed, Working
    <3>2. session = job.spend /\ job.spend \in refresh /\ session' = session
      BY <1>0, <2>1, <2>6 DEF RefreshServed, Copies, app
    <3>3. QED BY <1>0, <2>1, <3>1, <3>2 DEF BackendType
  <2>7. CASE RefreshFails
    <3>1. job.spend \notin refresh /\ job.step = "refresh"
      BY <2>7 DEF RefreshFails
    <3>2. job.spend = stored
      BY <1>0, <2>1, <3>1 DEF Copies
    <3>3. QED BY <2>3, <3>1, <3>2
  <2>8. CASE Save
    BY <1>0, <2>1, <2>2, <2>8 DEF Save, HandlerType, backend
  <2>9. CASE Replace
    BY <1>0, <2>1, <2>2, <2>9 DEF Replace, HandlerType, backend
  <2>10. QED BY <1>1, <2>4, <2>5, <2>6, <2>7, <2>8, <2>9 DEF Handler
<1>2. ASSUME NEW r \in Request, Call(r)
      PROVE  Holding'
  <2>1. UNCHANGED <<backend, app, user, out, excused>> /\ job' \in {job, Free}
    BY <1>2 DEF Call, Send, Resend, Succeed, Fail, ghosts
  <2>2. job' = job \/ job.step = "retry"
    BY <1>0, <1>2 DEF Call, Send, Resend, Succeed, Fail, IInv, Retries
  <2>3. QED BY <1>0, <2>1, <2>2 DEF backend, app, Free
<1>3. CASE User
  <2>1. job = Free /\ job' = Free
    BY <1>0, <1>3, UserAlone
  <2>2. CASE Login
    <3>1. user' = [step |-> "save", pair |-> issued + 1] /\ issued + 1 \in refresh'
      BY <2>2 DEF Login
    <3>2. QED BY <2>1, <3>1 DEF Free
  <2>3. CASE LoginStored
    <3>1. user.step = "save" /\ stored' = user.pair /\ UNCHANGED <<refresh, excused, out>>
      BY <2>3 DEF LoginStored, backend, ghosts
    <3>2. QED BY <1>0, <2>1, <2>3, <3>1 DEF LoginStored, UserType, Free
  <2>4. CASE LoginShown
    BY <1>0, <2>1, <2>4 DEF LoginShown, backend, ghosts, NoUser, Free
  <2>5. CASE Logout
    <3>1. user = NoUser /\ session # 0 /\ UNCHANGED <<refresh, stored, excused>>
      BY <2>5 DEF Logout, MayAct, app
    <3>3. ~out
      BY <1>0, <3>1 DEF Alone
    <3>2. QED BY <1>0, <2>1, <2>5, <3>1, <3>3 DEF Logout, NoUser, Free
  <2>6. CASE LogoutStored
    BY <1>0, <2>1, <2>6 DEF LogoutStored, UserType, Free
  <2>7. CASE LogoutShown \/ LoginFails
    BY <2>7 DEF LogoutShown, LoginFails
  <2>9. CASE LogoutFails
    BY <1>0, <2>1, <2>9 DEF LogoutFails, backend, app, ghosts, NoUser, Free
  <2>8. QED BY <1>3, <2>2, <2>3, <2>4, <2>5, <2>6, <2>7, <2>9 DEF User
<1>4. CASE Restore
  BY <1>0, <1>4 DEF Restore, Alone, Quiet, Idle, Free, NoUser, backend, ghosts
<1>5. CASE Kill
  <2>1. /\ ~excused /\ ~out /\ user.step \notin {"save", "drop"} /\ job.step # "save"
        /\ job' = Free /\ user' = NoUser /\ UNCHANGED <<refresh, stored>>
    BY <1>5 DEF Kill, backend
  <2>2. QED BY <1>0, <2>1 DEF Free, NoUser
<1>6. CASE LogoutArrives
  <2>1. UNCHANGED <<refresh, excused, out, app, user, job>>
    BY <1>6 DEF LogoutArrives
  <2>2. QED BY <1>0, <2>1 DEF app
<1>7. CASE Expire \/ UNCHANGED vars
  BY <1>0, <1>7 DEF Expire, vars, backend, app, ghosts
<1>8. QED
  BY <1>1, <1>2, <1>3, <1>4, <1>5, <1>6, <1>7 DEF Next

LEMMA InvStep == IInv /\ [Next]_vars => IInv'
BY TypeStep, AloneStep, RetriesStep, CopiesStep, HoldingStep DEF IInv

LEMMA InvKeepsSession == IInv => KeepsSession
<1> SUFFICES ASSUME IInv, ~excused, ~meddled, ~out, ~booting, user = NoUser PROVE session # 0
  BY DEF KeepsSession
<1>1. user.step = "none"
  BY DEF NoUser
<1>2. CASE job.step \in {"save", "replace"}
  BY <1>2 DEF IInv, Holding
<1>3. CASE job.step \notin {"save", "replace"}
  <2>1. session = stored /\ stored \in refresh
    BY <1>1, <1>3 DEF IInv, Holding, Copies
  <2>2. QED BY <2>1, TypeParts DEF IInv, BackendType
<1>4. QED BY <1>2, <1>3

LEMMA InvStorageFollows == IInv => StorageFollows
BY DEF IInv, Copies, StorageFollows, Quiet, Idle, Free

----------------------------------------------------------------------------
\* What a logout leaves, whatever calls are under way.

LEMMA GoneStep == TypeOK /\ Gone /\ [Next]_vars => Gone'
<1> SUFFICES ASSUME TypeOK, Gone, [Next]_vars PROVE Gone'
  OBVIOUS
<1>0. UserType /\ HandlerType /\ FlagType
  BY TypeParts
<1> USE DEF Gone, LoggingOut, Refreshing
<1>1. CASE Pass \/ RefreshServed \/ RefreshFails
  <2>1. UNCHANGED <<app, user, out, crossed>>
    BY <1>1 DEF Pass, RefreshServed, RefreshFails, ghosts
  <2>2. job'.step \in Refreshing => job.step = "refresh"
        \/ job' = job
    BY <1>1 DEF Pass, RefreshServed, RefreshFails, Working
  <2>3. job.step = "refresh" \/ job' = job
    BY <1>1 DEF Pass, RefreshServed, RefreshFails
  <2>4. QED BY <2>1, <2>2, <2>3 DEF app
<1>2. CASE Handle
  <2>1. UNCHANGED <<app, user, out>>
    BY <1>2 DEF Handle
  <2>2. session = 0 => job'.step = "read"
    BY <1>2 DEF Handle, Working
  <2>3. crossed' = (crossed \/ user.step \in LoggingOut)
    BY <1>2 DEF Handle
  <2>4. QED BY <1>0, <2>1, <2>2, <2>3 DEF app, FlagType
<1>3. CASE ReadStored
  BY <1>3 DEF ReadStored, Working, app, ghosts
<1>4. CASE Save \/ Replace
  BY <1>0, <1>4 DEF Save, Replace, ghosts, NoUser, HandlerType
<1>5. CASE ClearStored \/ Drop \/ StorageThrows
  BY <1>0, <1>5 DEF ClearStored, Drop, StorageThrows, Working, Free, HandlerType, app, ghosts
<1>6. ASSUME NEW r \in Request, Call(r) PROVE Gone'
  BY <1>6 DEF Call, Send, Resend, Succeed, Fail, Free, app, ghosts
<1>7. CASE Login \/ LoginStored \/ LoginFails \/ LoginShown
  BY <1>0, <1>7 DEF Login, LoginStored, LoginFails, LoginShown, NoUser, UserType, app, ghosts
<1>8. CASE Logout
  <2>1. /\ ~out' /\ user'.step = "clear" /\ job' = job
        /\ ~crossed' => job.step \notin Refreshing
    BY <1>8 DEF Logout
  <2>2. QED BY <2>1
<1>12. CASE LogoutStored \/ LogoutFails
  BY <1>0, <1>12 DEF LogoutStored, LogoutFails, NoUser, UserType, app, ghosts
<1>13. CASE LogoutShown
  BY <1>0, <1>13 DEF LogoutShown, NoUser, UserType
<1>9. CASE Restore
  BY <1>0, <1>9 DEF Restore, NoUser, ghosts
<1>14. CASE Kill
  <2>1. /\ user' = NoUser /\ session' = 0 /\ job' = Free /\ UNCHANGED <<stored, crossed>>
        /\ out' => out \/ user.step = "drop"
    BY <1>14 DEF Kill
  <2>2. QED BY <2>1 DEF NoUser, Free
<1>10. CASE Expire \/ LogoutArrives \/ UNCHANGED vars
  BY <1>10 DEF Expire, LogoutArrives, vars, app, ghosts
<1>11. QED
  BY <1>1, <1>2, <1>3, <1>4, <1>5, <1>6, <1>7, <1>8, <1>9, <1>10, <1>12,
     <1>13, <1>14 DEF Next, User, Handler

----------------------------------------------------------------------------
\* Every variable of the session keeps its type, whatever the user does and
\* while calls are in flight, too.
THEOREM TypeCorrect == Spec => []TypeOK
BY TypeInit, TypeStep, PTL DEF Spec

\* However many calls meet an expired token, in any order and under any
\* failures, the app of a user who acts between calls is only ever signed out by
\* the user, unless a refresh failed on the way or could not be stored, or the app
\* was ended before the new pair was (onError).
THEOREM NeverSignedOut == Spec => []KeepsSession
BY InvInit, InvStep, InvKeepsSession, PTL DEF Spec

\* Between calls a restart finds the session the app shows, as long as the user
\* acts between calls only (replaceSession, clearSession, _restoreSession).
THEOREM CopiesAgree == Spec => []StorageFollows
BY InvInit, InvStep, InvStorageFollows, PTL DEF Spec

\* A logout at any time, with calls in flight, waiting or queued, is final: no
\* session in memory or in storage until the next login, unless a refresh was
\* under way during it (logout of auth_controller.dart).
THEOREM LogoutStays == Spec => []LogoutIsFinal
<1>1. Gone => LogoutIsFinal
  BY DEF Gone, LogoutIsFinal
<1>2. QED BY <1>1, InvInit, GoneStep, TypeInit, TypeStep, PTL DEF Spec
=============================================================================
