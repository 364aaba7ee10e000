--------------------------- MODULE AdminLogin_proof ---------------------------
(***************************************************************************)
(* One-time codes are one-time, administrators get in with them only, and  *)
(* the guesses of an address are bounded, for every number of requests,    *)
(* addresses, sessions and secrets.                                        *)
(***************************************************************************)
EXTENDS AdminLogin, FiniteSetTheorems, TLAPS

\* The clock is at most one step behind the latest time it has shown.
ClockInv == clock \in Int /\ high \in Int /\ clock <= high /\ high <= clock + 1

\* What was accepted is remembered, or too old by every clock to come.
CodesInv ==
    /\ proofs \subseteq Codes /\ used \subseteq Int
    /\ \A c \in proofs : c.step \in used \/ c.step < high - 2
    /\ ~reused

SessionsInv == sessions \in [Sessions -> [role : {"admin", "user"}, exp : Int] \cup {None}]

LoginInv == ClockInv /\ CodesInv /\ SessionsInv

\* A code that totp_verify accepts was accepted by nobody before.
LEMMA AcceptedIsFresh ==
    ASSUME ClockInv, CodesInv, NEW secret, NEW code \in Codes, Verifies(secret, code)
    PROVE  code \notin proofs
BY DEF ClockInv, CodesInv, Codes, Verifies

\* totp_verify keeps what the later ones rely on: it forgets only steps that no
\* clock to come tolerates.
LEMMA AcceptKeeps ==
    ASSUME ClockInv, CodesInv, UNCHANGED timeVars,
           NEW secret, NEW code \in Codes, Verifies(secret, code), Accept(code)
    PROVE  CodesInv' /\ code \in proofs' \ proofs
<1>1. code \notin proofs  BY AcceptedIsFresh
<1>2. code.step \in Int  BY DEF Codes
<1>3. used' \subseteq Int  BY <1>2 DEF Accept, CodesInv
<1>4. proofs' \subseteq Codes /\ code \in proofs'  BY DEF Accept, CodesInv
<1>5. ~reused'  BY <1>1 DEF Accept, CodesInv
<1>6. ASSUME NEW c \in proofs' PROVE c.step \in used' \/ c.step < high' - 2
  <2>1. CASE c = code  BY <2>1 DEF Accept
  <2>2. CASE c # code
    <3>1. c \in proofs /\ c.step \in Int  BY <2>2 DEF Accept, CodesInv, Codes
    <3>2. c.step \in used \/ c.step < high - 2  BY <3>1 DEF CodesInv
    <3> QED  BY <3>1, <3>2 DEF Accept, Forgotten, ClockInv, timeVars
  <2> QED  BY <2>1, <2>2
<1> QED  BY <1>1, <1>3, <1>4, <1>5, <1>6 DEF CodesInv

\* Nothing has happened yet.
LEMMA InitOK == Init => LoginInv
BY DEF Init, LoginInv, ClockInv, CodesInv, SessionsInv

\* A new session is well formed and has the role it was asked for.
LEMMA SessionStarts ==
    ASSUME ClockInv, SessionsInv, NEW role \in {"admin", "user"}, StartSession(role)
    PROVE  /\ SessionsInv'
           /\ \A s \in Sessions : BeginsAsAdmin(s) => role = "admin"
BY LoginAssumption DEF ClockInv, SessionsInv, StartSession, BeginsAsAdmin

\* A login with a password is under way only if there is an account.
AccountInv ==
    /\ account \in Accounts
    /\ \A r \in Requests : ~Idle(r) /\ handler[r].kind = "admin" => account = "full"

\* What a step may do, as far as codes and administrators are concerned.
Proven ==
    /\ \A s \in Sessions : BeginsAsAdmin(s) =>
        \/ account = "none"
        \/ /\ \E r \in Requests : ~Idle(r) /\ handler[r].kind = "admin"
           /\ secrets.active # 0 => Shown(secrets.active)
    /\ secrets'.active \notin {0, secrets.active} => Shown(secrets'.active)

\* A step that touches neither clock, codes, sessions nor the secret in force.
LEMMA Aside ==
    ASSUME LoginInv, UNCHANGED <<timeVars, codeVars, sessions>>, secrets'.active = secrets.active
    PROVE  LoginInv' /\ Proven
BY DEF LoginInv, ClockInv, CodesInv, SessionsInv, timeVars, codeVars, Proven, BeginsAsAdmin

\* api_admin_login: the code is one of the secret in force at that moment.
LEMMA AdminLoggedInOK ==
    ASSUME LoginInv, NEW r \in Requests, NEW code \in Codes, AdminLoggedIn(r, code)
    PROVE  LoginInv' /\ Proven
<1>1. /\ UNCHANGED <<timeVars, secrets>> /\ StartSession("admin")
      /\ \E q \in Requests : ~Idle(q) /\ handler[q].kind = "admin"
  BY DEF AdminLoggedIn
<1>2. ClockInv' /\ SessionsInv'
  BY <1>1, SessionStarts DEF LoginInv, ClockInv, timeVars
<1>3. CASE secrets.active = 0
  <2>1. UNCHANGED codeVars  BY <1>3 DEF AdminLoggedIn, Needed
  <2>2. CodesInv'  BY <1>1, <2>1 DEF LoginInv, CodesInv, codeVars, timeVars
  <2> QED  BY <1>1, <1>2, <1>3, <2>2 DEF LoginInv, Proven
<1>4. CASE secrets.active # 0
  <2>1. Verifies(secrets.active, code) /\ Accept(code)  BY <1>4 DEF AdminLoggedIn, Needed
  <2>2. CodesInv' /\ code \in proofs' \ proofs
    BY <1>1, <2>1, AcceptKeeps DEF LoginInv
  <2>3. Shown(secrets.active)  BY <2>1, <2>2 DEF Shown, Verifies
  <2> QED  BY <1>1, <1>2, <2>2, <2>3 DEF LoginInv, Proven
<1> QED  BY <1>3, <1>4

\* api_login makes an administrator only when the account has no address.
LEMMA KeyLoggedInOK ==
    ASSUME LoginInv, NEW r \in Requests, KeyLoggedIn(r)
    PROVE  LoginInv' /\ Proven
<1>1. UNCHANGED <<timeVars, codeVars, secrets>>  BY DEF KeyLoggedIn
<1>2. SessionsInv' /\ \A s \in Sessions : BeginsAsAdmin(s) => account = "none"
  <2>1. PICK role \in KeyRoles : StartSession(role)  BY DEF KeyLoggedIn
  <2>2. role \in {"admin", "user"} /\ (role = "admin" => account = "none")  BY DEF KeyRoles
  <2> QED  BY <2>1, <2>2, SessionStarts DEF LoginInv
<1>3. ClockInv' /\ CodesInv'
  BY <1>1 DEF LoginInv, ClockInv, CodesInv, timeVars, codeVars
<1> QED  BY <1>1, <1>2, <1>3 DEF LoginInv, Proven

\* api_2fa_confirm: the code is one of the secret that comes into force.
LEMMA ConfirmOK ==
    ASSUME LoginInv, NEW r \in Requests, NEW code \in Codes, Confirm(r, code)
    PROVE  LoginInv' /\ Proven
<1>1. UNCHANGED <<timeVars, sessions>> /\ Verifies(secrets.pending, code) /\ Accept(code)
  BY DEF Confirm
<1>2. CodesInv' /\ code \in proofs' \ proofs  BY <1>1, AcceptKeeps DEF LoginInv
<1>3. ClockInv' /\ SessionsInv' /\ \A s \in Sessions : ~BeginsAsAdmin(s)
  BY <1>1 DEF LoginInv, ClockInv, SessionsInv, BeginsAsAdmin, timeVars
<1>4. secrets'.active = secrets.pending  BY DEF Confirm
<1>5. Shown(secrets'.active)  BY <1>1, <1>2, <1>4 DEF Shown, Verifies
<1> QED  BY <1>2, <1>3, <1>5 DEF LoginInv, Proven

\* api_2fa_disable: no secret comes into force.
LEMMA DisableOK ==
    ASSUME LoginInv, NEW r \in Requests, NEW code \in Codes, Disable(r, code)
    PROVE  LoginInv' /\ Proven
<1>1. /\ UNCHANGED <<timeVars, sessions>>
      /\ Verifies(handler[r].secret, code) /\ Accept(code)
  BY DEF Disable
<1>2. CodesInv'  BY <1>1, AcceptKeeps DEF LoginInv
<1>3. ClockInv' /\ SessionsInv' /\ \A s \in Sessions : ~BeginsAsAdmin(s)
  BY <1>1 DEF LoginInv, ClockInv, SessionsInv, BeginsAsAdmin, timeVars
<1>4. secrets'.active = 0  BY DEF Disable
<1> QED  BY <1>2, <1>3, <1>4 DEF LoginInv, Proven

\* Ending a session starts none.
LEMMA LogoutOK ==
    ASSUME LoginInv, NEW s \in Sessions, Logout(s)
    PROVE  LoginInv' /\ Proven
<1>1. /\ UNCHANGED <<timeVars, codeVars, secrets>>
      /\ sessions' = [sessions EXCEPT ![s] = None]
  BY DEF Logout
<1>2. SessionsInv'  BY <1>1 DEF LoginInv, SessionsInv
<1>3. \A x \in Sessions : ~BeginsAsAdmin(x)
  BY <1>1 DEF LoginInv, SessionsInv, BeginsAsAdmin
<1>4. ClockInv' /\ CodesInv'
  BY <1>1 DEF LoginInv, ClockInv, CodesInv, timeVars, codeVars
<1> QED  BY <1>1, <1>2, <1>3, <1>4 DEF LoginInv, Proven

\* Time goes on, or back by a step, and what was forgotten stays too old.
LEMMA TimeOK ==
    ASSUME LoginInv, Tick \/ SetBack
    PROVE  LoginInv' /\ Proven
<1>1. UNCHANGED <<codeVars, sessions, secrets>>  BY DEF Tick, SetBack
<1>2. ClockInv' /\ high' \in Int /\ high' >= high
  BY DEF LoginInv, ClockInv, Tick, SetBack
<1>3. CodesInv'
  <2>1. ASSUME NEW c \in proofs PROVE c.step \in Int  BY DEF LoginInv, CodesInv, Codes
  <2> QED  BY <1>1, <1>2, <2>1 DEF LoginInv, ClockInv, CodesInv, codeVars
<1>4. SessionsInv' /\ Proven
  BY <1>1 DEF LoginInv, SessionsInv, Proven, BeginsAsAdmin
<1> QED  BY <1>2, <1>3, <1>4 DEF LoginInv

\* No step breaks the invariant, or lets an administrator in without a code.
LEMMA StepOK == ASSUME LoginInv, [Next]_vars PROVE LoginInv' /\ Proven
<1>1. ASSUME NEW r \in Requests, NEW kind \in Logins, NEW ip \in Addresses, BeginLogin(r, kind, ip)
      PROVE  LoginInv' /\ Proven
  BY <1>1, Aside DEF BeginLogin, Await
<1>2. ASSUME NEW r \in Requests, KeyLoggedIn(r) PROVE LoginInv' /\ Proven
  BY <1>2, KeyLoggedInOK
<1>3. ASSUME NEW r \in Requests, LoginFails(r) \/ LoginEnds(r) \/ ChangeFails(r)
      PROVE  LoginInv' /\ Proven
  BY <1>3, Aside DEF LoginFails, LoginEnds, ChangeFails
<1>4. ASSUME NEW r \in Requests, NEW code \in Codes,
             AdminLoggedIn(r, code) \/ Confirm(r, code) \/ Disable(r, code)
      PROVE  LoginInv' /\ Proven
  BY <1>4, AdminLoggedInOK, ConfirmOK, DisableOK
<1>5. ASSUME NEW r \in Requests, NEW kind \in {"confirm", "disable"}, BeginChange(r, kind)
      PROVE  LoginInv' /\ Proven
  BY <1>5, Aside DEF BeginChange, Await
<1>6. ASSUME NEW s \in Sessions, Logout(s) PROVE LoginInv' /\ Proven
  BY <1>6, LogoutOK
<1>7. CASE Setup
  <2>1. secrets'.active = secrets.active  BY <1>7 DEF Setup
  <2> QED  BY <1>7, <2>1, Aside DEF Setup
<1>8. CASE Tick \/ SetBack  BY <1>8, TimeOK
<1>9. CASE UNCHANGED vars  BY <1>9, Aside DEF vars
<1> QED  BY <1>1, <1>2, <1>3, <1>4, <1>5, <1>6, <1>7, <1>8, <1>9 DEF Next

\* A one-time code is accepted once, whatever interleaves and although the clock
\* may be set back by a step (totp_verify).
THEOREM CodesAreOneTime == Spec => []CodeOnce
<1>1. LoginInv /\ [Next]_vars => LoginInv'  BY StepOK
<1>2. LoginInv => CodeOnce  BY DEF LoginInv, CodesInv, CodeOnce
<1> QED  BY InitOK, <1>1, <1>2, PTL DEF Spec

(* ---- Types ------------------------------------------------------------------ *)

Windows == [start : 0..MaxClock, count : Nat \ {0}]

LoginsUnderWay ==
    [kind : Logins, ip : Addresses, secret : Nat, win : {"none", "shared", "lost"}]

\* A login under way counts on the list of its address only if it runs.
HandlerOK(r) ==
    ~Idle(r) /\ handler[r].kind \in Logins =>
        /\ handler[r] \in LoginsUnderWay
        /\ handler[r].win = "shared" => Running(handler[r].ip)

FailsInv ==
    /\ fails \in [Addresses -> Windows \cup {None}]
    /\ handler = [r \in Requests |-> handler[r]]
    /\ \A r \in Requests : HandlerOK(r)

RestInv ==
    /\ account \in Accounts
    /\ clock \in 0..MaxClock /\ high \in clock..clock + 1
    /\ used \subseteq 0..MaxClock + 1 /\ proofs \subseteq Codes
    /\ secrets \in [active : 0..issued, pending : 0..issued] /\ issued \in 0..MaxSecrets

TypeInv == FailsInv /\ RestInv

\* A missing window is none.
LEMMA WindowsAre == None \notin Windows
BY LoginAssumption DEF Windows

\* A slot that is free has no login under way.
LEMMA NoneIsNoLogin == None \notin LoginsUnderWay
BY LoginAssumption DEF LoginsUnderWay

\* A step of one handler that leaves the windows and the time alone.
LEMMA HandlerMoves ==
    ASSUME FailsInv, UNCHANGED <<clock, fails>>, NEW r \in Requests,
           NEW h, handler' = [handler EXCEPT ![r] = h],
           h # None /\ h.kind \in Logins =>
               /\ h \in LoginsUnderWay
               /\ h.win = "shared" => Running(h.ip)
    PROVE  FailsInv'
<1>1. handler'[r] = h  BY DEF FailsInv
<1>2. HandlerOK(r)'  BY <1>1 DEF HandlerOK, Idle, Running
<1>3. ASSUME NEW q \in Requests, q # r PROVE HandlerOK(q)'
  <2>1. handler'[q] = handler[q] /\ HandlerOK(q)  BY <1>3 DEF FailsInv
  <2> QED  BY <2>1 DEF HandlerOK, Idle, Running
<1> QED  BY <1>2, <1>3 DEF FailsInv

\* A window is begun or removed while those who counted on the old one are told.
LEMMA WindowReplaced ==
    ASSUME FailsInv, NEW ip \in Addresses, NEW r \in Requests, UNCHANGED clock,
           NEW w \in Windows \cup {None}, fails' = [fails EXCEPT ![ip] = w],
           handler' = [Detached(ip) EXCEPT ![r] = None]
    PROVE  FailsInv'
<1>1. fails' \in [Addresses -> Windows \cup {None}]  BY DEF FailsInv
<1>2. handler' = [q \in Requests |-> handler'[q]]  BY DEF Detached
<1>3. HandlerOK(r)'  BY DEF Detached, HandlerOK, Idle
<1>4. ASSUME NEW q \in Requests, q # r PROVE HandlerOK(q)'
  <2>1. handler'[q] = Detached(ip)[q] /\ HandlerOK(q)  BY <1>4 DEF Detached, FailsInv
  <2>2. CASE ~Idle(q) /\ handler[q].kind \in Logins /\ handler[q].ip = ip
                      /\ handler[q].win = "shared"
    <3>1. handler'[q] = [handler[q] EXCEPT !.win = "lost"]  BY <2>1, <2>2 DEF Detached
    <3>2. handler[q] \in LoginsUnderWay  BY <2>1, <2>2 DEF HandlerOK
    <3>3. handler'[q] \in LoginsUnderWay /\ handler'[q].win = "lost"
      BY <3>1, <3>2 DEF LoginsUnderWay
    <3> QED  BY <3>3 DEF HandlerOK
  <2>3. CASE ~(~Idle(q) /\ handler[q].kind \in Logins /\ handler[q].ip = ip
                      /\ handler[q].win = "shared")
    <3>1. handler'[q] = handler[q]  BY <2>1, <2>3 DEF Detached
    <3>2. ASSUME ~Idle(q), handler[q].kind \in Logins, handler[q].win = "shared"
          PROVE  fails'[handler[q].ip] = fails[handler[q].ip]
      BY <2>1, <2>3, <3>2 DEF HandlerOK, FailsInv, LoginsUnderWay
    <3> QED  BY <2>1, <3>1, <3>2 DEF HandlerOK, Idle, Running
  <2> QED  BY <2>2, <2>3
<1> QED  BY <1>1, <1>2, <1>3, <1>4 DEF FailsInv

\* A failure begins a window, counts on the one it has read, or is lost.
LEMMA FailKeeps ==
    ASSUME TypeInv, NEW r \in Requests, LoginFails(r)
    PROVE  FailsInv'
<1> DEFINE h == handler[r]
<1>1. /\ clock' = clock /\ h \in LoginsUnderWay
      /\ h.win = "shared" => Running(h.ip)
      /\ h.ip \in Addresses
  BY DEF LoginFails, TypeInv, FailsInv, HandlerOK, LoginsUnderWay, timeVars
<1>2. CASE Begins(h)
  <2> DEFINE w == [start |-> clock, count |-> 1]
  <2>1. w \in Windows  BY DEF Windows, TypeInv, RestInv
  <2>2. /\ fails' = [fails EXCEPT ![h.ip] = w]
        /\ handler' = [Detached(h.ip) EXCEPT ![r] = None]
    BY <1>2 DEF LoginFails, Fail
  <2> HIDE DEF w, h
  <2> QED  BY <1>1, <2>1, <2>2, WindowReplaced DEF TypeInv
<1>3. CASE ~Begins(h)
  <2>1. handler' = [handler EXCEPT ![r] = None]  BY <1>3 DEF LoginFails, Fail
  <2>2. CASE h.win # "shared"
    <3>1. fails' = fails  BY <1>1, <1>3, <2>2 DEF LoginFails, Fail, TypeInv, FailsInv
    <3> QED  BY <1>1, <2>1, <3>1, HandlerMoves DEF TypeInv
  <2>3. CASE h.win = "shared"
    <3>1. fails' = [fails EXCEPT ![h.ip] = [start |-> fails[h.ip].start,
                                            count |-> fails[h.ip].count + 1]]
      BY <1>3, <2>3 DEF LoginFails, Fail
    <3>2. fails[h.ip] \in Windows  BY <1>1, <2>3 DEF Running, TypeInv, FailsInv
    <3>3. /\ fails'[h.ip] \in Windows /\ fails'[h.ip].start = fails[h.ip].start
          /\ fails' \in [Addresses -> Windows \cup {None}]
      BY <1>1, <3>1, <3>2 DEF Windows, TypeInv, FailsInv
    <3>4. fails'[h.ip] # None  BY <3>3, WindowsAre
    <3>5. \A a \in Addresses : a # h.ip => fails'[a] = fails[a]
      BY <3>1 DEF TypeInv, FailsInv
    <3>6. ASSUME NEW a \in Addresses, Running(a) PROVE Running(a)'
      BY <1>1, <3>3, <3>4, <3>5, <3>6 DEF Running
    <3>7. ASSUME NEW q \in Requests PROVE HandlerOK(q)'
      <4>1. HandlerOK(q) /\ (handler'[q] = handler[q] \/ handler'[q] = None)
        BY <2>1 DEF TypeInv, FailsInv
      <4> QED  BY <3>6, <4>1 DEF HandlerOK, Idle, LoginsUnderWay
    <3>8. handler' = [q \in Requests |-> handler'[q]]  BY <2>1 DEF TypeInv, FailsInv
    <3> QED  BY <3>3, <3>7, <3>8 DEF FailsInv
  <2> QED  BY <2>2, <2>3
<1> QED  BY <1>2, <1>3

\* A login that succeeds clears the window of its address.
LEMMA ForgiveKeeps ==
    ASSUME TypeInv, NEW r \in Requests, ~Idle(r), handler[r].kind \in Logins,
           Forgive(r), UNCHANGED timeVars
    PROVE  FailsInv'
<1>1. handler[r].ip \in Addresses  BY DEF TypeInv, FailsInv, HandlerOK, LoginsUnderWay
<1>2. /\ fails' = [fails EXCEPT ![handler[r].ip] = None] /\ clock' = clock
      /\ handler' = [Detached(handler[r].ip) EXCEPT ![r] = None]
  BY DEF Forgive, timeVars
<1> QED  BY <1>1, <1>2, WindowReplaced DEF TypeInv

\* A handler that begins reads the list of its address, if it runs.
LEMMA BeginKeeps ==
    ASSUME TypeInv, NEW r \in Requests, NEW kind \in Logins, NEW ip \in Addresses,
           BeginLogin(r, kind, ip)
    PROVE  FailsInv'
<1> DEFINE h == [kind |-> kind, ip |-> ip,
                 secret |-> IF kind = "admin" THEN secrets.active ELSE 0,
                 win |-> IF Running(ip) THEN "shared" ELSE "none"]
<1>1. handler' = [handler EXCEPT ![r] = h] /\ UNCHANGED <<clock, fails>>
  BY DEF BeginLogin, Await, timeVars, failVars
<1>2. secrets.active \in Nat  BY DEF TypeInv, RestInv
<1>3. h \in LoginsUnderWay /\ (h.win = "shared" => Running(h.ip))  BY <1>2 DEF LoginsUnderWay
<1> HIDE DEF h
<1> QED  BY <1>1, <1>3, HandlerMoves DEF TypeInv

\* A handler of another kind begins, or any handler ends without a trace.
LEMMA OthersKeep ==
    ASSUME TypeInv, NEW r \in Requests,
           \/ \E kind \in {"confirm", "disable"} : BeginChange(r, kind)
           \/ LoginEnds(r) \/ ChangeFails(r)
           \/ \E code \in Codes : Confirm(r, code) \/ Disable(r, code)
    PROVE  FailsInv'
<1>1. UNCHANGED <<clock, fails>>
  BY DEF BeginChange, Await, LoginEnds, ChangeFails, Confirm, Disable, timeVars, failVars
<1>2. CASE handler' = [handler EXCEPT ![r] = None]
  BY <1>1, <1>2, HandlerMoves DEF TypeInv
<1>3. ASSUME NEW kind \in {"confirm", "disable"}, BeginChange(r, kind) PROVE FailsInv'
  <2> DEFINE h == [kind |-> kind, secret |-> secrets.active]
  <2>1. handler' = [handler EXCEPT ![r] = h]  BY <1>3 DEF BeginChange, Await
  <2>2. h.kind \notin Logins  BY DEF Logins
  <2> HIDE DEF h
  <2> QED  BY <1>1, <2>1, <2>2, HandlerMoves DEF TypeInv
<1> QED  BY <1>2, <1>3 DEF LoginEnds, ChangeFails, Confirm, Disable, Done

\* Time passes only while no request is under way.
LEMMA TimeKeeps == ASSUME TypeInv, Tick \/ SetBack PROVE TypeInv'
<1>1. \A r \in Requests : Idle(r)  BY DEF Tick, SetBack, Quiet
<1>2. FailsInv'  BY <1>1 DEF Tick, SetBack, TypeInv, FailsInv, HandlerOK, Idle, failVars
<1>3. clock' \in 0..MaxClock /\ high' \in clock'..clock' + 1
  BY LoginAssumption DEF Tick, SetBack, TypeInv, RestInv
<1>4. UNCHANGED <<account, used, proofs, secrets, issued>>  BY DEF Tick, SetBack, codeVars
<1>5. RestInv'  BY <1>3, <1>4 DEF TypeInv, RestInv
<1> QED  BY <1>2, <1>5 DEF TypeInv

\* A code that verifies is one of a step of the clock.
LEMMA AcceptTypes ==
    ASSUME RestInv, NEW code \in Codes, Accept(code)
    PROVE  used' \subseteq 0..MaxClock + 1 /\ proofs' \subseteq Codes
<1>1. code.step \in 0..MaxClock + 1  BY DEF Codes
<1> QED  BY <1>1 DEF RestInv, Accept

\* Every step keeps the types.
LEMMA TypeStep == ASSUME TypeInv, [Next]_vars PROVE TypeInv'
<1>1. ASSUME UNCHANGED <<timeVars, codeVars, secrets, issued>> PROVE RestInv'
  BY <1>1 DEF TypeInv, RestInv, timeVars, codeVars
<1>2. ASSUME NEW r \in Requests, NEW kind \in Logins, NEW ip \in Addresses, BeginLogin(r, kind, ip)
      PROVE  TypeInv'
  BY <1>1, <1>2, BeginKeeps DEF TypeInv, BeginLogin, Await
<1>3. ASSUME NEW r \in Requests, KeyLoggedIn(r) PROVE TypeInv'
  <2>1. handler[r].kind \in Logins  BY <1>3 DEF KeyLoggedIn, Logins
  <2> QED  BY <1>1, <1>3, <2>1, ForgiveKeeps DEF TypeInv, KeyLoggedIn
<1>4. ASSUME NEW r \in Requests, LoginFails(r) PROVE TypeInv'
  BY <1>1, <1>4, FailKeeps DEF TypeInv, LoginFails
<1>5. ASSUME NEW r \in Requests, LoginEnds(r) \/ ChangeFails(r) PROVE TypeInv'
  <2>1. FailsInv'  BY <1>5, OthersKeep
  <2> QED  BY <1>1, <1>5, <2>1 DEF TypeInv, LoginEnds, ChangeFails
<1>6. ASSUME NEW r \in Requests, NEW kind \in {"confirm", "disable"}, BeginChange(r, kind)
      PROVE  TypeInv'
  <2>1. FailsInv'  BY <1>6, OthersKeep
  <2> QED  BY <1>1, <1>6, <2>1 DEF TypeInv, BeginChange, Await
<1>7. ASSUME NEW r \in Requests, NEW code \in Codes, AdminLoggedIn(r, code) PROVE TypeInv'
  <2>1. handler[r].kind \in Logins  BY <1>7 DEF AdminLoggedIn, Logins
  <2>2. FailsInv'  BY <1>7, <2>1, ForgiveKeeps DEF AdminLoggedIn
  <2>3. used' \subseteq 0..MaxClock + 1 /\ proofs' \subseteq Codes
    BY <1>7, AcceptTypes DEF AdminLoggedIn, TypeInv, RestInv, codeVars
  <2> QED  BY <1>7, <2>2, <2>3 DEF AdminLoggedIn, TypeInv, RestInv, timeVars
<1>8. ASSUME NEW r \in Requests, NEW code \in Codes, Confirm(r, code) \/ Disable(r, code)
      PROVE  TypeInv'
  <2>1. FailsInv'  BY <1>8, OthersKeep
  <2>2. used' \subseteq 0..MaxClock + 1 /\ proofs' \subseteq Codes
    BY <1>8, AcceptTypes DEF Confirm, Disable, TypeInv
  <2>3. secrets' \in [active : 0..issued, pending : 0..issued] /\ UNCHANGED <<timeVars, issued>>
    BY <1>8 DEF Confirm, Disable, TypeInv, RestInv
  <2> QED  BY <2>1, <2>2, <2>3 DEF TypeInv, RestInv, timeVars
<1>9. ASSUME NEW s \in Sessions, Logout(s) PROVE TypeInv'
  BY <1>1, <1>9 DEF Logout, TypeInv, FailsInv, HandlerOK, Idle, Running, timeVars, failVars
<1>10. CASE Setup
  <2>1. FailsInv'
    BY <1>10 DEF Setup, TypeInv, FailsInv, HandlerOK, Idle, Running, timeVars, failVars
  <2>2. RestInv'  BY <1>10, LoginAssumption DEF Setup, TypeInv, RestInv, timeVars, codeVars
  <2> QED  BY <2>1, <2>2 DEF TypeInv
<1>11. CASE Tick \/ SetBack  BY <1>11, TimeKeeps
<1>12. CASE UNCHANGED vars
  BY <1>1, <1>12 DEF vars, TypeInv, FailsInv, HandlerOK, Idle, Running, timeVars, failVars
<1> QED  BY <1>2, <1>3, <1>4, <1>5, <1>6, <1>7, <1>8, <1>9, <1>10, <1>11, <1>12 DEF Next

\* The types, and: whoever counts on a list of failures counts on one that runs
\* (_login_fails is replaced, or removed, only while everyone else is told).
THEOREM TypeCorrect == Spec => []TypeOK
<1>1. Init => TypeInv
  BY LoginAssumption DEF Init, TypeInv, FailsInv, RestInv, HandlerOK, Idle
<1>2. TypeInv /\ [Next]_vars => TypeInv'  BY TypeStep
<1>3. TypeInv => TypeOK
  BY DEF TypeInv, FailsInv, RestInv, HandlerOK, LoginsUnderWay, Windows, TypeOK
<1> QED  BY <1>1, <1>2, <1>3, PTL DEF Spec

(* ---- Administrators ------------------------------------------------------------ *)

\* A login with a password begins in BeginLogin only: elsewhere a handler ends, or
\* is told that its list is gone, or changes the second factor.
LEMMA NoneBegins ==
    ASSUME TypeInv, NEW r \in Requests,
           \/ handler' = handler
           \/ handler' = [handler EXCEPT ![r] = None]
           \/ \E ip \in Addresses : handler' = [Detached(ip) EXCEPT ![r] = None]
           \/ \E kind \in {"confirm", "disable"} : BeginChange(r, kind)
    PROVE  \A q \in Requests : handler'[q] # None /\ handler'[q].kind = "admin"
                                => ~Idle(q) /\ handler[q].kind = "admin"
<1>1. SUFFICES ASSUME NEW q \in Requests, handler'[q] # None, handler'[q].kind = "admin"
               PROVE  handler[q] # None /\ handler[q].kind = "admin"
  BY DEF Idle
<1>2. handler = [x \in Requests |-> handler[x]]  BY DEF TypeInv, FailsInv
<1>3. ASSUME NEW ip \in Addresses, handler' = [Detached(ip) EXCEPT ![r] = None]
      PROVE  handler[q] # None /\ handler[q].kind = "admin"
  <2>1. q # r /\ handler'[q] = Detached(ip)[q]  BY <1>1, <1>3 DEF Detached
  <2>2. CASE ~Idle(q) /\ handler[q].kind \in Logins /\ handler[q].ip = ip
                      /\ handler[q].win = "shared"
    <3>1. handler[q] \in LoginsUnderWay  BY <2>2 DEF TypeInv, FailsInv, HandlerOK
    <3>2. handler'[q] = [handler[q] EXCEPT !.win = "lost"]  BY <2>1, <2>2 DEF Detached
    <3> QED  BY <1>1, <2>2, <3>1, <3>2 DEF LoginsUnderWay, Idle
  <2>3. CASE ~(~Idle(q) /\ handler[q].kind \in Logins /\ handler[q].ip = ip
                      /\ handler[q].win = "shared")
    <3>1. handler'[q] = handler[q]  BY <2>1, <2>3 DEF Detached
    <3> QED  BY <1>1, <3>1
  <2> QED  BY <2>2, <2>3
<1>4. ASSUME NEW kind \in {"confirm", "disable"}, BeginChange(r, kind)
      PROVE  handler[q] # None /\ handler[q].kind = "admin"
  <2>1. handler' = [handler EXCEPT ![r] = [kind |-> kind, secret |-> secrets.active]]
    BY <1>4 DEF BeginChange, Await
  <2>2. q # r  BY <1>1, <1>2, <2>1
  <2> QED  BY <1>1, <1>2, <2>1, <2>2
<1> QED  BY <1>1, <1>2, <1>3, <1>4

\* Every step keeps it: the account does not change while console runs.
LEMMA AccountStep == ASSUME TypeInv, AccountInv, [Next]_vars PROVE AccountInv'
<1>1. ASSUME NEW r \in Requests, UNCHANGED account,
             \/ handler' = handler
             \/ handler' = [handler EXCEPT ![r] = None]
             \/ \E ip \in Addresses : handler' = [Detached(ip) EXCEPT ![r] = None]
             \/ \E kind \in {"confirm", "disable"} : BeginChange(r, kind)
      PROVE  AccountInv'
  BY <1>1, NoneBegins DEF AccountInv, Idle
<1>2. ASSUME NEW r \in Requests, NEW kind \in Logins, NEW ip \in Addresses, BeginLogin(r, kind, ip)
      PROVE  AccountInv'
  <2>1. account' = account /\ (kind = "admin" => account = "full")
    BY <1>2 DEF BeginLogin, Await, timeVars
  <2> DEFINE h == [kind |-> kind, ip |-> ip,
                   secret |-> IF kind = "admin" THEN secrets.active ELSE 0,
                   win |-> IF Running(ip) THEN "shared" ELSE "none"]
  <2>2. handler' = [handler EXCEPT ![r] = h] /\ h.kind = kind
    BY <1>2 DEF BeginLogin, Await
  <2> HIDE DEF h
  <2>3. handler = [x \in Requests |-> handler[x]]  BY DEF TypeInv, FailsInv
  <2>4. ASSUME NEW q \in Requests, handler'[q].kind = "admin", handler'[q] # None
        PROVE  account = "full"
    BY <2>1, <2>2, <2>3, <2>4 DEF AccountInv, Idle
  <2> QED  BY <2>1, <2>4 DEF AccountInv, Idle
<1>3. ASSUME NEW r \in Requests,
             KeyLoggedIn(r) \/ \E code \in Codes : AdminLoggedIn(r, code)
      PROVE  AccountInv'
  <2>1. ~Idle(r) /\ handler[r].kind \in Logins /\ Forgive(r) /\ UNCHANGED account
    BY <1>3 DEF KeyLoggedIn, AdminLoggedIn, Logins, timeVars
  <2>2. handler[r].ip \in Addresses
    BY <2>1 DEF TypeInv, FailsInv, HandlerOK, LoginsUnderWay
  <2>3. handler' = [Detached(handler[r].ip) EXCEPT ![r] = None]  BY <2>1 DEF Forgive
  <2> QED  BY <1>1, <2>1, <2>2, <2>3
<1>4. ASSUME NEW r \in Requests, LoginFails(r) PROVE AccountInv'
  <2>1. ~Idle(r) /\ handler[r].kind \in Logins /\ UNCHANGED account
    BY <1>4 DEF LoginFails, timeVars
  <2>2. handler[r].ip \in Addresses
    BY <2>1 DEF TypeInv, FailsInv, HandlerOK, LoginsUnderWay
  <2>3. \/ handler' = [Detached(handler[r].ip) EXCEPT ![r] = None]
        \/ handler' = [handler EXCEPT ![r] = None]
    BY <1>4 DEF LoginFails, Fail
  <2> QED  BY <1>1, <2>1, <2>2, <2>3
<1>5. ASSUME NEW r \in Requests,
             \/ LoginEnds(r) \/ ChangeFails(r)
             \/ \E code \in Codes : Confirm(r, code) \/ Disable(r, code)
      PROVE  AccountInv'
  BY <1>1, <1>5 DEF LoginEnds, ChangeFails, Confirm, Disable, Done, timeVars
<1>6. ASSUME NEW r \in Requests, NEW kind \in {"confirm", "disable"}, BeginChange(r, kind)
      PROVE  AccountInv'
  <2>1. UNCHANGED account  BY <1>6 DEF BeginChange, Await, timeVars
  <2> QED  BY <1>1, <1>6, <2>1
<1>7. ASSUME UNCHANGED <<account, handler>> PROVE AccountInv'
  BY <1>7 DEF AccountInv, Idle
<1>8. ASSUME NEW s \in Sessions, Logout(s) PROVE AccountInv'
  BY <1>7, <1>8 DEF Logout, timeVars
<1>9. CASE Setup \/ Tick \/ SetBack  BY <1>7, <1>9 DEF Setup, Tick, SetBack, timeVars
<1>10. CASE UNCHANGED vars  BY <1>7, <1>10 DEF vars, timeVars
<1> QED  BY <1>2, <1>3, <1>4, <1>5, <1>6, <1>8, <1>9, <1>10 DEF Next

\* With a second factor and an account that has an address, an administrator's
\* session begins with a fresh code of the secret in force; with an address and no
\* password none begins; and a secret comes into force with a fresh code of its own
\* (api_admin_login, api_login, api_2fa_confirm).
THEOREM LoginsAreProven == Spec => LoginProven
<1>1. Init => TypeInv /\ AccountInv
  BY LoginAssumption
  DEF Init, TypeInv, FailsInv, RestInv, HandlerOK, AccountInv, Idle
<1>2. TypeInv /\ AccountInv /\ [Next]_vars => TypeInv' /\ AccountInv'
  BY TypeStep, AccountStep
<1>3. LoginInv /\ [Next]_vars => LoginInv'  BY StepOK
<1>4. LoginInv /\ AccountInv /\ [Next]_vars
        => [/\ \A s \in Sessions : BeginsAsAdmin(s) =>
                 /\ account # "address"
                 /\ account = "full" /\ secrets.active # 0 => Shown(secrets.active)
            /\ secrets'.active \notin {0, secrets.active} => Shown(secrets'.active)]_vars
  BY StepOK DEF Proven, AccountInv
<1> QED  BY InitOK, <1>1, <1>2, <1>3, <1>4, PTL DEF Spec, LoginProven

(* ---- Guesses ------------------------------------------------------------------ *)

\* Twice the failures an address can still come to, of those it has had g: with
\* c of them counted in its window, and z, s and l requests under way that found
\* no window, count on it, and count on none.
Weight(g, c, z, s, l) ==
    2*g + 2*l + (IF c < Limit THEN 2*(Limit - 1 - c) + 2*(InFlight - z) ELSE 2*s)
    + 2*z*(Limit - 1) + 2*z*InFlight - z*(z - 1)

Bound == 2*InFlight*(Limit - 1) + InFlight*(InFlight + 1)

\* The slots are a natural number.
LEMMA SlotsOK == InFlight \in Nat
BY LoginAssumption, FS_CardinalityType DEF InFlight

\* A failure that is counted, or one that is not, uses up what it adds.
LEMMA CountedFits ==
    ASSUME NEW g \in Nat, NEW c \in Nat \ {0}, NEW z \in Nat, NEW s \in Nat \ {0}, NEW l \in Nat,
           z + s + l <= InFlight
    PROVE  Weight(g + 1, c + 1, z, s - 1, l) <= Weight(g, c, z, s, l)
<1> DEFINE N == InFlight
           R == 2*z*(Limit - 1) + 2*z*N - z*(z - 1)
<1>1. N \in Nat /\ Limit \in Nat \ {0}  BY SlotsOK, LoginAssumption
<1>2. R \in Int  BY <1>1
<1> HIDE DEF N, R
<1>3. Weight(g + 1, c + 1, z, s - 1, l)
        = 2*(g + 1) + 2*l
          + (IF c + 1 < Limit THEN 2*(Limit - 1 - (c + 1)) + 2*(N - z) ELSE 2*(s - 1)) + R
  BY <1>1 DEF Weight, N, R
<1>4. Weight(g, c, z, s, l)
        = 2*g + 2*l + (IF c < Limit THEN 2*(Limit - 1 - c) + 2*(N - z) ELSE 2*s) + R
  BY <1>1 DEF Weight, N, R
<1>5. z + s + l <= N  BY DEF N
<1> QED  BY <1>1, <1>2, <1>3, <1>4, <1>5

LEMMA LostFits ==
    ASSUME NEW g \in Nat, NEW c \in Nat \ {0}, NEW z \in Nat, NEW s \in Nat, NEW l \in Nat \ {0}
    PROVE  Weight(g + 1, c, z, s, l - 1) = Weight(g, c, z, s, l)
<1> DEFINE N == InFlight
           R == (IF c < Limit THEN 2*(Limit - 1 - c) + 2*(N - z) ELSE 2*s)
                + 2*z*(Limit - 1) + 2*z*N - z*(z - 1)
<1>1. N \in Nat /\ Limit \in Nat \ {0}  BY SlotsOK, LoginAssumption
<1>2. R \in Int  BY <1>1
<1>3. Weight(g + 1, c, z, s, l - 1) = 2*(g + 1) + 2*(l - 1) + R
  BY <1>1 DEF Weight
<1>4. Weight(g, c, z, s, l) = 2*g + 2*l + R
  BY <1>1 DEF Weight
<1> HIDE DEF R
<1> QED  BY <1>2, <1>3, <1>4

\* A failure that begins another window.
LEMMA AgainFits ==
    ASSUME NEW g \in Nat, NEW c \in Nat \ {0}, NEW z \in Nat \ {0}, NEW s \in Nat, NEW l \in Nat,
           z + s + l <= InFlight
    PROVE  Weight(g + 1, 1, z - 1, 0, l + s) <= Weight(g, c, z, s, l)
<1> DEFINE N == InFlight
           R == 2*z*(Limit - 1) + 2*z*N - z*(z - 1)
           Q == 2*(z - 1)*(Limit - 1) + 2*(z - 1)*N - (z - 1)*(z - 1 - 1)
<1>1. N \in Nat /\ Limit \in Nat \ {0}  BY SlotsOK, LoginAssumption
<1>2. R \in Int /\ Q \in Int  BY <1>1
<1>3. R = Q + 2*(Limit - 1) + 2*N - 2*(z - 1)  BY <1>1
<1> HIDE DEF N, R, Q
<1>4. Weight(g + 1, 1, z - 1, 0, l + s)
        = 2*(g + 1) + 2*(l + s)
          + (IF 1 < Limit THEN 2*(Limit - 1 - 1) + 2*(N - (z - 1)) ELSE 2*0) + Q
  BY <1>1 DEF Weight, N, Q
<1>5. Weight(g, c, z, s, l)
        = 2*g + 2*l + (IF c < Limit THEN 2*(Limit - 1 - c) + 2*(N - z) ELSE 2*s) + R
  BY <1>1 DEF Weight, N, R
<1>6. z + s + l <= N  BY DEF N
<1> QED  BY <1>1, <1>2, <1>3, <1>4, <1>5, <1>6

\* A request that ends without a failure.
LEMMA EndFits ==
    ASSUME NEW g \in Nat, NEW c \in Nat \ {0}, NEW z \in Nat, NEW s \in Nat, NEW l \in Nat,
           z + s + l <= InFlight
    PROVE  /\ z # 0 => Weight(g, c, z - 1, s, l) <= Weight(g, c, z, s, l)
           /\ s # 0 => Weight(g, c, z, s - 1, l) <= Weight(g, c, z, s, l)
           /\ l # 0 => Weight(g, c, z, s, l - 1) <= Weight(g, c, z, s, l)
           /\ c < Limit => Weight(g, c, z, s + 1, l) = Weight(g, c, z, s, l)
<1> DEFINE N == InFlight
           R == 2*z*(Limit - 1) + 2*z*N - z*(z - 1)
           Q == 2*(z - 1)*(Limit - 1) + 2*(z - 1)*N - (z - 1)*(z - 1 - 1)
<1>1. N \in Nat /\ Limit \in Nat \ {0}  BY SlotsOK, LoginAssumption
<1>2. R \in Int /\ Q \in Int  BY <1>1
<1>3. R = Q + 2*(Limit - 1) + 2*N - 2*(z - 1)  BY <1>1
<1> HIDE DEF N, R, Q
<1>4. Weight(g, c, z - 1, s, l)
        = 2*g + 2*l + (IF c < Limit THEN 2*(Limit - 1 - c) + 2*(N - (z - 1)) ELSE 2*s) + Q
  BY <1>1 DEF Weight, N, Q
<1>5. Weight(g, c, z, s, l)
        = 2*g + 2*l + (IF c < Limit THEN 2*(Limit - 1 - c) + 2*(N - z) ELSE 2*s) + R
  BY <1>1 DEF Weight, N, R
<1>6. z + s + l <= N  BY DEF N
<1>7. z # 0 => Weight(g, c, z - 1, s, l) <= Weight(g, c, z, s, l)
  BY <1>1, <1>2, <1>3, <1>4, <1>5, <1>6
<1>8. s # 0 => Weight(g, c, z, s - 1, l) <= Weight(g, c, z, s, l)
  <2>1. Weight(g, c, z, s - 1, l)
          = 2*g + 2*l + (IF c < Limit THEN 2*(Limit - 1 - c) + 2*(N - z) ELSE 2*(s - 1)) + R
    BY <1>1 DEF Weight, N, R
  <2> QED  BY <1>1, <1>2, <1>5, <2>1
<1>9. l # 0 => Weight(g, c, z, s, l - 1) <= Weight(g, c, z, s, l)
  <2>1. Weight(g, c, z, s, l - 1)
          = 2*g + 2*(l - 1) + (IF c < Limit THEN 2*(Limit - 1 - c) + 2*(N - z) ELSE 2*s) + R
    BY <1>1 DEF Weight, N, R
  <2> QED  BY <1>1, <1>2, <1>5, <2>1
<1>10. c < Limit => Weight(g, c, z, s + 1, l) = Weight(g, c, z, s, l)
  <2>1. Weight(g, c, z, s + 1, l)
          = 2*g + 2*l + (IF c < Limit THEN 2*(Limit - 1 - c) + 2*(N - z) ELSE 2*(s + 1)) + R
    BY <1>1 DEF Weight, N, R
  <2> QED  BY <1>1, <1>2, <1>5, <2>1
<1> QED  BY <1>7, <1>8, <1>9, <1>10

\* The first failure of a window of its own.
LEMMA FirstFits ==
    ASSUME NEW z \in Nat, NEW l \in Nat, z + l + 1 <= InFlight
    PROVE  Weight(1, 1, z, 0, l) <= Bound
<1> DEFINE N == InFlight
           L == Limit
           d == N - 1 - z
<1>1. N \in Nat /\ L \in Nat \ {0}  BY SlotsOK, LoginAssumption
<1>2. d \in Nat /\ l <= d /\ N = z + 1 + d  BY <1>1
<1> DEFINE R == 2*z*(L - 1) + 2*z*N - z*(z - 1)
           B == 2*N*(L - 1) + N*(N + 1)
<1>3. Weight(1, 1, z, 0, l) = 2 + 2*l + (IF 1 < L THEN 2*(L - 2) + 2*(N - z) ELSE 0) + R
  BY <1>1 DEF Weight
<1>4. Bound = B  BY DEF Bound
<1>5. B - R = 2*(1 + d)*(L - 1) + 2 + 3*d + d*d
  <2>1. B = 2*(z + 1 + d)*(L - 1) + (z + 1 + d)*(z + 1 + d + 1)  BY <1>2
  <2>2. R = 2*z*(L - 1) + 2*z*(z + 1 + d) - z*(z - 1)  BY <1>2
  <2> HIDE DEF d, N, L, B, R
  <2> QED  BY <2>1, <2>2, <1>1, <1>2
<1>6. B \in Int /\ R \in Int  BY <1>1
<1> HIDE DEF d, N, L, B, R
<1>7. d*d \in Nat /\ d*(L - 1) \in Nat /\ 2*(1 + d)*(L - 1) = 2*(L - 1) + 2*(d*(L - 1))
  BY <1>1, <1>2
<1>8. CASE 1 < L
  <2>1. L - 2 \in Nat  BY <1>1, <1>8
  <2>2. d*(L - 2) \in Nat  BY <1>2, <2>1
  <2>3. d*(L - 1) = d*(L - 2) + d  BY <1>1, <1>2
  <2> QED  BY <1>1, <1>2, <1>3, <1>4, <1>5, <1>6, <1>7, <1>8, <2>2, <2>3
<1>9. CASE ~(1 < L)
  BY <1>1, <1>2, <1>3, <1>4, <1>5, <1>6, <1>7, <1>9
<1> QED  BY <1>8, <1>9

\* A single failure is within the bound.
LEMMA OneFits == ASSUME InFlight # 0 PROVE 2 <= Bound
<1> DEFINE N == InFlight
<1>1. N \in Nat \ {0} /\ Limit - 1 \in Nat  BY SlotsOK, LoginAssumption
<1>2. Bound = 2*(N*(Limit - 1)) + N*(N + 1)  BY <1>1 DEF Bound
<1> HIDE DEF N
<1>3. N*(Limit - 1) \in Nat  BY <1>1
<1>4. N*(N + 1) >= 2
  <2>1. N - 1 \in Nat  BY <1>1
  <2>2. (N - 1)*N \in Nat /\ N*(N + 1) = (N - 1)*N + 2*N  BY <1>1, <2>1
  <2> QED  BY <1>1, <2>2
<1>5. N*(N + 1) \in Int  BY <1>1
<1> QED  BY <1>2, <1>3, <1>4, <1>5

\* The bound, halved.
LEMMA HalfBound ==
    ASSUME NEW g \in Nat, 2*g <= Bound
    PROVE  g <= InFlight * (Limit - 1) + (InFlight * (InFlight + 1)) \div 2
<1> DEFINE x == InFlight * (Limit - 1)
           y == InFlight * (InFlight + 1)
<1>1. x \in Int /\ y \in Int  BY SlotsOK, LoginAssumption
<1>2. Bound = 2*x + y  BY SlotsOK, LoginAssumption DEF Bound
<1> HIDE DEF x, y
<1>3. g <= x + y \div 2  BY <1>1, <1>2
<1> QED  BY <1>3 DEF x, y

\* The requests of an address under way that read w of its window.
Mine(a, w) ==
    {r \in Requests : ~Idle(r) /\ handler[r].kind \in Logins
                      /\ handler[r].ip = a /\ handler[r].win = w}

None0(a) == Cardinality(Mine(a, "none"))
Shared(a) == Cardinality(Mine(a, "shared"))
Lost(a) == Cardinality(Mine(a, "lost"))

\* What an address can still come to is within the bound while its window runs;
\* after that the window can run again only if the clock is set back, and the
\* requests that began meanwhile found none.
WithinBound(a) ==
    /\ guesses[a] \in Nat /\ 2*guesses[a] <= Bound
    /\ Running(a) => Weight(guesses[a], fails[a].count, None0(a), Shared(a), Lost(a)) <= Bound
    /\ fails[a] # None /\ ~Running(a) =>
        /\ Mine(a, "shared") = {} /\ Mine(a, "lost") = {}
        /\ Weight(guesses[a], fails[a].count, 0, 0, 0) <= Bound

GuessInv ==
    /\ guesses = [a \in Addresses |-> guesses[a]]
    /\ \A a \in Addresses : WithinBound(a)

\* Sets of slots are finite and have numbers.
LEMMA SomeOK ==
    ASSUME NEW S \in SUBSET Requests
    PROVE  /\ IsFiniteSet(S) /\ Cardinality(S) \in Nat
           /\ S = {} <=> Cardinality(S) = 0
<1>1. IsFiniteSet(S)  BY LoginAssumption, FS_Subset
<1> QED  BY <1>1, FS_CardinalityType, FS_EmptySet

\* Sets with nothing in common.
LEMMA Apart ==
    ASSUME NEW S, NEW T, IsFiniteSet(S), IsFiniteSet(T), S \cap T = {}
    PROVE  IsFiniteSet(S \cup T) /\ Cardinality(S \cup T) = Cardinality(S) + Cardinality(T)
<1>1. /\ IsFiniteSet(S \cup T)
      /\ Cardinality(S \cup T) = Cardinality(S) + Cardinality(T) - Cardinality(S \cap T)
  BY FS_Union
<1>2. Cardinality(S \cap T) = 0  BY FS_EmptySet
<1>3. Cardinality(S) \in Nat /\ Cardinality(T) \in Nat  BY FS_CardinalityType
<1> QED  BY <1>1, <1>2, <1>3

\* Three sets of slots with nothing in common are no more than the slots.
LEMMA ThreeFit ==
    ASSUME NEW z \in SUBSET Requests, NEW s \in SUBSET Requests, NEW l \in SUBSET Requests,
           z \cap s = {}, z \cap l = {}, s \cap l = {}
    PROVE  Cardinality(z) + Cardinality(s) + Cardinality(l) <= InFlight
<1> DEFINE zs == z \cup s
<1>1. /\ IsFiniteSet(z) /\ IsFiniteSet(s) /\ IsFiniteSet(l)
      /\ Cardinality(z) \in Nat /\ Cardinality(s) \in Nat /\ Cardinality(l) \in Nat
  BY SomeOK
<1>2. IsFiniteSet(zs) /\ Cardinality(zs) = Cardinality(z) + Cardinality(s)
  BY <1>1, Apart
<1>3. zs \cap l = {} /\ zs \cup l \in SUBSET Requests  OBVIOUS
<1> HIDE DEF zs
<1>4. Cardinality(zs \cup l) = Cardinality(zs) + Cardinality(l)  BY <1>1, <1>2, <1>3, Apart
<1>5. Cardinality(zs \cup l) <= InFlight
  BY <1>3, LoginAssumption, FS_Subset DEF InFlight
<1> QED  BY <1>2, <1>4, <1>5

\* The requests of an address are slots, each in one set.
LEMMA MineOK ==
    ASSUME NEW a
    PROVE  /\ \A w : Mine(a, w) \in SUBSET Requests
           /\ \A v, w : v # w => Mine(a, v) \cap Mine(a, w) = {}
BY DEF Mine

\* So they are no more than the slots.
LEMMA MineFit ==
    ASSUME NEW a
    PROVE  /\ None0(a) \in Nat /\ Shared(a) \in Nat /\ Lost(a) \in Nat
           /\ None0(a) + Shared(a) + Lost(a) <= InFlight
<1>1. /\ Mine(a, "none") \in SUBSET Requests /\ Mine(a, "shared") \in SUBSET Requests
      /\ Mine(a, "lost") \in SUBSET Requests
      /\ Mine(a, "none") \cap Mine(a, "shared") = {} /\ Mine(a, "none") \cap Mine(a, "lost") = {}
      /\ Mine(a, "shared") \cap Mine(a, "lost") = {}
  BY MineOK
<1> QED  BY <1>1, SomeOK, ThreeFit DEF None0, Shared, Lost

\* A request that leaves.
LEMMA Leaves ==
    ASSUME NEW S, IsFiniteSet(S), NEW r \in S
    PROVE  Cardinality(S \ {r}) = Cardinality(S) - 1 /\ Cardinality(S) \in Nat \ {0}
<1>1. Cardinality(S \ {r}) = Cardinality(S) - 1  BY FS_RemoveElement
<1>2. Cardinality(S) \in Nat /\ Cardinality(S) # 0  BY FS_CardinalityType, FS_EmptySet
<1> QED  BY <1>1, <1>2

\* An address none of whose requests, windows or failures change.
LEMMA AddressAlone ==
    ASSUME NEW a \in Addresses, WithinBound(a), guesses'[a] = guesses[a], fails'[a] = fails[a],
           Running(a)' = Running(a),
           \A w \in {"none", "shared", "lost"} : Mine(a, w)' = Mine(a, w)
    PROVE  WithinBound(a)'
<1>1. None0(a)' = None0(a) /\ Shared(a)' = Shared(a) /\ Lost(a)' = Lost(a)
  BY DEF None0, Shared, Lost
<1> QED  BY <1>1 DEF WithinBound

\* A request that ends without failing.
LEMMA EndWithin ==
    ASSUME NEW a \in Addresses, WithinBound(a), UNCHANGED <<clock, fails, guesses>>, NEW r,
           fails \in [Addresses -> Windows \cup {None}],
           \A w \in {"none", "shared", "lost"} : Mine(a, w)' = Mine(a, w) \ {r}
    PROVE  WithinBound(a)'
<1> DEFINE z == None0(a)
           s == Shared(a)
           l == Lost(a)
           g == guesses[a]
           c == fails[a].count
<1>1. Running(a)' = Running(a)  BY DEF Running
<1>2. /\ z \in Nat /\ s \in Nat /\ l \in Nat /\ z + s + l <= InFlight /\ g \in Nat
  BY MineFit DEF WithinBound
<1>3. \A w \in {"none", "shared", "lost"} : IsFiniteSet(Mine(a, w))  BY MineOK, SomeOK
<1>4. CASE \A w \in {"none", "shared", "lost"} : r \notin Mine(a, w)
  <2>1. \A w \in {"none", "shared", "lost"} : Mine(a, w)' = Mine(a, w)  BY <1>4
  <2> QED  BY <1>1, <2>1, AddressAlone
<1>5. ASSUME NEW v \in {"none", "shared", "lost"}, r \in Mine(a, v)
      PROVE  WithinBound(a)'
  <2>1. \A w \in {"none", "shared", "lost"} : w # v => r \notin Mine(a, w)
    BY <1>5 DEF Mine
  <2>2. \A w \in {"none", "shared", "lost"} : w # v => Mine(a, w)' = Mine(a, w)
    BY <2>1
  <2>3. Cardinality(Mine(a, v)') = Cardinality(Mine(a, v)) - 1 /\ Cardinality(Mine(a, v)) # 0
    <3>1. Mine(a, v)' = Mine(a, v) \ {r}  OBVIOUS
    <3>2. Cardinality(Mine(a, v) \ {r}) = Cardinality(Mine(a, v)) - 1 /\ Cardinality(Mine(a, v)) # 0
      BY <1>3, <1>5, Leaves
    <3> QED  BY <3>1, <3>2
  <2>4. \/ z # 0 /\ None0(a)' = z - 1 /\ Shared(a)' = s /\ Lost(a)' = l
        \/ s # 0 /\ None0(a)' = z /\ Shared(a)' = s - 1 /\ Lost(a)' = l
        \/ l # 0 /\ None0(a)' = z /\ Shared(a)' = s /\ Lost(a)' = l - 1
    BY <2>2, <2>3 DEF None0, Shared, Lost
  <2>5. ASSUME Running(a)
        PROVE  Weight(g, c, None0(a)', Shared(a)', Lost(a)') <= Bound
    <3>1. c \in Nat \ {0}  BY <2>5 DEF Running, Windows
    <3>2. Weight(g, c, z, s, l) <= Bound  BY <2>5 DEF WithinBound
    <3>3. Bound \in Int /\ \A x, y, u \in Nat : Weight(g, c, x, y, u) \in Int
      BY SlotsOK, LoginAssumption, <1>2, <3>1 DEF Bound, Weight
    <3>4. None0(a)' \in Nat /\ Shared(a)' \in Nat /\ Lost(a)' \in Nat
      BY <1>2, <2>4
    <3>5. Weight(g, c, None0(a)', Shared(a)', Lost(a)') <= Weight(g, c, z, s, l)
      <4> HIDE DEF z, s, l, g, c
      <4> QED  BY <1>2, <2>4, <3>1, EndFits
    <3> HIDE DEF z, s, l, g, c
    <3> QED  BY <1>2, <3>2, <3>3, <3>4, <3>5
  <2>6. fails[a] # None /\ ~Running(a) => Mine(a, "shared")' = {} /\ Mine(a, "lost")' = {}
    BY DEF WithinBound
  <2> QED  BY <1>1, <2>5, <2>6 DEF WithinBound
<1> QED  BY <1>4, <1>5

\* What weighs is no less than what was had.
LEMMA WeighsMore ==
    ASSUME NEW g \in Nat, NEW c \in Nat, NEW z \in Nat, NEW s \in Nat, NEW l \in Nat,
           z + s + l <= InFlight
    PROVE  2*g <= Weight(g, c, z, s, l) /\ Weight(g, c, z, s, l) \in Int
<1> DEFINE N == InFlight
           R == 2*z*(Limit - 1) + 2*z*N - z*(z - 1)
           d == 2*N - z + 1
<1>1. N \in Nat /\ Limit - 1 \in Nat /\ z <= N  BY SlotsOK, LoginAssumption
<1>2. d \in Nat /\ z*d \in Nat  BY <1>1
<1>3. z*(Limit - 1) \in Nat  BY <1>1
<1>4. R = 2*(z*(Limit - 1)) + z*d  BY <1>1
<1>5. Weight(g, c, z, s, l)
        = 2*g + 2*l + (IF c < Limit THEN 2*(Limit - 1 - c) + 2*(N - z) ELSE 2*s) + R
  BY <1>1 DEF Weight
<1> HIDE DEF R, d, N
<1>6. R \in Nat  BY <1>2, <1>3, <1>4
<1>7. Limit \in Nat  BY LoginAssumption
<1> QED  BY <1>1, <1>5, <1>6, <1>7

\* Three sets of requests after a step.
LEMMA AfterFit ==
    ASSUME NEW a, NEW z, NEW s, NEW l,
           Mine(a, "none")' = z, Mine(a, "shared")' = s, Mine(a, "lost")' = l,
           z \in SUBSET Requests, s \in SUBSET Requests, l \in SUBSET Requests,
           z \cap s = {}, z \cap l = {}, s \cap l = {}
    PROVE  /\ None0(a)' = Cardinality(z) /\ Shared(a)' = Cardinality(s) /\ Lost(a)' = Cardinality(l)
           /\ None0(a)' \in Nat /\ Shared(a)' \in Nat /\ Lost(a)' \in Nat
           /\ None0(a)' + Shared(a)' + Lost(a)' <= InFlight
<1>1. None0(a)' = Cardinality(z) /\ Shared(a)' = Cardinality(s) /\ Lost(a)' = Cardinality(l)
  BY DEF None0, Shared, Lost
<1>2. /\ Cardinality(z) \in Nat /\ Cardinality(s) \in Nat /\ Cardinality(l) \in Nat
      /\ Cardinality(z) + Cardinality(s) + Cardinality(l) <= InFlight
  BY SomeOK, ThreeFit
<1> QED  BY <1>1, <1>2

\* One more failure in a window that runs, if it weighs no more than before.
LEMMA OneMore ==
    ASSUME NEW a \in Addresses, NEW w0 \in Int, w0 <= Bound, NEW g \in Nat, NEW c \in Nat,
           guesses'[a] = g, fails'[a].count = c, fails'[a] # None, Running(a)',
           None0(a)' \in Nat, Shared(a)' \in Nat, Lost(a)' \in Nat,
           None0(a)' + Shared(a)' + Lost(a)' <= InFlight,
           Weight(g, c, None0(a)', Shared(a)', Lost(a)') <= w0
    PROVE  WithinBound(a)'
<1> DEFINE z == None0(a)'
           s == Shared(a)'
           l == Lost(a)'
<1>1. z \in Nat /\ s \in Nat /\ l \in Nat /\ z + s + l <= InFlight  OBVIOUS
<1>2. Weight(g, c, z, s, l) <= w0  OBVIOUS
<1> HIDE DEF z, s, l
<1>3. 2*g <= Weight(g, c, z, s, l) /\ Weight(g, c, z, s, l) \in Int
  BY <1>1, WeighsMore
<1>4. Bound \in Int  BY SlotsOK, LoginAssumption DEF Bound
<1>5. 2*g <= Bound /\ Weight(g, c, z, s, l) <= Bound  BY <1>2, <1>3, <1>4
<1>6. (Weight(guesses[a], fails[a].count, None0(a), Shared(a), Lost(a)))' = Weight(g, c, z, s, l)
  BY DEF Weight, InFlight, z, s, l
<1>7. Bound' = Bound  BY DEF Bound, InFlight
<1> QED  BY <1>5, <1>6, <1>7 DEF WithinBound

\* Who counted on a list that is replaced counts on none.
LEMMA DetachedMine ==
    ASSUME TypeInv, NEW a \in Addresses, NEW r \in Requests,
           handler' = [Detached(a) EXCEPT ![r] = None]
    PROVE  /\ Mine(a, "none")' = Mine(a, "none") \ {r}
           /\ Mine(a, "shared")' = {}
           /\ Mine(a, "lost")' = (Mine(a, "lost") \cup Mine(a, "shared")) \ {r}
           /\ \A b, w : b # a => Mine(b, w)' = Mine(b, w) \ {r}
<1>1. handler'[r] = None /\ \A q \in Requests : q # r => handler'[q] = Detached(a)[q]
  BY DEF Detached
<1>2. ASSUME NEW q \in Requests, q # r
      PROVE  IF q \in Mine(a, "shared")
             THEN /\ ~Idle(q)' /\ handler'[q].kind = handler[q].kind
                  /\ handler'[q].ip = a /\ handler'[q].win = "lost"
             ELSE handler'[q] = handler[q]
  <2>1. CASE q \in Mine(a, "shared")
    <3>1. handler'[q] = [handler[q] EXCEPT !.win = "lost"]
      BY <1>1, <1>2, <2>1 DEF Detached, Mine
    <3>2. handler[q] \in LoginsUnderWay /\ handler[q].ip = a
      BY <2>1 DEF Mine, TypeInv, FailsInv, HandlerOK
    <3>3. /\ handler'[q] \in LoginsUnderWay /\ handler'[q].win = "lost"
          /\ handler'[q].kind = handler[q].kind /\ handler'[q].ip = a
      BY <3>1, <3>2 DEF LoginsUnderWay
    <3>4. None \notin LoginsUnderWay  BY NoneIsNoLogin
    <3> QED  BY <2>1, <3>3, <3>4 DEF Idle
  <2>2. CASE q \notin Mine(a, "shared")
    BY <1>1, <1>2, <2>2 DEF Detached, Mine
  <2> QED  BY <2>1, <2>2
<1>3. ASSUME NEW b, NEW w PROVE r \notin Mine(b, w)'
  BY <1>1 DEF Mine, Idle
<1>4. ASSUME NEW b, NEW w, NEW q \in Requests, q # r, q \notin Mine(a, "shared")
      PROVE  q \in Mine(b, w)' <=> q \in Mine(b, w)
  BY <1>2, <1>4 DEF Mine, Idle
<1>5. ASSUME NEW b, NEW w, NEW q \in Requests, q # r, q \in Mine(a, "shared")
      PROVE  /\ q \in Mine(b, w)' <=> b = a /\ w = "lost"
             /\ q \in Mine(b, w) <=> b = a /\ w = "shared"
  BY <1>2, <1>5 DEF Mine, Idle
<1>6. \A b, w : Mine(b, w) \subseteq Requests /\ Mine(b, w)' \subseteq Requests
  BY DEF Mine
<1>7. Mine(a, "none")' = Mine(a, "none") \ {r}  BY <1>3, <1>4, <1>5, <1>6
<1>8. Mine(a, "shared")' = {}  BY <1>3, <1>4, <1>5, <1>6
<1>9. Mine(a, "lost")' = (Mine(a, "lost") \cup Mine(a, "shared")) \ {r}
  BY <1>3, <1>4, <1>5, <1>6
<1>10. ASSUME NEW b, NEW w, b # a PROVE Mine(b, w)' = Mine(b, w) \ {r}
  BY <1>3, <1>4, <1>5, <1>6, <1>10
<1> QED  BY <1>7, <1>8, <1>9, <1>10

\* A failure of an address whose window runs.
LEMMA FailRunning ==
    ASSUME TypeInv, GuessInv, NEW r \in Requests, LoginFails(r),
           NEW a \in Addresses, handler[r].ip = a, Running(a)
    PROVE  WithinBound(a)'
<1> DEFINE h == handler[r]
           z == None0(a)
           s == Shared(a)
           l == Lost(a)
           g == guesses[a]
           c == fails[a].count
           Z == Mine(a, "none")
           S == Mine(a, "shared")
           L == Mine(a, "lost")
<1>1. /\ h \in LoginsUnderWay /\ ~Idle(r) /\ h.kind \in Logins
      /\ handler = [q \in Requests |-> handler[q]]
      /\ fails \in [Addresses -> Windows \cup {None}] /\ fails[a] # None
  BY DEF LoginFails, TypeInv, FailsInv, HandlerOK, LoginsUnderWay, Running
<1>2. guesses'[a] = g + 1 /\ clock' = clock
  BY DEF LoginFails, Fail, timeVars, GuessInv
<1>3. /\ z \in Nat /\ s \in Nat /\ l \in Nat /\ z + s + l <= InFlight /\ g \in Nat
      /\ fails[a] \in Windows /\ c \in Nat \ {0} /\ Weight(g, c, z, s, l) <= Bound
      /\ Weight(g, c, z, s, l) \in Int
  <2>1. /\ z \in Nat /\ s \in Nat /\ l \in Nat /\ z + s + l <= InFlight /\ g \in Nat
        /\ fails[a] \in Windows /\ c \in Nat \ {0} /\ Weight(g, c, z, s, l) <= Bound
    BY <1>1, MineFit DEF WithinBound, Windows, GuessInv
  <2> HIDE DEF z, s, l, g, c
  <2> QED  BY <2>1, WeighsMore
<1>4. /\ Z \in SUBSET Requests /\ S \in SUBSET Requests /\ L \in SUBSET Requests
      /\ Z \cap S = {} /\ Z \cap L = {} /\ S \cap L = {}
      /\ IsFiniteSet(Z) /\ IsFiniteSet(S) /\ IsFiniteSet(L)
  <2>1. /\ Z \in SUBSET Requests /\ S \in SUBSET Requests /\ L \in SUBSET Requests
        /\ Z \cap S = {} /\ Z \cap L = {} /\ S \cap L = {}
    BY MineOK
  <2> QED  BY <2>1, SomeOK
<1>5. z = Cardinality(Z) /\ s = Cardinality(S) /\ l = Cardinality(L)
  BY DEF None0, Shared, Lost
<1>6. CASE h.win = "shared"
  <2>1. /\ handler' = [handler EXCEPT ![r] = None]
        /\ fails' = [fails EXCEPT ![a] = [start |-> fails[a].start, count |-> c + 1]]
    BY <1>6 DEF LoginFails, Fail, Begins
  <2>2. r \in S /\ r \notin Z /\ r \notin L  BY <1>1, <1>6 DEF Mine
  <2>3. Mine(a, "none")' = Z /\ Mine(a, "shared")' = S \ {r} /\ Mine(a, "lost")' = L
    BY <1>1, <2>1, <2>2 DEF Mine, Idle
  <2>4. fails'[a] = [start |-> fails[a].start, count |-> c + 1]  BY <1>1, <2>1
  <2>5. fails'[a].count = c + 1 /\ fails'[a].start = fails[a].start /\ fails'[a] \in Windows
    BY <1>3, <2>4 DEF Windows
  <2>6. fails'[a] # None /\ Running(a)'
    BY <1>2, <2>5, WindowsAre DEF Running
  <2>7. Cardinality(S \ {r}) = s - 1 /\ s \in Nat \ {0}  BY <1>4, <1>5, <2>2, Leaves
  <2>8. /\ None0(a)' = z /\ Shared(a)' = s - 1 /\ Lost(a)' = l
        /\ None0(a)' \in Nat /\ Shared(a)' \in Nat /\ Lost(a)' \in Nat
        /\ None0(a)' + Shared(a)' + Lost(a)' <= InFlight
    <3> DEFINE T == S \ {r}
    <3>1. /\ Z \in SUBSET Requests /\ T \in SUBSET Requests /\ L \in SUBSET Requests
          /\ Z \cap T = {} /\ Z \cap L = {} /\ T \cap L = {}
      BY <1>4
    <3>2. /\ Mine(a, "none")' = Z /\ Mine(a, "shared")' = T /\ Mine(a, "lost")' = L
      BY <2>3
    <3>3. Cardinality(T) = s - 1  BY <2>7
    <3> HIDE DEF Z, S, L, T, z, s, l
    <3>4. /\ None0(a)' = Cardinality(Z) /\ Shared(a)' = Cardinality(T)
          /\ Lost(a)' = Cardinality(L)
          /\ None0(a)' \in Nat /\ Shared(a)' \in Nat /\ Lost(a)' \in Nat
          /\ None0(a)' + Shared(a)' + Lost(a)' <= InFlight
      BY <3>1, <3>2, AfterFit
    <3> QED  BY <1>5, <3>3, <3>4
  <2>9. Weight(g + 1, c + 1, None0(a)', Shared(a)', Lost(a)') <= Weight(g, c, z, s, l)
    <3> HIDE DEF z, s, l, g, c
    <3> QED  BY <1>3, <2>7, <2>8, CountedFits
  <2>10. g + 1 \in Nat /\ c + 1 \in Nat  BY <1>3
  <2> HIDE DEF z, s, l, g, c
  <2> QED  BY <1>2, <1>3, <2>5, <2>6, <2>8, <2>9, <2>10, OneMore
<1>7. CASE h.win = "lost"
  <2>1. handler' = [handler EXCEPT ![r] = None] /\ fails' = fails
    BY <1>1, <1>7 DEF LoginFails, Fail, Begins
  <2>2. r \in L /\ r \notin Z /\ r \notin S  BY <1>1, <1>7 DEF Mine
  <2>3. Mine(a, "none")' = Z /\ Mine(a, "shared")' = S /\ Mine(a, "lost")' = L \ {r}
    BY <1>1, <2>1, <2>2 DEF Mine, Idle
  <2>6. fails'[a] # None /\ Running(a)' /\ fails'[a].count = c
    BY <1>1, <1>2, <2>1 DEF Running
  <2>7. Cardinality(L \ {r}) = l - 1 /\ l \in Nat \ {0}  BY <1>4, <1>5, <2>2, Leaves
  <2>8. /\ None0(a)' = z /\ Shared(a)' = s /\ Lost(a)' = l - 1
        /\ None0(a)' \in Nat /\ Shared(a)' \in Nat /\ Lost(a)' \in Nat
        /\ None0(a)' + Shared(a)' + Lost(a)' <= InFlight
    <3>1. L \ {r} \in SUBSET Requests /\ Z \cap (L \ {r}) = {} /\ S \cap (L \ {r}) = {}
      BY <1>4
    <3> HIDE DEF Z, S, L, z, s, l
    <3>2. /\ None0(a)' = Cardinality(Z) /\ Shared(a)' = Cardinality(S)
          /\ Lost(a)' = Cardinality(L \ {r})
          /\ None0(a)' \in Nat /\ Shared(a)' \in Nat /\ Lost(a)' \in Nat
          /\ None0(a)' + Shared(a)' + Lost(a)' <= InFlight
      BY <1>4, <2>3, <3>1, AfterFit
    <3> QED  BY <1>5, <2>7, <3>2
  <2>9. Weight(g + 1, c, None0(a)', Shared(a)', Lost(a)') <= Weight(g, c, z, s, l)
    <3> HIDE DEF z, s, l, g, c
    <3>1. Weight(g + 1, c, z, s, l - 1) = Weight(g, c, z, s, l)  BY <1>3, <2>7, LostFits
    <3> QED  BY <1>3, <2>8, <3>1
  <2>10. g + 1 \in Nat /\ c \in Nat  BY <1>3
  <2> HIDE DEF z, s, l, g, c
  <2> QED  BY <1>2, <1>3, <2>6, <2>8, <2>9, <2>10, OneMore
<1>8. CASE h.win = "none"
  <2>1. /\ handler' = [Detached(a) EXCEPT ![r] = None]
        /\ fails' = [fails EXCEPT ![a] = [start |-> clock, count |-> 1]]
    BY <1>8 DEF LoginFails, Fail, Begins
  <2>2. r \in Z /\ r \notin S /\ r \notin L  BY <1>1, <1>8 DEF Mine
  <2>3. Mine(a, "none")' = Z \ {r} /\ Mine(a, "shared")' = {} /\ Mine(a, "lost")' = L \cup S
    <3>1. /\ Z' = Z \ {r} /\ S' = {} /\ L' = (L \cup S) \ {r}
      BY <2>1, DetachedMine
    <3> QED  BY <2>2, <3>1
  <2>4. fails'[a] = [start |-> clock, count |-> 1]  BY <1>1, <2>1
  <2>5. fails'[a].count = 1 /\ fails'[a].start = clock /\ fails'[a] \in Windows
    BY <2>4 DEF Windows, TypeInv, RestInv
  <2>6. fails'[a] # None /\ Running(a)'
    BY <1>2, <2>5, WindowsAre, LoginAssumption DEF Running, TypeInv, RestInv
  <2>7. Cardinality(Z \ {r}) = z - 1 /\ z \in Nat \ {0}  BY <1>4, <1>5, <2>2, Leaves
  <2>8. Cardinality(L \cup S) = l + s  BY <1>4, <1>5, Apart
  <2>9. /\ None0(a)' = z - 1 /\ Shared(a)' = 0 /\ Lost(a)' = l + s
        /\ None0(a)' \in Nat /\ Shared(a)' \in Nat /\ Lost(a)' \in Nat
        /\ None0(a)' + Shared(a)' + Lost(a)' <= InFlight
    <3>1. /\ Z \ {r} \in SUBSET Requests /\ {} \in SUBSET Requests /\ L \cup S \in SUBSET Requests
          /\ (Z \ {r}) \cap {} = {} /\ (Z \ {r}) \cap (L \cup S) = {} /\ {} \cap (L \cup S) = {}
      BY <1>4
    <3> HIDE DEF Z, S, L, z, s, l
    <3>2. /\ None0(a)' = Cardinality(Z \ {r}) /\ Shared(a)' = Cardinality({})
          /\ Lost(a)' = Cardinality(L \cup S)
          /\ None0(a)' \in Nat /\ Shared(a)' \in Nat /\ Lost(a)' \in Nat
          /\ None0(a)' + Shared(a)' + Lost(a)' <= InFlight
      BY <2>3, <3>1, AfterFit
    <3>3. Cardinality({}) = 0  BY FS_EmptySet
    <3> QED  BY <2>7, <2>8, <3>2, <3>3
  <2>10. Weight(g + 1, 1, None0(a)', Shared(a)', Lost(a)') <= Weight(g, c, z, s, l)
    <3> HIDE DEF z, s, l, g, c
    <3>1. Weight(g + 1, 1, z - 1, 0, l + s) <= Weight(g, c, z, s, l)
      BY <1>3, <2>7, AgainFits
    <3> QED  BY <2>9, <3>1
  <2>11. g + 1 \in Nat /\ 1 \in Nat  BY <1>3
  <2> HIDE DEF z, s, l, g, c
  <2> QED  BY <1>2, <1>3, <2>5, <2>6, <2>9, <2>10, <2>11, OneMore
<1> QED  BY <1>1, <1>6, <1>7, <1>8 DEF LoginsUnderWay

\* A failure of an address whose window does not run begins one, or is the first
\* of none.
LEMMA FailStarts ==
    ASSUME TypeInv, GuessInv, NEW r \in Requests, LoginFails(r),
           NEW a \in Addresses, handler[r].ip = a, ~Running(a)
    PROVE  WithinBound(a)'
<1> DEFINE h == handler[r]
           Z == Mine(a, "none")
           L == Mine(a, "lost")
<1>1. /\ h \in LoginsUnderWay /\ ~Idle(r) /\ h.kind \in Logins /\ h.win # "shared"
      /\ handler = [q \in Requests |-> handler[q]]
      /\ fails \in [Addresses -> Windows \cup {None}]
  BY DEF LoginFails, TypeInv, FailsInv, HandlerOK
<1>2. guesses'[a] = 1 /\ clock' = clock /\ WithinBound(a)
  BY DEF LoginFails, Fail, timeVars, GuessInv
<1>3. Mine(a, "shared") = {}  BY DEF Mine, TypeInv, FailsInv, HandlerOK
<1>4. /\ Z \in SUBSET Requests /\ L \in SUBSET Requests /\ Z \cap L = {}
      /\ IsFiniteSet(Z) /\ IsFiniteSet(L)
  <2>1. Z \in SUBSET Requests /\ L \in SUBSET Requests /\ Z \cap L = {}  BY MineOK
  <2> QED  BY <2>1, SomeOK
<1>5. InFlight # 0
  <2>1. Requests # {} /\ IsFiniteSet(Requests)  BY LoginAssumption
  <2> QED  BY <2>1, FS_EmptySet DEF InFlight
<1>6. CASE h.win = "lost"
  <2>1. fails' = fails  BY <1>1, <1>6 DEF LoginFails, Fail, Begins
  <2>2. r \in L  BY <1>1, <1>6 DEF Mine
  <2>3. fails[a] = None  BY <1>2, <2>2 DEF WithinBound
  <2>4. fails'[a] = None /\ ~Running(a)'  BY <2>1, <2>3 DEF Running
  <2>5. 2*1 <= Bound  BY <1>5, OneFits
  <2>6. Bound' = Bound  BY DEF Bound, InFlight
  <2> QED  BY <1>2, <2>4, <2>5, <2>6 DEF WithinBound
<1>7. CASE h.win = "none"
  <2> DEFINE T == Z \ {r}
  <2>1. /\ handler' = [Detached(a) EXCEPT ![r] = None]
        /\ fails' = [fails EXCEPT ![a] = [start |-> clock, count |-> 1]]
    BY <1>7 DEF LoginFails, Fail, Begins
  <2>2. r \in Z /\ r \notin L  BY <1>1, <1>7 DEF Mine
  <2>3. Mine(a, "none")' = T /\ Mine(a, "shared")' = {} /\ Mine(a, "lost")' = L
    <3>1. Z' = Z \ {r} /\ Mine(a, "shared")' = {} /\ L' = (L \cup Mine(a, "shared")) \ {r}
      BY <2>1, DetachedMine
    <3> QED  BY <1>3, <2>2, <3>1
  <2>4. fails'[a] = [start |-> clock, count |-> 1]  BY <1>1, <2>1
  <2>5. fails'[a].count = 1 /\ fails'[a].start = clock /\ fails'[a] \in Windows
    BY <2>4 DEF Windows, TypeInv, RestInv
  <2>6. fails'[a] # None /\ Running(a)'
    BY <1>2, <2>5, WindowsAre, LoginAssumption DEF Running, TypeInv, RestInv
  <2>7. Cardinality(T) = Cardinality(Z) - 1 /\ Cardinality(Z) \in Nat \ {0}
    BY <1>4, <2>2, Leaves
  <2>8. /\ T \in SUBSET Requests /\ {} \in SUBSET Requests /\ L \in SUBSET Requests
        /\ T \cap {} = {} /\ T \cap L = {} /\ {} \cap L = {} /\ Z \cap {} = {}
    BY <1>4
  <2>9. Cardinality({}) = 0  BY FS_EmptySet
  <2>10. Cardinality(Z) + Cardinality({}) + Cardinality(L) <= InFlight /\ Cardinality(L) \in Nat
    <3> HIDE DEF Z, L
    <3> QED  BY <1>4, <2>8, SomeOK, ThreeFit
  <2> HIDE DEF Z, L, T
  <2>11. /\ None0(a)' = Cardinality(T) /\ Shared(a)' = Cardinality({})
         /\ Lost(a)' = Cardinality(L)
         /\ None0(a)' \in Nat /\ Shared(a)' \in Nat /\ Lost(a)' \in Nat
         /\ None0(a)' + Shared(a)' + Lost(a)' <= InFlight
    <3>1. /\ T \in SUBSET Requests /\ {} \in SUBSET Requests /\ L \in SUBSET Requests
          /\ T \cap {} = {} /\ T \cap L = {} /\ {} \cap L = {}
      BY <2>8
    <3> QED  BY <2>3, <3>1, AfterFit
  <2> DEFINE z == Cardinality(T)
             l == Cardinality(L)
  <2>12. z \in Nat /\ l \in Nat /\ z + l + 1 <= InFlight
    BY <2>7, <2>9, <2>10, SlotsOK
  <2>13. /\ None0(a)' = z /\ Shared(a)' = 0 /\ Lost(a)' = l
    BY <2>9, <2>11
  <2> HIDE DEF z, l
  <2>14. Weight(1, 1, z, 0, l) <= Bound  BY <2>12, FirstFits
  <2>15. Weight(1, 1, None0(a)', Shared(a)', Lost(a)') <= Bound  BY <2>13, <2>14
  <2>16. Bound \in Int /\ Bound <= Bound  BY SlotsOK, LoginAssumption DEF Bound
  <2>17. 1 \in Nat  OBVIOUS
  <2> QED  BY <1>2, <2>5, <2>6, <2>11, <2>15, <2>16, <2>17, OneMore
<1> QED  BY <1>1, <1>6, <1>7 DEF LoginsUnderWay

\* A slot that is freed, or taken by a request that is no login.
LEMMA SlotFreed ==
    ASSUME TypeInv, NEW r \in Requests, NEW h, h = None \/ h.kind \notin Logins,
           handler' = [handler EXCEPT ![r] = h]
    PROVE  \A b, w : Mine(b, w)' = Mine(b, w) \ {r}
<1>1. handler'[r] = h /\ \A q \in Requests : q # r => handler'[q] = handler[q]
  BY DEF TypeInv, FailsInv
<1> QED  BY <1>1 DEF Mine, Idle

\* A login of one address does nothing to another.
LEMMA OtherAddress ==
    ASSUME TypeInv, GuessInv, NEW r \in Requests, NEW a \in Addresses,
           ~Idle(r), handler[r].ip = a, UNCHANGED clock,
           handler' = [handler EXCEPT ![r] = None] \/ handler' = [Detached(a) EXCEPT ![r] = None],
           NEW b \in Addresses, b # a, fails'[b] = fails[b], guesses'[b] = guesses[b]
    PROVE  WithinBound(b)'
<1>1. \A w : Mine(b, w)' = Mine(b, w) \ {r}
  <2>1. CASE handler' = [handler EXCEPT ![r] = None]
    BY <2>1, SlotFreed
  <2>2. CASE handler' = [Detached(a) EXCEPT ![r] = None]
    <3>1. \A x, w : x # a => Mine(x, w)' = Mine(x, w) \ {r}  BY <2>2, DetachedMine
    <3> QED  BY <3>1
  <2> QED  BY <2>1, <2>2
<1>2. \A w : r \notin Mine(b, w)  BY DEF Mine
<1>3. \A w \in {"none", "shared", "lost"} : Mine(b, w)' = Mine(b, w)
  BY <1>1, <1>2
<1>4. Running(b)' = Running(b)  BY DEF Running
<1> QED  BY <1>3, <1>4, AddressAlone DEF GuessInv

\* A login that fails.
LEMMA FailBounded ==
    ASSUME TypeInv, GuessInv, NEW r \in Requests, LoginFails(r)
    PROVE  GuessInv'
<1>1. PICK a \in Addresses : handler[r].ip = a /\ ~Idle(r)
  BY DEF LoginFails, TypeInv, FailsInv, HandlerOK, LoginsUnderWay
<1>2. /\ clock' = clock
      /\ guesses' = [guesses EXCEPT ![a] = IF Running(a) THEN @ + 1 ELSE 1]
      /\ handler' = [handler EXCEPT ![r] = None] \/ handler' = [Detached(a) EXCEPT ![r] = None]
  BY <1>1 DEF LoginFails, Fail, timeVars
<1>3. \A b \in Addresses : b # a => fails'[b] = fails[b] /\ guesses'[b] = guesses[b]
  BY <1>1, <1>2 DEF LoginFails, Fail, TypeInv, FailsInv, GuessInv
<1>4. ASSUME NEW b \in Addresses, b # a PROVE WithinBound(b)'
  BY <1>1, <1>2, <1>3, <1>4, OtherAddress
<1>5. WithinBound(a)'  BY <1>1, FailRunning, FailStarts
<1> QED  BY <1>2, <1>4, <1>5 DEF GuessInv

\* A login that succeeds: the address has no window and no failures.
LEMMA ForgiveBounded ==
    ASSUME TypeInv, GuessInv, NEW r \in Requests, ~Idle(r), handler[r].kind \in Logins,
           Forgive(r), UNCHANGED timeVars
    PROVE  GuessInv'
<1>1. PICK a \in Addresses : handler[r].ip = a
  BY DEF TypeInv, FailsInv, HandlerOK, LoginsUnderWay
<1>2. /\ clock' = clock /\ fails' = [fails EXCEPT ![a] = None]
      /\ guesses' = [guesses EXCEPT ![a] = 0]
      /\ handler' = [Detached(a) EXCEPT ![r] = None]
  BY <1>1 DEF Forgive, timeVars
<1>3. \A b \in Addresses : b # a => fails'[b] = fails[b] /\ guesses'[b] = guesses[b]
  BY <1>2 DEF TypeInv, FailsInv, GuessInv
<1>4. ASSUME NEW b \in Addresses, b # a PROVE WithinBound(b)'
  BY <1>1, <1>2, <1>3, <1>4, OtherAddress
<1>5. WithinBound(a)'
  <2>1. fails'[a] = None /\ guesses'[a] = 0 /\ ~Running(a)'
    BY <1>2 DEF TypeInv, FailsInv, GuessInv, Running
  <2>2. guesses[a] \in Nat /\ 2*guesses[a] <= Bound /\ Bound \in Int
    BY SlotsOK, LoginAssumption DEF GuessInv, WithinBound, Bound
  <2>3. 2*0 <= Bound  BY <2>2
  <2>4. Bound' = Bound  BY DEF Bound, InFlight
  <2> QED  BY <2>1, <2>3, <2>4 DEF WithinBound
<1> QED  BY <1>2, <1>4, <1>5 DEF GuessInv

\* A request that ends, or one that is no login, adds nothing.
LEMMA SlotFreedBounded ==
    ASSUME TypeInv, GuessInv, NEW r \in Requests, NEW h, h = None \/ h.kind \notin Logins,
           handler' = [handler EXCEPT ![r] = h], UNCHANGED <<clock, fails, guesses>>
    PROVE  GuessInv'
<1>1. fails \in [Addresses -> Windows \cup {None}]  BY DEF TypeInv, FailsInv
<1>2. \A b, w : Mine(b, w)' = Mine(b, w) \ {r}  BY SlotFreed
<1>3. ASSUME NEW a \in Addresses PROVE WithinBound(a)'
  <2>1. WithinBound(a)  BY DEF GuessInv
  <2> QED  BY <1>1, <1>2, <2>1, EndWithin
<1> QED  BY <1>3 DEF GuessInv

\* A login that begins joins a window that is not full, or finds none.
LEMMA BeginBounded ==
    ASSUME TypeInv, GuessInv, NEW r \in Requests, NEW kind \in Logins, NEW a \in Addresses,
           BeginLogin(r, kind, a)
    PROVE  GuessInv'
<1> DEFINE v == IF Running(a) THEN "shared" ELSE "none"
           h == [kind |-> kind, ip |-> a,
                 secret |-> IF kind = "admin" THEN secrets.active ELSE 0, win |-> v]
           z == None0(a)
           s == Shared(a)
           l == Lost(a)
           g == guesses[a]
           c == fails[a].count
           Z == Mine(a, "none")
           S == Mine(a, "shared")
           L == Mine(a, "lost")
<1>1. /\ handler' = [handler EXCEPT ![r] = h] /\ UNCHANGED <<clock, fails, guesses>>
      /\ Idle(r) /\ ~Full(a)
  BY DEF BeginLogin, Await, timeVars, failVars
<1>2. h \in LoginsUnderWay
  BY DEF LoginsUnderWay, TypeInv, RestInv
<1>3. /\ handler'[r] = h /\ ~Idle(r)'
      /\ h.kind \in Logins /\ h.ip = a /\ h.win = v
  BY <1>1, <1>2, NoneIsNoLogin DEF TypeInv, FailsInv, Idle
<1>4. ASSUME NEW q \in Requests, q # r PROVE handler'[q] = handler[q]
  BY <1>1, <1>4 DEF TypeInv, FailsInv
<1> HIDE DEF h
<1>5. ASSUME NEW b, NEW w
      PROVE  Mine(b, w)' = IF b = a /\ w = v THEN Mine(b, w) \cup {r} ELSE Mine(b, w)
  <2>1. r \in Mine(b, w)' <=> b = a /\ w = v  BY <1>3 DEF Mine
  <2>2. r \notin Mine(b, w)  BY <1>1 DEF Mine
  <2>3. ASSUME NEW q \in Requests, q # r PROVE q \in Mine(b, w)' <=> q \in Mine(b, w)
    BY <1>4, <2>3 DEF Mine, Idle
  <2>4. Mine(b, w) \subseteq Requests /\ Mine(b, w)' \subseteq Requests  BY DEF Mine
  <2> HIDE DEF v
  <2> QED  BY <2>1, <2>2, <2>3, <2>4
<1>6. ASSUME NEW b \in Addresses, b # a PROVE WithinBound(b)'
  <2>1. \A w \in {"none", "shared", "lost"} : Mine(b, w)' = Mine(b, w)
    BY <1>5, <1>6
  <2>2. Running(b)' = Running(b)  BY <1>1 DEF Running
  <2> QED  BY <1>1, <2>1, <2>2, AddressAlone DEF GuessInv
<1>7. Running(a)' = Running(a)  BY <1>1 DEF Running
<1>8. CASE ~Running(a)
  <2>1. Mine(a, "shared")' = Mine(a, "shared") /\ Mine(a, "lost")' = Mine(a, "lost")
    BY <1>5, <1>8
  <2>2. Bound' = Bound /\ WithinBound(a)  BY DEF Bound, InFlight, GuessInv
  <2>3. (Weight(guesses[a], fails[a].count, 0, 0, 0))' = Weight(g, c, 0, 0, 0)
    BY <1>1 DEF Weight, InFlight
  <2> HIDE DEF z, s, l, g, c
  <2>4. WithinBound(a)'
    BY <1>1, <1>7, <1>8, <2>1, <2>2, <2>3 DEF WithinBound, g, c
  <2> QED  BY <1>1, <1>6, <2>4 DEF GuessInv
<1>9. CASE Running(a)
  <2> DEFINE T == S \cup {r}
  <2>1. Mine(a, "none")' = Z /\ Mine(a, "shared")' = T /\ Mine(a, "lost")' = L
    BY <1>5, <1>9
  <2>2. /\ Z \in SUBSET Requests /\ S \in SUBSET Requests /\ L \in SUBSET Requests
        /\ Z \cap S = {} /\ Z \cap L = {} /\ S \cap L = {}
        /\ r \notin Z /\ r \notin S /\ r \notin L
    <3>1. /\ Z \in SUBSET Requests /\ S \in SUBSET Requests /\ L \in SUBSET Requests
          /\ Z \cap S = {} /\ Z \cap L = {} /\ S \cap L = {}
      BY MineOK
    <3>2. r \notin Z /\ r \notin S /\ r \notin L  BY <1>1 DEF Mine
    <3> QED  BY <3>1, <3>2
  <2>3. Cardinality(T) = Cardinality(S) + 1
    <3>1. IsFiniteSet(S)  BY <2>2, SomeOK
    <3> HIDE DEF S
    <3> QED  BY <2>2, <3>1, FS_AddElement
  <2>4. /\ Z \in SUBSET Requests /\ T \in SUBSET Requests /\ L \in SUBSET Requests
        /\ Z \cap T = {} /\ Z \cap L = {} /\ T \cap L = {}
    BY <2>2
  <2>5. /\ z \in Nat /\ s \in Nat /\ l \in Nat /\ z + s + l <= InFlight /\ g \in Nat
        /\ c \in Nat \ {0} /\ Weight(g, c, z, s, l) <= Bound /\ c < Limit
        /\ fails[a] # None
    <3>1. fails[a] \in Windows /\ fails[a] # None
      BY <1>9 DEF TypeInv, FailsInv, Running
    <3>2. c \in Nat \ {0}  BY <3>1 DEF Windows
    <3>3. c < Limit  BY <1>1, <1>9, <3>2, LoginAssumption DEF Full
    <3> QED  BY <1>9, <3>1, <3>2, <3>3, MineFit DEF WithinBound, GuessInv
  <2>6. z = Cardinality(Z) /\ s = Cardinality(S) /\ l = Cardinality(L)
    BY DEF None0, Shared, Lost
  <2>7. guesses'[a] = g /\ fails'[a].count = c /\ fails'[a] # None /\ Running(a)'
    BY <1>1, <1>7, <1>9, <2>5
  <2> HIDE DEF z, s, l, g, c, Z, S, L, T
  <2>8. /\ None0(a)' = Cardinality(Z) /\ Shared(a)' = Cardinality(T)
        /\ Lost(a)' = Cardinality(L)
        /\ None0(a)' \in Nat /\ Shared(a)' \in Nat /\ Lost(a)' \in Nat
        /\ None0(a)' + Shared(a)' + Lost(a)' <= InFlight
    BY <2>1, <2>4, AfterFit
  <2>9. Weight(g, c, z, s + 1, l) = Weight(g, c, z, s, l)  BY <2>5, EndFits
  <2>10. None0(a)' = z /\ Shared(a)' = s + 1 /\ Lost(a)' = l  BY <2>3, <2>6, <2>8
  <2>11. Weight(g, c, None0(a)', Shared(a)', Lost(a)') <= Weight(g, c, z, s, l)
         /\ Weight(g, c, z, s, l) \in Int
    <3>1. Weight(g, c, z, s, l) \in Int  BY <2>5, WeighsMore
    <3> QED  BY <2>9, <2>10, <3>1
  <2>12. c \in Nat  BY <2>5
  <2>13. WithinBound(a)'  BY <2>5, <2>7, <2>8, <2>11, <2>12, OneMore
  <2> QED  BY <1>1, <1>6, <2>13 DEF GuessInv
<1> QED  BY <1>8, <1>9

\* Time passes while no request is under way: a window may end, and run again.
LEMMA TimeBounded == ASSUME TypeInv, GuessInv, Tick \/ SetBack PROVE GuessInv'
<1>1. UNCHANGED <<fails, guesses, handler>> /\ \A r \in Requests : Idle(r) /\ Idle(r)'
  BY DEF Tick, SetBack, Quiet, failVars, Idle
<1>2. \A b, w : Mine(b, w) = {} /\ Mine(b, w)' = {}  BY <1>1 DEF Mine
<1>3. Cardinality({}) = 0  BY FS_EmptySet
<1>4. ASSUME NEW a \in Addresses PROVE WithinBound(a)'
  <2>1. /\ None0(a) = 0 /\ Shared(a) = 0 /\ Lost(a) = 0
        /\ None0(a)' = 0 /\ Shared(a)' = 0 /\ Lost(a)' = 0
    BY <1>2, <1>3 DEF None0, Shared, Lost
  <2>2. fails[a] # None => Weight(guesses[a], fails[a].count, 0, 0, 0) <= Bound
    BY <2>1 DEF GuessInv, WithinBound
  <2>3. fails'[a] # None => (Weight(guesses[a], fails[a].count, 0, 0, 0))' <= Bound'
    BY <1>1, <2>2 DEF Weight, Bound, InFlight
  <2>4. (Weight(guesses[a], fails[a].count, None0(a), Shared(a), Lost(a)))'
          = (Weight(guesses[a], fails[a].count, 0, 0, 0))'
    BY <2>1 DEF Weight
  <2>5. Running(a)' => fails'[a] # None  BY DEF Running
  <2>6. guesses'[a] \in Nat /\ 2*guesses'[a] <= Bound'
    BY <1>1 DEF GuessInv, WithinBound, Bound, InFlight
  <2> QED  BY <1>2, <2>3, <2>4, <2>5, <2>6 DEF WithinBound
<1> QED  BY <1>1, <1>4 DEF GuessInv

\* A step that has nothing to do with logins.
LEMMA AloneBounded ==
    ASSUME GuessInv, UNCHANGED <<clock, fails, guesses, handler>>
    PROVE  GuessInv'
<1>1. ASSUME NEW a \in Addresses PROVE WithinBound(a)'
  <2>1. \A w \in {"none", "shared", "lost"} : Mine(a, w)' = Mine(a, w)  BY DEF Mine, Idle
  <2>2. Running(a)' = Running(a)  BY DEF Running
  <2> QED  BY <2>1, <2>2, AddressAlone DEF GuessInv
<1> QED  BY <1>1 DEF GuessInv

\* No step takes an address beyond what it can come to.
LEMMA GuessStep == ASSUME TypeInv, GuessInv, [Next]_vars PROVE GuessInv'
<1>1. ASSUME NEW r \in Requests, NEW kind \in Logins, NEW ip \in Addresses, BeginLogin(r, kind, ip)
      PROVE  GuessInv'
  BY <1>1, BeginBounded
<1>2. ASSUME NEW r \in Requests, KeyLoggedIn(r) PROVE GuessInv'
  <2>1. handler[r].kind \in Logins  BY <1>2 DEF KeyLoggedIn, Logins
  <2> QED  BY <1>2, <2>1, ForgiveBounded DEF KeyLoggedIn
<1>3. ASSUME NEW r \in Requests, LoginFails(r) PROVE GuessInv'
  BY <1>3, FailBounded
<1>4. ASSUME NEW r \in Requests, LoginEnds(r) \/ ChangeFails(r) PROVE GuessInv'
  <2>1. handler' = [handler EXCEPT ![r] = None] /\ UNCHANGED <<clock, fails, guesses>>
    BY <1>4 DEF LoginEnds, ChangeFails, Done, timeVars, failVars
  <2> QED  BY <2>1, SlotFreedBounded
<1>5. ASSUME NEW r \in Requests, NEW code \in Codes, AdminLoggedIn(r, code) PROVE GuessInv'
  <2>1. handler[r].kind \in Logins  BY <1>5 DEF AdminLoggedIn, Logins
  <2> QED  BY <1>5, <2>1, ForgiveBounded DEF AdminLoggedIn
<1>6. ASSUME NEW r \in Requests, NEW code \in Codes, Confirm(r, code) \/ Disable(r, code)
      PROVE  GuessInv'
  <2>1. handler' = [handler EXCEPT ![r] = None] /\ UNCHANGED <<clock, fails, guesses>>
    BY <1>6 DEF Confirm, Disable, Done, timeVars, failVars
  <2> QED  BY <2>1, SlotFreedBounded
<1>7. ASSUME NEW r \in Requests, NEW kind \in {"confirm", "disable"}, BeginChange(r, kind)
      PROVE  GuessInv'
  <2> DEFINE h == [kind |-> kind, secret |-> secrets.active]
  <2>1. /\ handler' = [handler EXCEPT ![r] = h] /\ UNCHANGED <<clock, fails, guesses>>
        /\ h.kind \notin Logins
    BY <1>7 DEF BeginChange, Await, timeVars, failVars, Logins
  <2> HIDE DEF h
  <2> QED  BY <2>1, SlotFreedBounded
<1>8. ASSUME NEW s \in Sessions, Logout(s) PROVE GuessInv'
  BY <1>8, AloneBounded DEF Logout, timeVars, failVars
<1>9. CASE Setup  BY <1>9, AloneBounded DEF Setup, timeVars, failVars
<1>10. CASE Tick \/ SetBack  BY <1>10, TimeBounded
<1>11. CASE UNCHANGED vars  BY <1>11, AloneBounded DEF vars, timeVars, failVars
<1> QED  BY <1>1, <1>2, <1>3, <1>4, <1>5, <1>6, <1>7, <1>8, <1>9, <1>10, <1>11 DEF Next

\* However logins of one address interleave (api_admin_login, api_login await
\* between reading its window and counting on it), the failures it is allowed while
\* a window runs are bounded: at most Limit - 1 for each window a request in flight
\* may still begin, and one for each request that was under way then.
THEOREM GuessesAreBounded == Spec => []GuessesBounded
<1>1. Init => TypeInv /\ GuessInv
  <2>1. ASSUME Init PROVE TypeInv
    BY <2>1, LoginAssumption DEF Init, TypeInv, FailsInv, RestInv, HandlerOK, Idle
  <2>2. ASSUME Init PROVE GuessInv
    <3>1. Bound \in Int /\ 0 <= Bound
      <4>1. InFlight \in Nat /\ Limit - 1 \in Nat  BY SlotsOK, LoginAssumption
      <4>2. InFlight*(Limit - 1) \in Nat /\ InFlight*(InFlight + 1) \in Nat  BY <4>1
      <4>3. Bound = 2*(InFlight*(Limit - 1)) + InFlight*(InFlight + 1)  BY <4>1 DEF Bound
      <4> QED  BY <4>2, <4>3
    <3>2. ASSUME NEW a \in Addresses PROVE WithinBound(a)
      <4>1. fails[a] = None /\ guesses[a] = 0 /\ ~Running(a)  BY <2>2 DEF Init, Running
      <4> QED  BY <3>1, <4>1 DEF WithinBound
    <3> QED  BY <2>2, <3>2 DEF Init, GuessInv
  <2> QED  BY <2>1, <2>2
<1>2. TypeInv /\ GuessInv /\ [Next]_vars => TypeInv' /\ GuessInv'
  BY TypeStep, GuessStep
<1>3. TypeInv /\ GuessInv => GuessesBounded
  BY HalfBound DEF GuessInv, WithinBound, GuessesBounded
<1> QED  BY <1>1, <1>2, <1>3, PTL DEF Spec
===============================================================================
