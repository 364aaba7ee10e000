------------------------------ MODULE AdminLogin ------------------------------
(***************************************************************************)
(* console/console.py: logins with their window of failures, one-time      *)
(* codes, sessions and the management of the second factor.                *)
(*                                                                         *)
(* A handler runs alone until it awaits: the body of its request, or       *)
(* LiteLLM.  A request in a slot is a handler that awaits; it remembers    *)
(* what the handler read before.  Time goes in steps of 30 seconds.        *)
(***************************************************************************)
EXTENDS Integers, FiniteSets

CONSTANTS
    None,
    Requests,      \* slots for requests under way
    Addresses,     \* client_ip
    Sessions,      \* session ids
    Limit, Window, \* LOGIN_FAIL_LIMIT, LOGIN_WINDOW in steps
    TTL,           \* SESSION_TTL in steps
    MaxClock,      \* bound: steps
    MaxSecrets     \* bound: secrets set up

Logins == {"admin", "key"}
\* ADMIN_EMAIL and ADMIN_PASSWORD are both set, or the address alone, or not even that.
Accounts == {"full", "address", "none"}

ASSUME LoginAssumption ==
    /\ Limit \in Nat \ {0} /\ Window \in Nat \ {0} /\ TTL \in Nat
    /\ IsFiniteSet(Requests)
    /\ MaxClock \in Nat \ {0} /\ MaxSecrets \in Nat
    /\ None \notin [start : Nat, count : Nat]
    /\ None \notin [kind : Logins, ip : Addresses, secret : Nat, win : {"none", "shared", "lost"}]

VARIABLES
    account,       \* console.env: the administrator's account, fixed while console runs
    clock, high,   \* the time now, and the latest it has been
    fails,         \* _login_fails: start and count of the window of an address
    used,          \* _totp_used: steps whose codes were accepted
    secrets,       \* the state file: the secret in force, the pending one, 0: none
    issued,        \* how many secrets were set up
    sessions,      \* sessions.db: role and expiry
    handler,       \* requests under way
    proofs,        \* history: codes accepted, by secret and step
    reused,        \* history: whether one was accepted again
    guesses        \* history: failures of an address in its present window

timeVars == <<account, clock, high>>
failVars == <<fails, guesses>>
codeVars == <<used, proofs, reused>>
vars == <<timeVars, failVars, codeVars, secrets, issued, sessions, handler>>

Idle(r) == handler[r] = None

(* ---- One-time codes ------------------------------------------------------- *)

\* A code is the secret and the step it was made for.
Codes == [secret : 1..MaxSecrets, step : 0..MaxClock + 1]

\* A slip: what is out of tolerance now is forgotten at once.
Forgotten_Early(k) == k < clock - 1
Forgotten(k) == k < clock - 2

\* totp_verify: a step of tolerance each way; a step counts once, for all secrets.
Verifies(secret, code) ==
    /\ code.secret = secret
    /\ code.step \in clock - 1..clock + 1
    /\ code.step \notin used

Accept(code) ==
    /\ used' = {k \in used : ~Forgotten(k)} \cup {code.step}
    /\ proofs' = {c \in proofs : c.step >= clock - 2} \cup {code}
    /\ reused' = (reused \/ code \in proofs)

(* ---- The window of failures ------------------------------------------------ *)

Running(ip) == fails[ip] # None /\ clock - fails[ip].start < Window
Full(ip) == Running(ip) /\ fails[ip].count >= Limit

\* A handler keeps the list it read when it began.  Once the address has
\* another list or none, what is counted on it is lost.
Detached(ip) ==
    [r \in Requests |-> IF ~Idle(r) /\ handler[r].kind \in Logins /\ handler[r].ip = ip
                           /\ handler[r].win = "shared"
                        THEN [handler[r] EXCEPT !.win = "lost"] ELSE handler[r]]

\* A slip: every failure begins a window.
Begins_Always(h) == TRUE
\* A handler that found no window begins one, whatever there is by now.
Begins(h) == h.win = "none"

Fail(r) ==
    LET h == handler[r]
        old == fails[h.ip]
    IN /\ fails' = [fails EXCEPT ![h.ip] =
                      IF Begins(h) THEN [start |-> clock, count |-> 1]
                      ELSE IF h.win = "shared" THEN [start |-> old.start, count |-> old.count + 1]
                      ELSE @]
       /\ handler' = [IF Begins(h) THEN Detached(h.ip) ELSE handler EXCEPT ![r] = None]
       /\ guesses' = [guesses EXCEPT ![h.ip] = IF Running(h.ip) THEN @ + 1 ELSE 1]

\* _login_fails.pop
Forgive(r) ==
    LET ip == handler[r].ip
    IN /\ fails' = [fails EXCEPT ![ip] = None]
       /\ handler' = [Detached(ip) EXCEPT ![r] = None]
       /\ guesses' = [guesses EXCEPT ![ip] = 0]

(* ---- Sessions ---------------------------------------------------------------- *)

\* session_of
Valid(s) == sessions[s] # None /\ sessions[s].exp >= clock
Admin == \E s \in Sessions : Valid(s) /\ sessions[s].role = "admin"

\* _start_session: a new id.
StartSession(role) ==
    \E s \in Sessions : /\ ~Valid(s)
                        /\ sessions' = [sessions EXCEPT ![s] = [role |-> role, exp |-> clock + TTL]]

\* api_logout
Logout(s) ==
    /\ Valid(s)
    /\ sessions' = [sessions EXCEPT ![s] = None]
    /\ UNCHANGED <<timeVars, failVars, codeVars, secrets, issued, handler>>

(* ---- Handlers ------------------------------------------------------------------ *)

Await(r, h) ==
    /\ handler' = [handler EXCEPT ![r] = h]
    /\ UNCHANGED <<timeVars, failVars, codeVars, secrets, issued, sessions>>

Done(r) == handler' = [handler EXCEPT ![r] = None]

\* api_admin_login and api_login, up to the first await: refused while the window
\* of the address is full, the former also unless there is an account.
BeginLogin(r, kind, ip) ==
    /\ Idle(r)
    /\ ~Full(ip)
    /\ kind = "admin" => account = "full"
    /\ Await(r, [kind |-> kind, ip |-> ip,
                 secret |-> IF kind = "admin" THEN secrets.active ELSE 0,
                 win |-> IF Running(ip) THEN "shared" ELSE "none"])

\* A slip: whether a code is needed was read before the await.
Needed_Early(h) == h.secret
Needed(h) == secrets.active

\* The rest of api_admin_login: password, then the code of the secret in force.
AdminLoggedIn(r, code) ==
    /\ ~Idle(r) /\ handler[r].kind = "admin"
    /\ LET secret == Needed(handler[r])
       IN \/ /\ secret = 0
             /\ UNCHANGED codeVars
          \/ /\ secret # 0 /\ Verifies(secret, code)
             /\ Accept(code)
    /\ Forgive(r)
    /\ StartSession("admin")
    /\ UNCHANGED <<timeVars, secrets, issued>>

\* The roles a key that LiteLLM knows may get.  Without an address in the account
\* the master key makes an administrator: no password is asked for and no code.
KeyRoles == IF account = "none" THEN {"admin", "user"} ELSE {"user"}

\* The key was looked up with LiteLLM.
KeyLoggedIn(r) ==
    /\ ~Idle(r) /\ handler[r].kind = "key"
    /\ Forgive(r)
    /\ \E role \in KeyRoles : StartSession(role)
    /\ UNCHANGED <<timeVars, codeVars, secrets, issued>>

\* Wrong password, wrong code, unknown key.
LoginFails(r) ==
    /\ ~Idle(r) /\ handler[r].kind \in Logins
    /\ Fail(r)
    /\ UNCHANGED <<timeVars, codeVars, secrets, issued, sessions>>

\* A request that is no JSON, or a LiteLLM that cannot be reached: nothing counts.
LoginEnds(r) ==
    /\ ~Idle(r) /\ handler[r].kind \in Logins
    /\ Done(r)
    /\ UNCHANGED <<timeVars, failVars, codeVars, secrets, issued, sessions>>

(* ---- The second factor ------------------------------------------------------------ *)

\* api_2fa_setup awaits nothing.
Setup ==
    /\ Admin /\ issued < MaxSecrets
    /\ issued' = issued + 1
    /\ secrets' = [secrets EXCEPT !.pending = issued']
    /\ UNCHANGED <<timeVars, failVars, codeVars, sessions, handler>>

\* api_2fa_confirm and api_2fa_disable check the session, the latter also reads
\* the secret, before they await the body.
BeginChange(r, kind) ==
    /\ Idle(r) /\ Admin
    /\ kind = "disable" => secrets.active # 0
    /\ Await(r, [kind |-> kind, secret |-> secrets.active])

Confirm(r, code) ==
    /\ ~Idle(r) /\ handler[r].kind = "confirm"
    /\ secrets.pending # 0 /\ Verifies(secrets.pending, code)
    /\ Accept(code)
    /\ secrets' = [active |-> secrets.pending, pending |-> 0]
    /\ Done(r)
    /\ UNCHANGED <<timeVars, failVars, issued, sessions>>

Disable(r, code) ==
    /\ ~Idle(r) /\ handler[r].kind = "disable"
    /\ Verifies(handler[r].secret, code)
    /\ Accept(code)
    /\ secrets' = [active |-> 0, pending |-> 0]
    /\ Done(r)
    /\ UNCHANGED <<timeVars, failVars, issued, sessions>>

\* Wrong code, no pending secret, wrong password.
ChangeFails(r) ==
    /\ ~Idle(r) /\ handler[r].kind \notin Logins
    /\ Done(r)
    /\ UNCHANGED <<timeVars, failVars, codeVars, secrets, issued, sessions>>

(* ---- Time --------------------------------------------------------------------------- *)

\* Requests are answered within a step: a bound on how old what they read is.
Quiet == \A r \in Requests : Idle(r)

Tick ==
    /\ Quiet /\ clock < MaxClock
    /\ clock' = clock + 1
    /\ high' = IF clock' > high THEN clock' ELSE high
    /\ UNCHANGED <<account, failVars, codeVars, secrets, issued, sessions, handler>>

\* The clock is set back, by one step at most.
SetBack ==
    /\ Quiet /\ clock = high /\ clock > 1
    /\ clock' = clock - 1
    /\ UNCHANGED <<account, high, failVars, codeVars, secrets, issued, sessions, handler>>

Init ==
    /\ account \in Accounts
    /\ clock = 1 /\ high = 1
    /\ fails = [a \in Addresses |-> None]
    /\ used = {}
    /\ secrets = [active |-> 0, pending |-> 0]
    /\ issued = 0
    /\ sessions = [s \in Sessions |-> None]
    /\ handler = [r \in Requests |-> None]
    /\ proofs = {} /\ reused = FALSE
    /\ guesses = [a \in Addresses |-> 0]

Next ==
    \/ \E r \in Requests, kind \in Logins, ip \in Addresses : BeginLogin(r, kind, ip)
    \/ \E r \in Requests :
        KeyLoggedIn(r) \/ LoginFails(r) \/ LoginEnds(r) \/ ChangeFails(r)
    \/ \E r \in Requests, code \in Codes :
        AdminLoggedIn(r, code) \/ Confirm(r, code) \/ Disable(r, code)
    \/ \E r \in Requests, kind \in {"confirm", "disable"} : BeginChange(r, kind)
    \/ \E s \in Sessions : Logout(s)
    \/ Setup \/ Tick \/ SetBack

Spec == Init /\ [][Next]_vars

(* ---- Properties ------------------------------------------------------------------------ *)

\* Types, and: a handler counts on the list of the address only if it runs.
TypeOK ==
    /\ account \in Accounts
    /\ clock \in 0..MaxClock /\ high \in clock..clock + 1
    /\ \A a \in Addresses : fails[a] # None => fails[a] \in [start : 0..MaxClock, count : Nat \ {0}]
    /\ used \subseteq 0..MaxClock + 1 /\ proofs \subseteq Codes
    /\ secrets \in [active : 0..issued, pending : 0..issued] /\ issued \in 0..MaxSecrets
    /\ \A r \in Requests : ~Idle(r) /\ handler[r].kind \in Logins =>
        /\ handler[r].win \in {"none", "shared", "lost"}
        /\ handler[r].win = "shared" => Running(handler[r].ip)

\* A one-time code is accepted once, for a login or for a change of the second
\* factor, also when the clock is set back by the tolerance of a step.
CodeOnce == ~reused

\* However logins from one address interleave, the failures it is allowed while a
\* window of its own runs, and without a success in between, are bounded: a window
\* may be begun again, but only by a request that was under way when it began, and
\* failures that are lost are those of requests begun before it.  Of requests that
\* are answered within a step of the clock (Quiet).
InFlight == Cardinality(Requests)
GuessesBounded ==
    \A a \in Addresses :
        guesses[a] <= InFlight * (Limit - 1) + (InFlight * (InFlight + 1)) \div 2

\* A code of the secret is accepted in this step for the first time.
Shown(secret) == \E code \in proofs' \ proofs : code.secret = secret
BeginsAsAdmin(s) ==
    /\ sessions'[s] # sessions[s] /\ sessions'[s] # None
    /\ sessions'[s].role = "admin"

\* While a second factor is in force and the account has an address, an
\* administrator's session begins with a code of the very secret that is in force
\* at that moment, which no request used before; and, whatever the account, the
\* secret in force is one whose holder has shown a code of it.  Without an address
\* the master key logs in with neither password nor code, as SECURITY.md:47 warns;
\* with an address alone nobody becomes an administrator.
LoginProven ==
    [][/\ \A s \in Sessions : BeginsAsAdmin(s) =>
            /\ account # "address"
            /\ account = "full" /\ secrets.active # 0 => Shown(secrets.active)
       /\ secrets'.active \notin {0, secrets.active} => Shown(secrets'.active)]_vars
===============================================================================
