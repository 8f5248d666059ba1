--------------------------- MODULE DashboardAccounts ---------------------------
(***************************************************************************)
(* Dashboard accounts: sign-up, log-in with its limit on failures, log-out *)
(* and `echidra reset-password` (classifier/api/app.py, echidra/cli.py),   *)
(* on the tables dashboard_users and login_failures                        *)
(* (storage/repository.py), and the secret that several API processes      *)
(* share through a file when ECHIDRA_SESSION_SECRET is not set.            *)
(*                                                                         *)
(* Requests run in threads of the API processes and interleave at every    *)
(* database call.  A password stands for its hash and a cookie for the     *)
(* fields it signs.  All clients have one address, so the limit's key is   *)
(* the email.                                                              *)
(***************************************************************************)
EXTENDS Naturals, FiniteSets

CONSTANTS Workers,     \* API processes; a restarted one is another
          Requests,    \* threads that serve requests
          Emails, Passwords,
          MaxAttempts, \* LOGIN_RATE_LIMIT_MAX_ATTEMPTS
          MaxVersion,  \* log-outs and resets of one account
          MaxCookies,  \* cookies issued
          NoUser, Nobody

ASSUME AccountConstants ==
    /\ MaxAttempts \in Nat \ {0} /\ MaxVersion \in Nat /\ MaxCookies \in Nat
    /\ IsFiniteSet(Requests) /\ Nobody \notin Requests \cup Workers
    /\ NoUser \notin [password : Passwords, version : Nat]
    /\ {"absent", "empty"} \cap Workers = {}

VARIABLES
    allow,    \* ECHIDRA_ALLOW_SIGNUPS
    users,    \* dashboard_users
    failures, \* login_failures within the window
    lock,     \* the request that holds the sign-up lock
    req,      \* each request in progress
    cookies,  \* every cookie ever set
    ended,    \* history: cookies of sessions that were logged out or reset
    file,     \* the secret's file: "absent", "empty", or whose secret it holds
    load,     \* how far each process is in loading the secret
    secret    \* _fallback_session_secret, named after its maker

dbVars     == <<users, failures, lock>>
secretVars == <<file, load, secret>>
vars == <<allow, dbVars, req, cookies, ended, secretVars>>

Idle == [at |-> "idle"]

Users == [password : Passwords, version : 0..MaxVersion]
Cookies == [email : Emails, version : 0..MaxVersion, password : Passwords,
            secret : Workers]

Init ==
    /\ allow \in BOOLEAN
    /\ users = [e \in Emails |-> NoUser]
    /\ failures = [e \in Emails |-> 0]
    /\ lock = Nobody
    /\ req = [r \in Requests |-> Idle]
    /\ cookies = {}
    /\ ended = {}
    /\ file = "absent"
    /\ load = [w \in Workers |-> "none"]
    /\ secret = [w \in Workers |-> Nobody]

-----------------------------------------------------------------------------
(* The fallback secret *)

(* A process has its secret: the one in the file, or its own because the   *)
(* file was "empty" or there was an "error".                               *)
HasSecret(w, s, how) ==
    /\ secret' = [secret EXCEPT ![w] = s]
    /\ load' = [load EXCEPT ![w] = how]

Ready(w) == load[w] \in {"shared", "empty", "error"}

FileHoldsSecret == file \in Workers

(* _load_or_create_fallback_session_secret: the file is read... *)
ReadSecret(w) ==
    /\ load[w] = "none"
    /\ IF FileHoldsSecret
       THEN HasSecret(w, file, "shared")
       ELSE load' = [load EXCEPT ![w] = "creating"] /\ UNCHANGED secret
    /\ UNCHANGED <<allow, dbVars, req, cookies, ended, file>>

(* ... or created, empty at first, if nobody else has.  A process that     *)
(* cannot create it makes do with a secret of its own...                   *)
CreateFile(w) ==
    /\ load[w] = "creating"
    /\ \/ HasSecret(w, w, "error") /\ UNCHANGED file
       \/ /\ file = "absent"
          /\ file' = "empty"
          /\ load' = [load EXCEPT ![w] = "writing"]
          /\ UNCHANGED secret
       \/ /\ file # "absent"
          /\ load' = [load EXCEPT ![w] = "rereading"]
          /\ UNCHANGED <<file, secret>>
    /\ UNCHANGED <<allow, dbVars, req, cookies, ended>>

WriteSecret(w) ==
    /\ load[w] = "writing"
    /\ file' = w
    /\ HasSecret(w, w, "shared")
    /\ UNCHANGED <<allow, dbVars, req, cookies, ended>>

(* The process ends between creating the file and writing it. *)
DiesWriting(w) ==
    /\ load[w] = "writing"
    /\ load' = [load EXCEPT ![w] = "dead"]
    /\ UNCHANGED <<allow, dbVars, req, cookies, ended, file, secret>>

(* Mutant: a process that lost the race keeps its own secret. *)
RereadOwn(w) ==
    /\ load[w] = "rereading"
    /\ HasSecret(w, w, "shared")
    /\ UNCHANGED <<allow, dbVars, req, cookies, ended, file>>

(* ... and one that lost the race reads it again, to find the winner's     *)
(* secret or nothing yet.                                                  *)
Reread(w) ==
    /\ load[w] = "rereading"
    /\ IF FileHoldsSecret THEN HasSecret(w, file, "shared") ELSE HasSecret(w, w, "empty")
    /\ UNCHANGED <<allow, dbVars, req, cookies, ended, file>>

-----------------------------------------------------------------------------
(* Requests *)

Goes(r, at) == req' = [req EXCEPT ![r].at = at]
Ends(r)     == req' = [req EXCEPT ![r] = Idle]

(* A request arrives with what the client sent. *)
Arrives(r, kind, e, p) ==
    /\ req[r] = Idle
    /\ req' = [req EXCEPT ![r] = [at |-> kind, email |-> e, password |-> p, version |-> 0]]
    /\ UNCHANGED <<allow, dbVars, cookies, ended, secretVars>>

(* Mutant: the lock is not taken. *)
LockSignupNot(r) ==
    /\ req[r].at = "signup"
    /\ Goes(r, "counting")
    /\ UNCHANGED <<allow, dbVars, cookies, ended, secretVars>>

(* create_dashboard_user_if_eligible: the advisory lock is taken... *)
LockSignup(r) ==
    /\ req[r].at = "signup" /\ lock = Nobody
    /\ lock' = r
    /\ Goes(r, "counting")
    /\ UNCHANGED <<allow, users, failures, cookies, ended, secretVars>>

(* ... the accounts are looked at... *)
CountUsers(r) ==
    /\ req[r].at = "counting"
    /\ IF (~allow /\ \E e \in Emails : users[e] # NoUser) \/ users[req[r].email] # NoUser
       THEN Ends(r) /\ lock' = Nobody
       ELSE Goes(r, "inserting") /\ UNCHANGED lock
    /\ UNCHANGED <<allow, users, failures, cookies, ended, secretVars>>

(* ... and the row is inserted; the lock is given up with the commit. *)
InsertUser(r) ==
    /\ req[r].at = "inserting" /\ users[req[r].email] = NoUser
    /\ users' = [users EXCEPT ![req[r].email] = [password |-> req[r].password, version |-> 0]]
    /\ lock' = Nobody
    /\ Goes(r, "signing")
    /\ UNCHANGED <<allow, failures, cookies, ended, secretVars>>

(* Mutant: the limit is off by one. *)
CheckLimitLate(r) ==
    /\ req[r].at = "login"
    /\ IF failures[req[r].email] > MaxAttempts THEN Ends(r) ELSE Goes(r, "fetching")
    /\ UNCHANGED <<allow, dbVars, cookies, ended, secretVars>>

(* login_dashboard_user: too many failures, or on to the account... *)
CheckLimit(r) ==
    /\ req[r].at = "login"
    /\ IF failures[req[r].email] >= MaxAttempts THEN Ends(r) ELSE Goes(r, "fetching")
    /\ UNCHANGED <<allow, dbVars, cookies, ended, secretVars>>

(* ... whose password is verified as it was read, with its version... *)
FetchUser(r) ==
    /\ req[r].at = "fetching"
    /\ LET user == users[req[r].email]
           ok   == user # NoUser /\ user.password = req[r].password
       IN  req' = [req EXCEPT ![r].at = IF ok THEN "clearing" ELSE "recording",
                              ![r].version = IF ok THEN user.version ELSE 0]
    /\ UNCHANGED <<allow, dbVars, cookies, ended, secretVars>>

(* ... then the failure is recorded, or the earlier ones are cleared.      *)
(* Either may fail without failing the request.                            *)
RecordFailure(r) ==
    /\ req[r].at = "recording"
    /\ \/ failures' = [failures EXCEPT ![req[r].email] = @ + 1]
       \/ UNCHANGED failures
    /\ Ends(r)
    /\ UNCHANGED <<allow, users, lock, cookies, ended, secretVars>>

ClearFailures(r) ==
    /\ req[r].at = "clearing"
    /\ \/ failures' = [failures EXCEPT ![req[r].email] = 0]
       \/ UNCHANGED failures
    /\ Goes(r, "signing")
    /\ UNCHANGED <<allow, users, lock, cookies, ended, secretVars>>

(* Mutant: the version is the account's when the cookie is signed. *)
SetCookieVersionNow(r, w) ==
    /\ req[r].at = "signing" /\ Ready(w)
    /\ Cardinality(cookies) < MaxCookies
    /\ cookies' = cookies \cup
           {[email |-> req[r].email, version |-> users[req[r].email].version,
             password |-> req[r].password, secret |-> secret[w]]}
    /\ Ends(r)
    /\ UNCHANGED <<allow, dbVars, ended, secretVars>>

(* The cookie is signed with the version that was read. *)
SetCookie(r, w) ==
    /\ req[r].at = "signing" /\ Ready(w)
    /\ Cardinality(cookies) < MaxCookies
    /\ cookies' = cookies \cup
           {[email |-> req[r].email, version |-> req[r].version, password |-> req[r].password,
             secret |-> secret[w]]}
    /\ Ends(r)
    /\ UNCHANGED <<allow, dbVars, ended, secretVars>>

(* The database fails under a request, which ends with its transaction. *)
Aborts(r) ==
    /\ req[r].at \in {"signup", "counting", "inserting", "login", "fetching"}
    /\ Ends(r)
    /\ lock' = IF lock = r THEN Nobody ELSE lock
    /\ UNCHANGED <<allow, users, failures, cookies, ended, secretVars>>

-----------------------------------------------------------------------------
(* Sessions *)

SignedHere(c, w) == Ready(w) /\ secret[w] = c.secret
OfUser(e)        == {c \in cookies : c.email = e}

(* _verify_dashboard_session_cookie *)
Accepts(c, w) ==
    /\ SignedHere(c, w)
    /\ users[c.email] # NoUser
    /\ users[c.email].version = c.version

(* A cookie that outlives SESSION_MAX_AGE_SECONDS is never accepted again. *)
Expires(c) ==
    /\ cookies' = cookies \ {c}
    /\ ended' = ended \ {c}
    /\ UNCHANGED <<allow, dbVars, req, secretVars>>

(* logout_dashboard, with any genuine cookie: the version moves on.  A     *)
(* cookie signed with another secret is only dropped from the browser.     *)
Logout(c, w) ==
    /\ Ready(w)
    /\ IF SignedHere(c, w)
       THEN /\ users[c.email].version < MaxVersion
            /\ users' = [users EXCEPT ![c.email].version = @ + 1]
            /\ ended' = ended \cup OfUser(c.email)
       ELSE /\ ended' = ended \cup {c}
            /\ UNCHANGED users
    /\ UNCHANGED <<allow, failures, lock, req, cookies, secretVars>>

(* echidra reset-password: hash, version and lockout in one statement. *)
ResetPassword(e, p) ==
    /\ users[e] # NoUser /\ users[e].version < MaxVersion
    /\ users' = [users EXCEPT ![e] = [password |-> p, version |-> @.version + 1]]
    /\ failures' = [failures EXCEPT ![e] = 0]
    /\ ended' = ended \cup OfUser(e)
    /\ UNCHANGED <<allow, lock, req, cookies, secretVars>>

(* A failure leaves the window. *)
Forget(e) ==
    /\ failures[e] > 0
    /\ failures' = [failures EXCEPT ![e] = @ - 1]
    /\ UNCHANGED <<allow, users, lock, req, cookies, ended, secretVars>>

-----------------------------------------------------------------------------
LoadSecret(w) ==
    ReadSecret(w) \/ CreateFile(w) \/ WriteSecret(w) \/ DiesWriting(w) \/ Reread(w)

Serve(r) ==
    \/ LockSignup(r) \/ CountUsers(r) \/ InsertUser(r)
    \/ CheckLimit(r) \/ FetchUser(r) \/ RecordFailure(r) \/ ClearFailures(r)
    \/ Aborts(r) \/ \E w \in Workers : SetCookie(r, w)

Next ==
    \/ \E w \in Workers : LoadSecret(w)
    \/ \E r \in Requests, e \in Emails, p \in Passwords :
           Arrives(r, "signup", e, p) \/ Arrives(r, "login", e, p)
    \/ \E r \in Requests : Serve(r)
    \/ \E c \in cookies : Expires(c) \/ \E w \in Workers : Logout(c, w)
    \/ \E e \in Emails : Forget(e) \/ \E p \in Passwords : ResetPassword(e, p)

Spec == Init /\ [][Next]_vars

-----------------------------------------------------------------------------
(* Properties *)

TypeOK ==
    /\ allow \in BOOLEAN
    /\ users \in [Emails -> Users \cup {NoUser}]
    /\ failures \in [Emails -> Nat]
    /\ lock \in Requests \cup {Nobody}
    /\ cookies \subseteq Cookies /\ ended \subseteq Cookies
    /\ file \in {"absent", "empty"} \cup Workers
    /\ load \in [Workers -> {"none", "creating", "writing", "rereading", "shared", "empty", "error",
                            "dead"}]
    /\ secret \in [Workers -> Workers \cup {Nobody}]

(* Without ECHIDRA_ALLOW_SIGNUPS there is never a second account, however  *)
(* many sign-ups arrive at once (create_dashboard_user_if_eligible; the    *)
(* types included).                                                        *)
OneAccount ==
    /\ TypeOK
    /\ ~allow => Cardinality({e \in Emails : users[e] # NoUser}) <= 1

(* A cookie that is accepted was obtained with the password the account    *)
(* has now, even by a log-in that was under way when the password was      *)
(* reset; and none set before a log-out or reset is accepted after it, as  *)
(* long as the processes share one secret (logout_dashboard,               *)
(* RESET_DASHBOARD_USER_PASSWORD_SQL).                                     *)
RevokedIsRejected ==
    \A c \in cookies, w \in Workers : Accepts(c, w) =>
        /\ c.password = users[c.email].password
        /\ c \in ended => \E v \in Workers : load[v] \in {"empty", "error"}

(* The limit on failures is exceeded by no more than the requests that had *)
(* passed it when it was reached: the check comes before the password is   *)
(* verified, and the record after (login_dashboard_user).                  *)
AttemptsBounded ==
    \A e \in Emails :
        failures[e] + Cardinality({r \in Requests :
            /\ req[r].at \in {"fetching", "recording"}
            /\ req[r].email = e}) < MaxAttempts + Cardinality(Requests)

(* Processes that load the secret at once end up with the one in the file, *)
(* except those that find it still empty or cannot create it               *)
(* (_load_or_create_fallback_session_secret).                              *)
SecretsAgree == \A w \in Workers : load[w] = "shared" => secret[w] = file

=============================================================================
