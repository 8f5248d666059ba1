----------------------- MODULE DashboardAccountsProofs -----------------------
(***************************************************************************)
(* What the dashboard promises about its accounts, for any number of API   *)
(* processes, requests, accounts and log-outs: one shared secret, no       *)
(* second account, and no revoked session.  The inductive invariant is     *)
(* AccountsInv; each of its parts is shown to be kept by every step.       *)
(***************************************************************************)
EXTENDS DashboardAccounts, FiniteSetTheorems, TLAPS

SignupSteps == {"signup", "counting", "inserting"}
LoginSteps  == {"login", "fetching", "recording", "clearing"}

RequestsInProgress ==
    [at : SignupSteps \cup LoginSteps \cup {"signing"}, email : Emails,
     password : Passwords, version : 0..MaxVersion]

(* The types, those of the requests included. *)
TypeInv ==
    /\ TypeOK /\ req \in [Requests -> RequestsInProgress \cup {Idle}]
    /\ \A w \in Workers : Ready(w) => secret[w] \in Workers

(* The file is written once, by the one process that created it, and       *)
(* whoever shares a secret has it from there.                              *)
SecretInv ==
    /\ \A w \in Workers : load[w] = "shared" => secret[w] = file /\ file \in Workers
    /\ \A w \in Workers : load[w] = "writing" => file = "empty"
    /\ \A v, w \in Workers : load[v] = "writing" /\ load[w] = "writing" => v = w
(* A sign-up that has looked at the accounts holds the lock, so that what  *)
(* it saw still holds when it inserts its own.                             *)
SignupInv ==
    /\ \A r \in Requests : req[r].at \in {"counting", "inserting"} => lock = r
    /\ \A r \in Requests : req[r].at = "inserting" /\ ~allow =>
           \A e \in Emails : users[e] = NoUser
    /\ ~allow => \A d, e \in Emails :
           users[d] # NoUser /\ users[e] # NoUser => d = e

(* Whoever shows version n of an account knew its password at that         *)
(* version.                                                                *)
Knows(x) ==
    /\ users[x.email] # NoUser
    /\ x.version <= users[x.email].version
    /\ x.version = users[x.email].version => x.password = users[x.email].password

(* Cookies and the requests about to set one were obtained with the        *)
(* password, and a cookie was signed by some process.                      *)
CookieInv ==
    /\ \A r \in Requests : req[r].at \in SignupSteps => req[r].version = 0
    /\ \A r \in Requests : req[r].at \in {"clearing", "signing"} => Knows(req[r])
    /\ \A c \in cookies : Knows(c) /\ \E w \in Workers : SignedHere(c, w)

(* A session that was ended is of an earlier version, unless the processes *)
(* do not share one secret.                                                *)
EndedInv ==
    \A c \in ended :
        \/ users[c.email] # NoUser /\ c.version < users[c.email].version
        \/ \E w \in Workers : load[w] \in {"empty", "error"}

AccountsInv == TypeInv /\ SecretInv /\ SignupInv /\ CookieInv /\ EndedInv

(* Every step keeps the types.                                             *)
LEMMA TypeStep ==
    ASSUME TypeInv, CookieInv, [Next]_vars
    PROVE  TypeInv'
<1>. USE AccountConstants DEF TypeInv, TypeOK, RequestsInProgress, SignupSteps, LoginSteps, Idle,
         Users, Cookies, dbVars, secretVars, Goes, Ends, HasSecret, FileHoldsSecret, OfUser, Ready,
         SignedHere
<1>1. ASSUME NEW w \in Workers, ReadSecret(w) PROVE TypeInv'
  BY <1>1 DEF ReadSecret
<1>2. ASSUME NEW w \in Workers, CreateFile(w) PROVE TypeInv'
  BY <1>2 DEF CreateFile
<1>3. ASSUME NEW w \in Workers, WriteSecret(w) PROVE TypeInv'
  BY <1>3 DEF WriteSecret
<1>4. ASSUME NEW w \in Workers, DiesWriting(w) PROVE TypeInv'
  BY <1>4 DEF DiesWriting
<1>5. ASSUME NEW w \in Workers, Reread(w) PROVE TypeInv'
  BY <1>5 DEF Reread
<1>6. ASSUME NEW r \in Requests, NEW k \in {"signup", "login"}, NEW e \in Emails,
               NEW p \in Passwords, Arrives(r, k, e, p)
      PROVE  TypeInv'
  BY <1>6 DEF Arrives
<1>7. ASSUME NEW r \in Requests, LockSignup(r) PROVE TypeInv'
  BY <1>7 DEF LockSignup
<1>8. ASSUME NEW r \in Requests, CountUsers(r) PROVE TypeInv'
  BY <1>8 DEF CountUsers
<1>9. ASSUME NEW r \in Requests, InsertUser(r) PROVE TypeInv'
  BY <1>9 DEF InsertUser
<1>10. ASSUME NEW r \in Requests, CheckLimit(r) PROVE TypeInv'
  BY <1>10 DEF CheckLimit
<1>11. ASSUME NEW r \in Requests, FetchUser(r) PROVE TypeInv'
  <2>. DEFINE user == users[req[r].email]
              ok == user # NoUser /\ user.password = req[r].password
              at == IF ok THEN "clearing" ELSE "recording"
              version == IF ok THEN user.version ELSE 0
  <2>1. req[r] \in RequestsInProgress
    BY <1>11 DEF FetchUser
  <2>2. at \in {"clearing", "recording"} /\ version \in 0..MaxVersion
    BY <2>1
  <2>3. req' = [req EXCEPT ![r] = [@ EXCEPT !.at = at, !.version = version]]
    BY <1>11 DEF FetchUser
  <2>. HIDE DEF at, version
  <2>4. [req[r] EXCEPT !.at = at, !.version = version] \in RequestsInProgress
    BY <2>1, <2>2
  <2>5. req' \in [Requests -> RequestsInProgress \cup {Idle}]
    BY <2>3, <2>4
  <2>. QED
    BY <1>11, <2>5 DEF FetchUser
<1>12. ASSUME NEW r \in Requests, RecordFailure(r) PROVE TypeInv'
  BY <1>12 DEF RecordFailure
<1>13. ASSUME NEW r \in Requests, ClearFailures(r) PROVE TypeInv'
  BY <1>13 DEF ClearFailures
<1>14. ASSUME NEW r \in Requests, Aborts(r) PROVE TypeInv'
  BY <1>14 DEF Aborts
<1>15. ASSUME NEW r \in Requests, NEW w \in Workers, SetCookie(r, w) PROVE TypeInv'
  BY <1>15 DEF SetCookie
<1>16. ASSUME NEW c \in cookies, Expires(c) PROVE TypeInv'
  BY <1>16 DEF Expires
<1>17. ASSUME NEW c \in cookies, NEW w \in Workers, Logout(c, w) PROVE TypeInv'
  <2>1. users' \in [Emails -> Users \cup {NoUser}]
    <3>1. CASE SignedHere(c, w)
      <4>1. c.email \in Emails /\ users[c.email] \in Users
        BY <1>17 DEF CookieInv, Knows
      <4>2. [users[c.email] EXCEPT !.version = @ + 1] \in Users
        BY <1>17, <3>1, <4>1 DEF Logout
      <4>. QED
        BY <1>17, <3>1, <4>1, <4>2 DEF Logout
    <3>. QED
      BY <1>17, <3>1 DEF Logout
  <2>2. ended' \subseteq Cookies
    BY <1>17 DEF Logout
  <2>. QED
    BY <1>17, <2>1, <2>2 DEF Logout
<1>18. ASSUME NEW e \in Emails, NEW p \in Passwords, ResetPassword(e, p) PROVE TypeInv'
  BY <1>18 DEF ResetPassword
<1>19. ASSUME NEW e \in Emails, Forget(e) PROVE TypeInv'
  BY <1>19 DEF Forget
<1>20. CASE UNCHANGED vars
  BY <1>20 DEF vars
<1>. QED
  BY <1>1, <1>2, <1>3, <1>4, <1>5, <1>6, <1>7, <1>8, <1>9, <1>10, <1>11, <1>12, <1>13, <1>14, <1>15,
     <1>16, <1>17, <1>18, <1>19, <1>20
     DEF Next, LoadSecret, Serve

(* Only the loading of the secret touches it.                               *)
LEMMA SecretStep ==
    ASSUME TypeInv, SecretInv, [Next]_vars
    PROVE  SecretInv'
<1>. USE AccountConstants DEF TypeInv, TypeOK, SecretInv, dbVars, secretVars, HasSecret,
         FileHoldsSecret, Ready
<1>1. ASSUME NEW w \in Workers, ReadSecret(w) PROVE SecretInv'
  BY <1>1 DEF ReadSecret
<1>2. ASSUME NEW w \in Workers, CreateFile(w) PROVE SecretInv'
  BY <1>2 DEF CreateFile
<1>3. ASSUME NEW w \in Workers, WriteSecret(w) PROVE SecretInv'
  BY <1>3 DEF WriteSecret
<1>4. ASSUME NEW w \in Workers, DiesWriting(w) PROVE SecretInv'
  BY <1>4 DEF DiesWriting
<1>5. ASSUME NEW w \in Workers, Reread(w) PROVE SecretInv'
  BY <1>5 DEF Reread
<1>6. ASSUME NEW r \in Requests, NEW k \in {"signup", "login"}, NEW e \in Emails,
               NEW p \in Passwords, Arrives(r, k, e, p)
      PROVE  SecretInv'
  BY <1>6 DEF Arrives
<1>7. ASSUME NEW r \in Requests, LockSignup(r) PROVE SecretInv'
  BY <1>7 DEF LockSignup
<1>8. ASSUME NEW r \in Requests, CountUsers(r) PROVE SecretInv'
  BY <1>8 DEF CountUsers
<1>9. ASSUME NEW r \in Requests, InsertUser(r) PROVE SecretInv'
  BY <1>9 DEF InsertUser
<1>10. ASSUME NEW r \in Requests, CheckLimit(r) PROVE SecretInv'
  BY <1>10 DEF CheckLimit
<1>11. ASSUME NEW r \in Requests, FetchUser(r) PROVE SecretInv'
  BY <1>11 DEF FetchUser
<1>12. ASSUME NEW r \in Requests, RecordFailure(r) PROVE SecretInv'
  BY <1>12 DEF RecordFailure
<1>13. ASSUME NEW r \in Requests, ClearFailures(r) PROVE SecretInv'
  BY <1>13 DEF ClearFailures
<1>14. ASSUME NEW r \in Requests, Aborts(r) PROVE SecretInv'
  BY <1>14 DEF Aborts
<1>15. ASSUME NEW r \in Requests, NEW w \in Workers, SetCookie(r, w) PROVE SecretInv'
  BY <1>15 DEF SetCookie
<1>16. ASSUME NEW c \in cookies, Expires(c) PROVE SecretInv'
  BY <1>16 DEF Expires
<1>17. ASSUME NEW c \in cookies, NEW w \in Workers, Logout(c, w) PROVE SecretInv'
  BY <1>17 DEF Logout
<1>18. ASSUME NEW e \in Emails, NEW p \in Passwords, ResetPassword(e, p) PROVE SecretInv'
  BY <1>18 DEF ResetPassword
<1>19. ASSUME NEW e \in Emails, Forget(e) PROVE SecretInv'
  BY <1>19 DEF Forget
<1>20. CASE UNCHANGED vars
  BY <1>20 DEF vars
<1>. QED
  BY <1>1, <1>2, <1>3, <1>4, <1>5, <1>6, <1>7, <1>8, <1>9, <1>10, <1>11, <1>12, <1>13, <1>14, <1>15,
     <1>16, <1>17, <1>18, <1>19, <1>20
     DEF Next, LoadSecret, Serve

(* Sign-ups exclude each other.                                             *)
LEMMA SignupStep ==
    ASSUME TypeInv, CookieInv, SignupInv, [Next]_vars
    PROVE  SignupInv'
<1>. USE AccountConstants DEF TypeInv, TypeOK, SignupInv, RequestsInProgress, SignupSteps,
         LoginSteps, Idle, Users, dbVars, secretVars, Goes, Ends
<1>1. ASSUME NEW w \in Workers, ReadSecret(w) PROVE SignupInv'
  BY <1>1 DEF ReadSecret
<1>2. ASSUME NEW w \in Workers, CreateFile(w) PROVE SignupInv'
  BY <1>2 DEF CreateFile
<1>3. ASSUME NEW w \in Workers, WriteSecret(w) PROVE SignupInv'
  BY <1>3 DEF WriteSecret
<1>4. ASSUME NEW w \in Workers, DiesWriting(w) PROVE SignupInv'
  BY <1>4 DEF DiesWriting
<1>5. ASSUME NEW w \in Workers, Reread(w) PROVE SignupInv'
  BY <1>5 DEF Reread
<1>6. ASSUME NEW r \in Requests, NEW k \in {"signup", "login"}, NEW e \in Emails,
               NEW p \in Passwords, Arrives(r, k, e, p)
      PROVE  SignupInv'
  BY <1>6 DEF Arrives
<1>7. ASSUME NEW r \in Requests, LockSignup(r) PROVE SignupInv'
  BY <1>7 DEF LockSignup
<1>8. ASSUME NEW r \in Requests, CountUsers(r) PROVE SignupInv'
  BY <1>8 DEF CountUsers
<1>9. ASSUME NEW r \in Requests, InsertUser(r) PROVE SignupInv'
  BY <1>9 DEF InsertUser
<1>10. ASSUME NEW r \in Requests, CheckLimit(r) PROVE SignupInv'
  BY <1>10 DEF CheckLimit
<1>11. ASSUME NEW r \in Requests, FetchUser(r) PROVE SignupInv'
  BY <1>11 DEF FetchUser
<1>12. ASSUME NEW r \in Requests, RecordFailure(r) PROVE SignupInv'
  BY <1>12 DEF RecordFailure
<1>13. ASSUME NEW r \in Requests, ClearFailures(r) PROVE SignupInv'
  BY <1>13 DEF ClearFailures
<1>14. ASSUME NEW r \in Requests, Aborts(r) PROVE SignupInv'
  BY <1>14 DEF Aborts
<1>15. ASSUME NEW r \in Requests, NEW w \in Workers, SetCookie(r, w) PROVE SignupInv'
  BY <1>15 DEF SetCookie
<1>16. ASSUME NEW c \in cookies, Expires(c) PROVE SignupInv'
  BY <1>16 DEF Expires
<1>17. ASSUME NEW c \in cookies, NEW w \in Workers, Logout(c, w) PROVE SignupInv'
  <2>1. \A e \in Emails : users'[e] = NoUser <=> users[e] = NoUser
    <3>1. c.email \in Emails /\ users[c.email] # NoUser
      BY DEF CookieInv, Knows, Cookies
    <3>2. users[c.email] \in Users
      BY <3>1
    <3>3. [users[c.email] EXCEPT !.version = @ + 1] # NoUser
      BY <3>2
    <3>. QED
      BY <1>17, <3>1, <3>3 DEF Logout
  <2>. QED
    BY <1>17, <2>1 DEF Logout
<1>18. ASSUME NEW e \in Emails, NEW p \in Passwords, ResetPassword(e, p) PROVE SignupInv'
  BY <1>18 DEF ResetPassword
<1>19. ASSUME NEW e \in Emails, Forget(e) PROVE SignupInv'
  BY <1>19 DEF Forget
<1>20. CASE UNCHANGED vars
  BY <1>20 DEF vars
<1>. QED
  BY <1>1, <1>2, <1>3, <1>4, <1>5, <1>6, <1>7, <1>8, <1>9, <1>10, <1>11, <1>12, <1>13, <1>14, <1>15,
     <1>16, <1>17, <1>18, <1>19, <1>20
     DEF Next, LoadSecret, Serve

(* A version is only ever raised, and a password changed only with it.     *)
LEMMA CookieStep ==
    ASSUME TypeInv, SecretInv, CookieInv, [Next]_vars
    PROVE  CookieInv'
<1>. USE AccountConstants DEF TypeInv, TypeOK, CookieInv, Knows, SignedHere, RequestsInProgress,
         SignupSteps, LoginSteps, Idle, Users, Cookies, dbVars, secretVars, Goes, Ends, HasSecret,
         FileHoldsSecret, Ready
<1>1. ASSUME NEW w \in Workers, ReadSecret(w) PROVE CookieInv'
  BY <1>1 DEF ReadSecret
<1>2. ASSUME NEW w \in Workers, CreateFile(w) PROVE CookieInv'
  BY <1>2 DEF CreateFile
<1>3. ASSUME NEW w \in Workers, WriteSecret(w) PROVE CookieInv'
  BY <1>3 DEF WriteSecret
<1>4. ASSUME NEW w \in Workers, DiesWriting(w) PROVE CookieInv'
  BY <1>4 DEF DiesWriting
<1>5. ASSUME NEW w \in Workers, Reread(w) PROVE CookieInv'
  BY <1>5 DEF Reread
<1>6. ASSUME NEW r \in Requests, NEW k \in {"signup", "login"}, NEW e \in Emails,
               NEW p \in Passwords, Arrives(r, k, e, p)
      PROVE  CookieInv'
  BY <1>6 DEF Arrives
<1>7. ASSUME NEW r \in Requests, LockSignup(r) PROVE CookieInv'
  BY <1>7 DEF LockSignup
<1>8. ASSUME NEW r \in Requests, CountUsers(r) PROVE CookieInv'
  BY <1>8 DEF CountUsers
<1>9. ASSUME NEW r \in Requests, InsertUser(r) PROVE CookieInv'
  BY <1>9 DEF InsertUser
<1>10. ASSUME NEW r \in Requests, CheckLimit(r) PROVE CookieInv'
  BY <1>10 DEF CheckLimit
<1>11. ASSUME NEW r \in Requests, FetchUser(r) PROVE CookieInv'
  <2>. DEFINE user == users[req[r].email]
              ok == user # NoUser /\ user.password = req[r].password
  <2>1. req[r] \in RequestsInProgress /\ req[r].at = "fetching"
    BY <1>11 DEF FetchUser
  <2>2. /\ req'[r].at = IF ok THEN "clearing" ELSE "recording"
        /\ req'[r].version = IF ok THEN user.version ELSE 0
        /\ req'[r].email = req[r].email /\ req'[r].password = req[r].password
        /\ \A q \in Requests \ {r} : req'[q] = req[q]
    BY <1>11, <2>1 DEF FetchUser
  <2>3. ok => user \in Users
    BY <2>1
  <2>4. UNCHANGED <<users, cookies, load, secret>>
    BY <1>11 DEF FetchUser
  <2>. QED
    BY <2>2, <2>3, <2>4
<1>12. ASSUME NEW r \in Requests, RecordFailure(r) PROVE CookieInv'
  BY <1>12 DEF RecordFailure
<1>13. ASSUME NEW r \in Requests, ClearFailures(r) PROVE CookieInv'
  BY <1>13 DEF ClearFailures
<1>14. ASSUME NEW r \in Requests, Aborts(r) PROVE CookieInv'
  BY <1>14 DEF Aborts
<1>15. ASSUME NEW r \in Requests, NEW w \in Workers, SetCookie(r, w) PROVE CookieInv'
  BY <1>15 DEF SetCookie
<1>16. ASSUME NEW c \in cookies, Expires(c) PROVE CookieInv'
  BY <1>16 DEF Expires
<1>17. ASSUME NEW c \in cookies, NEW w \in Workers, Logout(c, w) PROVE CookieInv'
  BY <1>17 DEF Logout
<1>18. ASSUME NEW e \in Emails, NEW p \in Passwords, ResetPassword(e, p) PROVE CookieInv'
  BY <1>18 DEF ResetPassword
<1>19. ASSUME NEW e \in Emails, Forget(e) PROVE CookieInv'
  BY <1>19 DEF Forget
<1>20. CASE UNCHANGED vars
  BY <1>20 DEF vars
<1>. QED
  BY <1>1, <1>2, <1>3, <1>4, <1>5, <1>6, <1>7, <1>8, <1>9, <1>10, <1>11, <1>12, <1>13, <1>14, <1>15,
     <1>16, <1>17, <1>18, <1>19, <1>20
     DEF Next, LoadSecret, Serve

(* What is ended stays ended: versions only rise, and the processes that   *)
(* keep a secret of their own keep it.                                     *)
LEMMA EndedStep ==
    ASSUME TypeInv, SecretInv, CookieInv, EndedInv, [Next]_vars
    PROVE  EndedInv'
<1>. USE AccountConstants DEF TypeInv, TypeOK, EndedInv, Users, Cookies, dbVars, secretVars,
         HasSecret
<1>1. ASSUME NEW w \in Workers, ReadSecret(w) PROVE EndedInv'
  BY <1>1 DEF ReadSecret
<1>2. ASSUME NEW w \in Workers, CreateFile(w) PROVE EndedInv'
  BY <1>2 DEF CreateFile
<1>3. ASSUME NEW w \in Workers, WriteSecret(w) PROVE EndedInv'
  BY <1>3 DEF WriteSecret
<1>4. ASSUME NEW w \in Workers, DiesWriting(w) PROVE EndedInv'
  BY <1>4 DEF DiesWriting
<1>5. ASSUME NEW w \in Workers, Reread(w) PROVE EndedInv'
  BY <1>5 DEF Reread
<1>6. ASSUME NEW r \in Requests, NEW k \in {"signup", "login"}, NEW e \in Emails,
               NEW p \in Passwords, Arrives(r, k, e, p)
      PROVE  EndedInv'
  BY <1>6 DEF Arrives
<1>7. ASSUME NEW r \in Requests, LockSignup(r) PROVE EndedInv'
  BY <1>7 DEF LockSignup
<1>8. ASSUME NEW r \in Requests, CountUsers(r) PROVE EndedInv'
  BY <1>8 DEF CountUsers
<1>9. ASSUME NEW r \in Requests, InsertUser(r) PROVE EndedInv'
  BY <1>9 DEF InsertUser
<1>10. ASSUME NEW r \in Requests, CheckLimit(r) PROVE EndedInv'
  BY <1>10 DEF CheckLimit
<1>11. ASSUME NEW r \in Requests, FetchUser(r) PROVE EndedInv'
  BY <1>11 DEF FetchUser
<1>12. ASSUME NEW r \in Requests, RecordFailure(r) PROVE EndedInv'
  BY <1>12 DEF RecordFailure
<1>13. ASSUME NEW r \in Requests, ClearFailures(r) PROVE EndedInv'
  BY <1>13 DEF ClearFailures
<1>14. ASSUME NEW r \in Requests, Aborts(r) PROVE EndedInv'
  BY <1>14 DEF Aborts
<1>15. ASSUME NEW r \in Requests, NEW w \in Workers, SetCookie(r, w) PROVE EndedInv'
  BY <1>15 DEF SetCookie
<1>16. ASSUME NEW c \in cookies, Expires(c) PROVE EndedInv'
  BY <1>16 DEF Expires
<1>17. ASSUME NEW c \in cookies, NEW w \in Workers, Logout(c, w) PROVE EndedInv'
  <2>. SUFFICES ASSUME NEW d \in ended', \A v \in Workers : load[v] \notin {"empty", "error"}
                PROVE  users'[d.email] # NoUser /\ d.version < users'[d.email].version
    BY <1>17 DEF Logout
  <2>1. SignedHere(c, w)
    <3>1. PICK v \in Workers : SignedHere(c, v)
      BY DEF CookieInv
    <3>2. load[v] = "shared" /\ load[w] = "shared"
      BY <1>17, <3>1 DEF Logout, SignedHere, Ready
    <3>. QED
      BY <3>1, <3>2 DEF SecretInv, SignedHere, Ready
  <2>2. c.email \in Emails /\ users[c.email] \in Users
    BY DEF CookieInv, Knows
  <2>3. /\ ended' = ended \cup OfUser(c.email)
        /\ users' = [users EXCEPT ![c.email].version = @ + 1]
    BY <1>17, <2>1 DEF Logout
  <2>4. /\ users'[c.email] # NoUser
        /\ users'[c.email].version = users[c.email].version + 1
        /\ \A e \in Emails \ {c.email} : users'[e] = users[e]
    <3>1. [users[c.email] EXCEPT !.version = @ + 1] # NoUser
      BY <2>2
    <3>. QED
      BY <2>2, <2>3, <3>1
  <2>5. CASE d \in ended
    BY <2>2, <2>3, <2>4, <2>5
  <2>6. CASE d \in OfUser(c.email)
    BY <2>2, <2>3, <2>4, <2>6 DEF OfUser, CookieInv, Knows
  <2>. QED
    BY <2>3, <2>5, <2>6
<1>18. ASSUME NEW e \in Emails, NEW p \in Passwords, ResetPassword(e, p) PROVE EndedInv'
  <2>. SUFFICES ASSUME NEW d \in ended', \A v \in Workers : load[v] \notin {"empty", "error"}
                PROVE  users'[d.email] # NoUser /\ d.version < users'[d.email].version
    BY <1>18 DEF ResetPassword
  <2>1. /\ ended' = ended \cup OfUser(e)
        /\ users' = [users EXCEPT ![e] = [password |-> p, version |-> @.version + 1]]
        /\ users[e] \in Users
    BY <1>18 DEF ResetPassword
  <2>2. users'[e] # NoUser /\ users'[e].version = users[e].version + 1
    BY <2>1
  <2>3. CASE d \in ended
    BY <2>1, <2>2, <2>3
  <2>4. CASE d \in OfUser(e)
    BY <2>1, <2>2, <2>4 DEF OfUser, CookieInv, Knows
  <2>. QED
    BY <2>1, <2>3, <2>4
<1>19. ASSUME NEW e \in Emails, Forget(e) PROVE EndedInv'
  BY <1>19 DEF Forget
<1>20. CASE UNCHANGED vars
  BY <1>20 DEF vars
<1>. QED
  BY <1>1, <1>2, <1>3, <1>4, <1>5, <1>6, <1>7, <1>8, <1>9, <1>10, <1>11, <1>12, <1>13, <1>14, <1>15,
     <1>16, <1>17, <1>18, <1>19, <1>20
     DEF Next, LoadSecret, Serve

(* The requests of an account that have passed the limit and may still     *)
(* record a failure.                                                       *)
Passed(e) == {r \in Requests : req[r].at \in {"fetching", "recording"} /\ req[r].email = e}

AttemptsFall ==
    \A e \in Emails : failures'[e] <= failures[e] /\ Passed(e)' \subseteq Passed(e)

Counting == \E r \in Requests : CheckLimit(r) \/ RecordFailure(r)

(* Only the check of the limit lets a request pass, and only the record of *)
(* a failure counts one.                                                   *)
LEMMA AttemptsStep ==
    ASSUME TypeInv, [Next]_vars
    PROVE  AttemptsFall \/ Counting
<1>. USE AccountConstants DEF TypeInv, TypeOK, AttemptsFall, Passed, RequestsInProgress,
         SignupSteps, LoginSteps, Idle, dbVars, secretVars, Goes, Ends, HasSecret
<1>1. ASSUME NEW w \in Workers, ReadSecret(w) PROVE AttemptsFall \/ Counting
  BY <1>1 DEF ReadSecret
<1>2. ASSUME NEW w \in Workers, CreateFile(w) PROVE AttemptsFall \/ Counting
  BY <1>2 DEF CreateFile
<1>3. ASSUME NEW w \in Workers, WriteSecret(w) PROVE AttemptsFall \/ Counting
  BY <1>3 DEF WriteSecret
<1>4. ASSUME NEW w \in Workers, DiesWriting(w) PROVE AttemptsFall \/ Counting
  BY <1>4 DEF DiesWriting
<1>5. ASSUME NEW w \in Workers, Reread(w) PROVE AttemptsFall \/ Counting
  BY <1>5 DEF Reread
<1>6. ASSUME NEW r \in Requests, NEW k \in {"signup", "login"}, NEW e \in Emails,
               NEW p \in Passwords, Arrives(r, k, e, p)
      PROVE  AttemptsFall \/ Counting
  BY <1>6 DEF Arrives
<1>7. ASSUME NEW r \in Requests, LockSignup(r) PROVE AttemptsFall \/ Counting
  BY <1>7 DEF LockSignup
<1>8. ASSUME NEW r \in Requests, CountUsers(r) PROVE AttemptsFall \/ Counting
  BY <1>8 DEF CountUsers
<1>9. ASSUME NEW r \in Requests, InsertUser(r) PROVE AttemptsFall \/ Counting
  BY <1>9 DEF InsertUser
<1>10. ASSUME NEW r \in Requests, CheckLimit(r) PROVE AttemptsFall \/ Counting
  BY <1>10 DEF Counting
<1>11. ASSUME NEW r \in Requests, FetchUser(r) PROVE AttemptsFall \/ Counting
  BY <1>11 DEF FetchUser
<1>12. ASSUME NEW r \in Requests, RecordFailure(r) PROVE AttemptsFall \/ Counting
  BY <1>12 DEF Counting
<1>13. ASSUME NEW r \in Requests, ClearFailures(r) PROVE AttemptsFall \/ Counting
  BY <1>13 DEF ClearFailures
<1>14. ASSUME NEW r \in Requests, Aborts(r) PROVE AttemptsFall \/ Counting
  BY <1>14 DEF Aborts
<1>15. ASSUME NEW r \in Requests, NEW w \in Workers, SetCookie(r, w) PROVE AttemptsFall \/ Counting
  BY <1>15 DEF SetCookie
<1>16. ASSUME NEW c \in cookies, Expires(c) PROVE AttemptsFall \/ Counting
  BY <1>16 DEF Expires
<1>17. ASSUME NEW c \in cookies, NEW w \in Workers, Logout(c, w) PROVE AttemptsFall \/ Counting
  BY <1>17 DEF Logout
<1>18. ASSUME NEW e \in Emails, NEW p \in Passwords, ResetPassword(e, p) 
      PROVE  AttemptsFall \/ Counting
  BY <1>18 DEF ResetPassword
<1>19. ASSUME NEW e \in Emails, Forget(e) PROVE AttemptsFall \/ Counting
  BY <1>19 DEF Forget
<1>20. CASE UNCHANGED vars
  BY <1>20 DEF vars
<1>. QED
  BY <1>1, <1>2, <1>3, <1>4, <1>5, <1>6, <1>7, <1>8, <1>9, <1>10, <1>11, <1>12, <1>13, <1>14, <1>15,
     <1>16, <1>17, <1>18, <1>19, <1>20
     DEF Next, LoadSecret, Serve

(* Failures and passed requests never reach the limit and the number of    *)
(* requests together.                                                      *)
LEMMA BoundStep ==
    ASSUME TypeInv, CookieInv, [Next]_vars, AttemptsBounded
    PROVE  AttemptsBounded'
<1>. SUFFICES ASSUME NEW e \in Emails
              PROVE  failures'[e] + Cardinality(Passed(e)') < MaxAttempts + Cardinality(Requests)
  BY DEF AttemptsBounded, Passed
<1>1. /\ IsFiniteSet(Passed(e)) /\ IsFiniteSet(Passed(e)')
      /\ Cardinality(Passed(e)) \in Nat /\ Cardinality(Passed(e)') \in Nat
      /\ Cardinality(Passed(e)') <= Cardinality(Requests) /\ Cardinality(Requests) \in Nat
  BY AccountConstants, FS_Subset, FS_CardinalityType DEF Passed
<1>2. failures \in [Emails -> Nat] /\ MaxAttempts \in Nat
  BY AccountConstants DEF TypeInv, TypeOK
<1>3. failures'[e] \in Nat
  BY TypeStep DEF TypeInv, TypeOK
<1>4. failures[e] + Cardinality(Passed(e)) < MaxAttempts + Cardinality(Requests)
  BY DEF AttemptsBounded, Passed
<1>5. CASE AttemptsFall
  <2>1. Cardinality(Passed(e)') <= Cardinality(Passed(e))
    BY <1>1, <1>5, FS_Subset DEF AttemptsFall
  <2>. QED
    BY <1>1, <1>2, <1>3, <1>4, <1>5, <2>1 DEF AttemptsFall
<1>6. ASSUME NEW r \in Requests, CheckLimit(r)
      PROVE  failures'[e] + Cardinality(Passed(e)') < MaxAttempts + Cardinality(Requests)
  <2>1. CASE req[r].email = e /\ failures[e] < MaxAttempts
    BY <1>1, <1>2, <1>6, <2>1 DEF CheckLimit, dbVars
  <2>2. CASE ~(req[r].email = e /\ failures[e] < MaxAttempts)
    <3>1. Passed(e)' \subseteq Passed(e)
      BY <1>2, <1>6, <2>2 DEF CheckLimit, Goes, Ends, Idle, Passed, TypeInv, RequestsInProgress
    <3>2. Cardinality(Passed(e)') <= Cardinality(Passed(e)) /\ failures' = failures
      BY <1>1, <1>6, <3>1, FS_Subset DEF CheckLimit, dbVars
    <3>. QED
      BY <1>1, <1>2, <1>4, <3>2
  <2>. QED
    BY <2>1, <2>2
<1>7. ASSUME NEW r \in Requests, RecordFailure(r)
      PROVE  failures'[e] + Cardinality(Passed(e)') < MaxAttempts + Cardinality(Requests)
  <2>1. req[r] \in RequestsInProgress /\ req[r].at = "recording"
    BY <1>7 DEF RecordFailure, TypeInv, Idle
  <2>2. Passed(e)' = Passed(e) \ {r}
    BY <1>7, <2>1 DEF RecordFailure, Ends, Idle, Passed, TypeInv
  <2>3. Cardinality(Passed(e)') = Cardinality(Passed(e)) - (IF r \in Passed(e) THEN 1 ELSE 0)
    BY <1>1, <2>2, FS_RemoveElement
  <2>4. failures'[e] <= failures[e] + (IF r \in Passed(e) THEN 1 ELSE 0)
    BY <1>2, <1>7, <2>1 DEF RecordFailure, Passed
  <2>. QED
    BY <1>1, <1>2, <1>3, <1>4, <2>3, <2>4
<1>. QED
  BY <1>5, <1>6, <1>7, AttemptsStep DEF Counting

(* The initial states satisfy every part of the invariant.                 *)
LEMMA InitInv == Init => AccountsInv
BY AccountConstants
   DEF Init, AccountsInv, TypeInv, TypeOK, SecretInv, SignupInv, CookieInv, EndedInv, Ready, Idle,
       SignupSteps

(* The invariant is inductive.                                             *)
LEMMA AccountsStep == AccountsInv /\ [Next]_vars => AccountsInv'
BY TypeStep, SecretStep, SignupStep, CookieStep, EndedStep DEF AccountsInv

(* The invariant holds in every reachable state.                           *)
THEOREM AccountsInvHolds == Spec => []AccountsInv
BY InitInv, AccountsStep, PTL DEF Spec

(* However many processes load the fallback secret at once, and whichever  *)
(* of them dies, those that share one share the file's.                    *)
THEOREM SecretIsShared == Spec => []SecretsAgree
<1>1. AccountsInv => SecretsAgree
  BY DEF AccountsInv, SecretInv, SecretsAgree
<1>. QED
  BY <1>1, AccountsInvHolds, PTL

(* However many sign-ups arrive at once, there is never a second account   *)
(* unless sign-ups are allowed.                                            *)
THEOREM SecondAccountRefused == Spec => []OneAccount
<1>1. AccountsInv => OneAccount
  <2>. SUFFICES ASSUME AccountsInv, ~allow
                PROVE  Cardinality({e \in Emails : users[e] # NoUser}) <= 1
    BY DEF AccountsInv, TypeInv, OneAccount
  <2>. DEFINE taken == {e \in Emails : users[e] # NoUser}
  <2>1. CASE taken = {}
    BY <2>1, FS_EmptySet
  <2>2. ASSUME NEW e \in taken PROVE Cardinality(taken) <= 1
    <3>1. taken = {e}
      BY <2>2 DEF AccountsInv, SignupInv
    <3>. QED
      BY <3>1, FS_Singleton
  <2>. QED
    BY <2>1, <2>2
<1>. QED
  BY <1>1, AccountsInvHolds, PTL

(* A cookie that is accepted was obtained with the account's present       *)
(* password and, where the processes share their secret, was not set       *)
(* before a log-out or a password reset, whatever was under way then.      *)
THEOREM EndedSessionsRefused == Spec => []RevokedIsRejected
<1>1. AccountsInv => RevokedIsRejected
  <2>. SUFFICES ASSUME AccountsInv, NEW c \in cookies, NEW w \in Workers, Accepts(c, w)
                PROVE  /\ c.password = users[c.email].password
                       /\ c \in ended => \E v \in Workers : load[v] \in {"empty", "error"}
    BY DEF RevokedIsRejected
  <2>1. c.password = users[c.email].password
    BY DEF AccountsInv, CookieInv, Knows, Accepts
  <2>2. c.version \in Nat
    BY AccountConstants DEF AccountsInv, TypeInv, TypeOK, Cookies
  <2>3. c \in ended => \E v \in Workers : load[v] \in {"empty", "error"}
    BY <2>2 DEF AccountsInv, EndedInv, Accepts
  <2>. QED
    BY <2>1, <2>3
<1>. QED
  BY <1>1, AccountsInvHolds, PTL

(* An account never has as many failures and passed requests as the limit  *)
(* and the number of requests together: what checking before verifying and *)
(* recording after can exceed it by, for any number of either.             *)
THEOREM GuessesAreLimited == Spec => []AttemptsBounded
<1>1. Init => AttemptsBounded
  <2>. SUFFICES ASSUME Init, NEW e \in Emails
                PROVE  failures[e] + Cardinality(Passed(e)) < MaxAttempts + Cardinality(Requests)
    BY DEF AttemptsBounded, Passed
  <2>1. Passed(e) = {} /\ failures[e] = 0
    BY DEF Init, Idle, Passed
  <2>2. Cardinality(Passed(e)) = 0 /\ Cardinality(Requests) \in Nat
    BY <2>1, AccountConstants, FS_EmptySet, FS_CardinalityType
  <2>. QED
    BY <2>1, <2>2, AccountConstants
<1>2. AccountsInv /\ AttemptsBounded /\ [Next]_vars => AttemptsBounded'
  BY BoundStep DEF AccountsInv
<1>. QED
  BY <1>1, <1>2, AccountsInvHolds, PTL DEF Spec
==============================================================================
