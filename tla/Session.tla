------------------------------ MODULE Session ------------------------------
(***************************************************************************)
(* Signing in, the session cookie and the password.  The API keeps no      *)
(* sessions: a cookie carries the fingerprint of the password's hash it    *)
(* was issued under and an expiry, and every guarded request compares it   *)
(* with the hash stored now.  Each browser remembers who it last heard it  *)
(* is, and its pages are guarded by that memory.                           *)
(*                                                                         *)
(* A password stands for its text; its hash, salted, is new with every     *)
(* change, and is the number of the change.                                *)
(***************************************************************************)
EXTENDS Naturals, SequencesExt, Listings

CONSTANTS
    Browsers,
    Passwords,    \* with the bootstrap password among them
    Bootstrap,    \* BOOTSTRAP_PASSWORD, or Null
    MaxFailures,  \* maxFailures
    Window,       \* windowMs
    Expires,      \* JWT_EXPIRES_SECONDS
    MaxClock,     \* bound
    MaxChanges,   \* bound: changes of the password
    Null

VARIABLES
    user,      \* the row of the user table, or Null: password and hash
    failures,  \* the throttle's times of failed logins
    clock,
    cookie,    \* by browser: hash, expiry and the password typed for it, or Null
    me,        \* by browser: the query "me": TRUE, FALSE, or Null before it
    page,      \* by browser: "login", "inside"
    call       \* by browser: the request under way, or Null

vars == <<user, failures, clock, cookie, me, page, call>>

Init ==
    /\ user = Null
    /\ failures = <<>>
    /\ clock = 0
    /\ cookie = [b \in Browsers |-> Null]
    /\ me = [b \in Browsers |-> Null]
    /\ page = [b \in Browsers |-> "login"]
    /\ call = [b \in Browsers |-> Null]

-----------------------------------------------------------------------------
(* AuthService *)

\* At the start of the API; a user that exists is left as it is.
bootstrapUserIfEmpty ==
    /\ user = Null /\ Bootstrap # Null
    /\ user' = [password |-> Bootstrap, hash |-> 1]
    /\ UNCHANGED <<failures, clock, cookie, me, page, call>>

createToken(hash, typed) == [hash |-> hash, until |-> clock + Expires, typed |-> typed]

\* Mutant: a cookie is good until it expires.
verifyUnexpired(c) == c # Null /\ user # Null /\ clock < c.until

verifySession(c) == c # Null /\ user # Null /\ clock < c.until /\ c.hash = user.hash

\* AuthGuard, before every request but login and logout.
canActivate(b) == verifySession(cookie[b])

\* LoginThrottle: failures within the window.
recent == Without(failures, {at \in ToSet(failures) : ~(clock - at < Window)})

Throttled == Len(recent) >= MaxFailures

-----------------------------------------------------------------------------
(* Requests: sent, decided by the API, answered.  The API awaits the hashing in between: *)
(* what it read of the user may have changed by the time it answers. *)

Calls(b, c) == call[b] = Null /\ call' = [call EXCEPT ![b] = c]

onSubmit(b) ==
    /\ page[b] = "login"
    /\ \E p \in Passwords : Calls(b, [kind |-> "login", at |-> "sent", password |-> p])
    /\ UNCHANGED <<user, failures, clock, cookie, me, page>>

\* Throttled: the answer is ready.  Otherwise the row that was read decides.
login(b) ==
    /\ call[b] # Null /\ call[b].kind = "login" /\ call[b].at = "sent"
    /\ failures' = recent
    /\ LET typed == call[b].password
           read == IF user # Null /\ user.password = typed THEN user.hash ELSE Null
       IN  call' = [call EXCEPT ![b] = [kind |-> "login", password |-> typed, hash |-> read,
                                        at |-> IF Throttled THEN "throttled" ELSE "hashing"]]
    /\ UNCHANGED <<user, clock, cookie, me, page>>

\* A failure is recorded; a success forgets all of them and sets the cookie.
LoginDecided(b) ==
    /\ call[b] # Null /\ call[b].kind = "login" /\ call[b].at = "hashing"
    /\ IF call[b].hash = Null
       THEN failures' = Append(recent, clock) /\ UNCHANGED cookie
       ELSE failures' = <<>> /\ cookie' = [cookie EXCEPT ![b] = createToken(call[b].hash, call[b].password)]
    /\ call' = [call EXCEPT ![b].at = IF call[b].hash = Null THEN "refused" ELSE "done"]
    /\ UNCHANGED <<user, clock, me, page>>

\* useLogin and login.vue: the user is known, the start page is next.
LoginAnswered(b) ==
    /\ call[b] # Null /\ call[b].kind = "login" /\ call[b].at \in {"throttled", "refused", "done"}
    /\ me' = IF call[b].at = "done" THEN [me EXCEPT ![b] = TRUE] ELSE me
    /\ page' = IF call[b].at = "done" THEN [page EXCEPT ![b] = "inside"] ELSE page
    /\ call' = [call EXCEPT ![b] = Null]
    /\ UNCHANGED <<user, failures, clock, cookie>>

\* Konto.vue; the guard reads the row, the old password is compared with it.
changePassword(b) ==
    /\ page[b] = "inside" /\ canActivate(b)
    /\ user.hash <= MaxChanges
    /\ \E new \in Passwords \ {user.password} :
        Calls(b, [kind |-> "change", at |-> "hashing", password |-> new])
    /\ UNCHANGED <<user, failures, clock, cookie, me, page>>

\* setPassword writes whatever row there is by then, and the cookie of this browser goes.
PasswordSet(b) ==
    /\ call[b] # Null /\ call[b].kind = "change" /\ call[b].at = "hashing"
    /\ user.hash <= MaxChanges
    /\ user' = [password |-> call[b].password, hash |-> user.hash + 1]
    /\ cookie' = [cookie EXCEPT ![b] = Null]
    /\ call' = [call EXCEPT ![b].at = "done"]
    /\ UNCHANGED <<failures, clock, me, page>>

\* The query "me" becomes null; a while later the page is left for the login.
ChangeAnswered(b) ==
    /\ call[b] # Null /\ call[b].kind = "change" /\ call[b].at = "done"
    /\ me' = [me EXCEPT ![b] = FALSE]
    /\ call' = [call EXCEPT ![b] = Null]
    /\ UNCHANGED <<user, failures, clock, cookie, page>>

\* Whether or not the API could be reached: it only clears the cookie.
logout(b) ==
    /\ page[b] = "inside" /\ call[b] = Null
    /\ cookie' \in {cookie, [cookie EXCEPT ![b] = Null]}
    /\ me' = [me EXCEPT ![b] = FALSE]
    /\ page' = [page EXCEPT ![b] = "login"]
    /\ UNCHANGED <<user, failures, clock, call>>

-----------------------------------------------------------------------------
(* The query "me" and the middleware of the pages *)

\* Fetched when it is older than a minute or a page asks for it: 401 means nobody.
FetchMe(b) ==
    /\ me' = [me EXCEPT ![b] = canActivate(b)]
    /\ UNCHANGED <<user, failures, clock, cookie, page, call>>

\* auth: without a user to the login; guest: with one to the start page.
Navigates(b) ==
    /\ call[b] = Null /\ me[b] # Null
    /\ page' = [page EXCEPT ![b] = IF me[b] THEN "inside" ELSE "login"]
    /\ UNCHANGED <<user, failures, clock, cookie, me, call>>

Tick ==
    /\ clock < MaxClock
    /\ clock' = clock + 1
    /\ UNCHANGED <<user, failures, cookie, me, page, call>>

Next ==
    \/ bootstrapUserIfEmpty \/ Tick
    \/ \E b \in Browsers :
        \/ onSubmit(b) \/ login(b) \/ LoginDecided(b) \/ LoginAnswered(b)
        \/ changePassword(b) \/ PasswordSet(b) \/ ChangeAnswered(b)
        \/ logout(b) \/ FetchMe(b) \/ Navigates(b)

Spec == Init /\ [][Next]_vars

-----------------------------------------------------------------------------
\* The throttle admits one failure more for every browser whose password is being hashed.
TypeOK ==
    /\ user # Null => user.password \in Passwords /\ user.hash \in 1..(MaxChanges + 1)
    /\ Len(failures) < MaxFailures + Cardinality(Browsers)
    /\ \A b \in Browsers : me[b] \in {Null, TRUE, FALSE} /\ page[b] \in {"login", "inside"}

\* A session in force was begun with the password in force, however logins and changes of
\* the password overlap (AuthService: the fingerprint of the row that was verified goes
\* into the cookie and is compared with the row stored now).
SessionIsOfThePassword ==
    \A b \in Browsers : canActivate(b) => cookie[b].typed = user.password
=============================================================================
