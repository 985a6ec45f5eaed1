---------------------------- MODULE SessionProofs ----------------------------
(***************************************************************************)
(* A session belongs to the password in force, for any browsers and        *)
(* passwords, any times and any number of changes.                         *)
(***************************************************************************)
EXTENDS Session, TLAPS

Row == [password : Passwords, hash : Nat]

Call ==
    [kind : {"login"}, at : {"sent"}, password : Passwords]
      \cup [kind : {"login"}, password : Passwords, hash : Nat \cup {Null},
            at : {"throttled", "hashing", "refused", "done"}]
      \cup [kind : {"change"}, at : {"hashing", "done"}, password : Passwords]

\* What createToken puts into a cookie; the time does not matter here.
Cookie == UNION {[hash : Nat, until : {t}, typed : Passwords] : t \in Int}

\* The bootstrap password is a password; Null is neither a row, nor a number, nor a call.
ConstantsOK ==
    /\ Bootstrap \in Passwords \cup {Null}
    /\ Expires \in Nat
    /\ Null \notin Row \cup Nat \cup Call

(***************************************************************************)
(* A hash, the number of a change, goes with one password for good: who    *)
(* holds one, in a cookie or in a login that is still hashing, holds an    *)
(* old one or that of the row, together with the password of the row.      *)
(***************************************************************************)
Of(hash, password) ==
    /\ user \in Row
    /\ hash <= user.hash
    /\ hash = user.hash => password = user.password

CookiesSound == \A b \in Browsers : cookie[b] # Null => Of(cookie[b].hash, cookie[b].typed)

CallsSound ==
    \A b \in Browsers : call[b] # Null =>
        /\ call[b].kind = "login" /\ call[b].at = "hashing" /\ call[b].hash # Null
              => Of(call[b].hash, call[b].password)
        /\ call[b].kind = "change" => user \in Row

Typed ==
    /\ user \in Row \cup {Null}
    /\ clock \in Nat
    /\ cookie \in [Browsers -> Cookie \cup {Null}]
    /\ call \in [Browsers -> Call \cup {Null}]

Inv == Typed /\ CookiesSound /\ CallsSound

-----------------------------------------------------------------------------
LEMMA InitInv == ASSUME ConstantsOK PROVE Init => Inv
  BY DEF Init, Inv, Typed, CookiesSound, CallsSound

\* Nothing about a cookie or a call changes when another part of the state does.
LEMMA SameInv ==
    ASSUME Inv, clock' \in Nat, UNCHANGED <<user, cookie, call>>
    PROVE  Inv'
  BY DEF Inv, Typed, CookiesSound, CallsSound, Of

\* A call begins, or goes on, under the row there is.
LEMMA CallStep ==
    ASSUME Inv, NEW b \in Browsers, NEW c \in Call \cup {Null},
           UNCHANGED <<user, clock, cookie>>,
           call' = [call EXCEPT ![b] = c],
           c # Null => /\ c.kind = "login" /\ c.at = "hashing" /\ c.hash # Null
                             => Of(c.hash, c.password)
                       /\ c.kind = "change" => user \in Row
    PROVE  Inv'
  <1>1. Typed' BY DEF Inv, Typed
  <1>2. CookiesSound' BY DEF Inv, CookiesSound, Of
  <1>3. CallsSound'
    <2> SUFFICES ASSUME NEW x \in Browsers, call'[x] # Null
                 PROVE  /\ call'[x].kind = "login" /\ call'[x].at = "hashing" /\ call'[x].hash # Null
                              => Of(call[x].hash, call[x].password)'
                        /\ call'[x].kind = "change" => user' \in Row
      BY DEF CallsSound
    <2>1. CASE x = b BY <2>1 DEF Inv, Typed, Of
    <2>2. CASE x # b BY <2>2 DEF Inv, Typed, CallsSound, Of
    <2> QED BY <2>1, <2>2
  <1> QED BY <1>1, <1>2, <1>3 DEF Inv

LEMMA NextInv == ASSUME ConstantsOK, Inv, [Next]_vars PROVE Inv'
  <1>1. CASE bootstrapUserIfEmpty
    <2>1. user \notin Row BY <1>1 DEF bootstrapUserIfEmpty, ConstantsOK
    <2>2. user' \in Row BY <1>1 DEF bootstrapUserIfEmpty, ConstantsOK, Row
    <2>3. \A b \in Browsers :
             cookie[b] = Null /\ ~(/\ call[b] # Null /\ call[b].kind = "login"
                                   /\ call[b].at = "hashing" /\ call[b].hash # Null)
      BY <2>1 DEF Inv, CookiesSound, CallsSound, Of
    <2> QED BY <1>1, <2>2, <2>3 DEF bootstrapUserIfEmpty, Inv, Typed, CookiesSound, CallsSound
  <1>2. CASE Tick BY <1>2, SameInv DEF Tick, Inv, Typed
  <1>3. ASSUME NEW b \in Browsers, onSubmit(b) PROVE Inv'
    <2>1. PICK p \in Passwords :
             call' = [call EXCEPT ![b] = [kind |-> "login", at |-> "sent", password |-> p]]
      BY <1>3 DEF onSubmit, Calls
    <2>2. [kind |-> "login", at |-> "sent", password |-> p] \in Call BY DEF Call
    <2> QED BY <1>3, <2>1, <2>2, CallStep DEF onSubmit
  <1>4. ASSUME NEW b \in Browsers, login(b) PROVE Inv'
    <2>1. PICK p \in Passwords : p = call[b].password BY <1>4 DEF login, Inv, Typed, Call
    <2> DEFINE matches == user # Null /\ user.password = p
    <2>2. PICK h \in Nat \cup {Null} :
             /\ h = IF matches THEN user.hash ELSE Null
             /\ h # Null => Of(h, p)
      <3>1. CASE matches
        <4>1. user \in Row /\ user.hash \in Nat BY <3>1 DEF Inv, Typed, Row
        <4>2. Of(user.hash, p) BY <3>1, <4>1 DEF Of
        <4> QED BY <3>1, <4>1, <4>2
      <3>2. CASE ~matches BY <3>2
      <3> QED BY <3>1, <3>2
    <2>3. PICK at \in {"throttled", "hashing"} : at = IF Throttled THEN "throttled" ELSE "hashing"
      OBVIOUS
    <2>4. call' = [call EXCEPT ![b] = [kind |-> "login", password |-> p, hash |-> h, at |-> at]]
      BY <1>4, <2>1, <2>2, <2>3 DEF login
    <2>5. [kind |-> "login", password |-> p, hash |-> h, at |-> at] \in Call BY DEF Call
    <2>6. UNCHANGED <<user, clock, cookie>> BY <1>4 DEF login
    <2> QED BY <2>2, <2>4, <2>5, <2>6, CallStep
  <1>5. ASSUME NEW b \in Browsers, LoginDecided(b) PROVE Inv'
    <2>1. call[b] \in [kind : {"login"}, password : Passwords, hash : Nat \cup {Null},
                       at : {"throttled", "hashing", "refused", "done"}]
      BY <1>5 DEF LoginDecided, Inv, Typed, Call
    <2> DEFINE at == IF call[b].hash = Null THEN "refused" ELSE "done"
               c == [call[b] EXCEPT !.at = at]
    <2>2. c \in Call /\ c.at # "hashing" /\ c.kind = "login" BY <2>1 DEF Call
    <2>3. call' = [call EXCEPT ![b] = c] BY <1>5 DEF LoginDecided
    <2> HIDE DEF c
    <2>4. CallsSound' /\ call' \in [Browsers -> Call \cup {Null}]
      BY <1>5, <2>2, <2>3 DEF LoginDecided, Inv, Typed, CallsSound, Of
    <2>5. CASE call[b].hash = Null
      BY <1>5, <2>4, <2>5 DEF LoginDecided, Inv, Typed, CookiesSound, Of
    <2>6. CASE call[b].hash # Null
      <3> DEFINE k == createToken(call[b].hash, call[b].password)
      <3>1. cookie' = [cookie EXCEPT ![b] = k] BY <1>5, <2>6 DEF LoginDecided
      <3>2. k \in Cookie /\ k.hash = call[b].hash /\ k.typed = call[b].password
        <4>1. clock + Expires \in Int BY DEF Inv, Typed, ConstantsOK
        <4>2. k \in [hash : Nat, until : {clock + Expires}, typed : Passwords]
          BY <2>1, <2>6 DEF createToken
        <4> QED BY <4>1, <4>2 DEF Cookie, createToken
      <3>3. Of(k.hash, k.typed) BY <1>5, <2>6, <3>2 DEF LoginDecided, Inv, CallsSound
      <3> HIDE DEF k
      <3>4. Typed' BY <1>5, <2>4, <3>1, <3>2 DEF LoginDecided, Inv, Typed
      <3>5. CookiesSound'
        BY <1>5, <3>1, <3>3 DEF LoginDecided, Inv, Typed, CookiesSound, Of
      <3> QED BY <2>4, <3>4, <3>5 DEF Inv
    <2> QED BY <2>5, <2>6
  <1>6. ASSUME NEW b \in Browsers, LoginAnswered(b) PROVE Inv'
    BY <1>6, CallStep DEF LoginAnswered
  <1>7. ASSUME NEW b \in Browsers, changePassword(b) PROVE Inv'
    <2>1. PICK new \in Passwords :
             call' = [call EXCEPT ![b] = [kind |-> "change", at |-> "hashing", password |-> new]]
      BY <1>7 DEF changePassword, Calls
    <2>2. [kind |-> "change", at |-> "hashing", password |-> new] \in Call BY DEF Call
    <2>3. user \in Row BY <1>7 DEF changePassword, canActivate, verifySession, Inv, Typed
    <2> QED BY <1>7, <2>1, <2>2, <2>3, CallStep DEF changePassword
  <1>8. ASSUME NEW b \in Browsers, PasswordSet(b) PROVE Inv'
    <2>1. user \in Row BY <1>8 DEF PasswordSet, Inv, CallsSound
    <2>2. call[b] \in [kind : {"change"}, at : {"hashing", "done"}, password : Passwords]
      BY <1>8 DEF PasswordSet, Inv, Typed, Call
    <2>3. user' \in Row /\ user'.hash = user.hash + 1
      BY <1>8, <2>1, <2>2 DEF PasswordSet, Row
    <2>4. \A hash \in Nat, p \in Passwords : Of(hash, p) => Of(hash, p)'
      BY <2>1, <2>3 DEF Of, Row
    <2> DEFINE c == [call[b] EXCEPT !.at = "done"]
    <2>5. c \in Call /\ c.at # "hashing" BY <2>2 DEF Call
    <2>6. call' = [call EXCEPT ![b] = c] BY <1>8 DEF PasswordSet
    <2> HIDE DEF c
    <2>7. Typed' BY <1>8, <2>3, <2>5, <2>6 DEF PasswordSet, Inv, Typed
    <2>8. CookiesSound'
      <3>1. \A x \in Browsers : cookie'[x] # Null => /\ cookie'[x] = cookie[x]
                                                     /\ cookie[x].hash \in Nat
                                                     /\ cookie[x].typed \in Passwords
        BY <1>8 DEF PasswordSet, Inv, Typed, Cookie
      <3> QED BY <2>4, <3>1 DEF Inv, CookiesSound
    <2>9. CallsSound'
      <3> SUFFICES ASSUME NEW x \in Browsers, call'[x] # Null,
                          call'[x].kind = "login", call'[x].at = "hashing", call'[x].hash # Null
                   PROVE  Of(call[x].hash, call[x].password)'
        BY <2>3 DEF CallsSound
      <3>1. x # b /\ call'[x] = call[x] BY <2>5, <2>6 DEF Inv, Typed
      <3>2. call[x].hash \in Nat /\ call[x].password \in Passwords
        BY <3>1 DEF Inv, Typed, Call
      <3> QED BY <2>4, <3>1, <3>2 DEF Inv, CallsSound
    <2> QED BY <2>7, <2>8, <2>9 DEF Inv
  <1>9. ASSUME NEW b \in Browsers, ChangeAnswered(b) PROVE Inv'
    BY <1>9, CallStep DEF ChangeAnswered
  <1>10. ASSUME NEW b \in Browsers, logout(b) PROVE Inv'
    BY <1>10 DEF logout, Inv, Typed, CookiesSound, CallsSound, Of
  <1>11. ASSUME NEW b \in Browsers, FetchMe(b) \/ Navigates(b) PROVE Inv'
    BY <1>11, SameInv DEF FetchMe, Navigates, Inv, Typed
  <1>12. CASE UNCHANGED vars BY <1>12, SameInv DEF vars, Inv, Typed
  <1> QED BY <1>1, <1>2, <1>3, <1>4, <1>5, <1>6, <1>7, <1>8, <1>9, <1>10, <1>11, <1>12 DEF Next

\* A session in force was begun with the password in force, however logins and changes of
\* the password overlap (auth.service.ts: the fingerprint in the cookie).
THEOREM SessionsFollowThePassword ==
    ASSUME ConstantsOK PROVE Spec => []SessionIsOfThePassword
  <1>1. Inv => SessionIsOfThePassword
    BY DEF Inv, CookiesSound, Of, SessionIsOfThePassword, canActivate, verifySession
  <1>2. Init => Inv BY InitInv
  <1>3. Inv /\ [Next]_vars => Inv' BY NextInv
  <1> QED BY <1>1, <1>2, <1>3, PTL DEF Spec
=============================================================================
