--------------------------- MODULE AuthServerProofs ---------------------------
(***************************************************************************)
(* Theorems about AuthServer, for all values of its constants: any number  *)
(* of threads, browsers, accounts, tokens and ticks.                       *)
(***************************************************************************)
EXTENDS AuthServer, TLAPS

-----------------------------------------------------------------------------
(* Type correctness.  What the statements on the store do to the tables is *)
(* stated once, for all the handlers that call them.                       *)

(* InsertUser, as signup calls it, keeps the tables typed. *)
LEMMA InsertUserType ==
  ASSUME StoreTypeOK, NEW email \in Emails, NEW password \in Passwords, NEW salt \in Salts,
         InsertUser(email, PasswordHash(password, salt))
  PROVE  StoreTypeOK'
<1>1. PasswordHash(password, salt) \in Hashes
  BY DEF PasswordHash, Pbkdf2, Hashes
<1>2. users' \subseteq UserRows
  <2>1. userSeq + 1 \in Nat \ {0}
    BY DEF StoreTypeOK
  <2>2. [id |-> userSeq + 1, email |-> email, password_hash |-> PasswordHash(password, salt)]
          \in UserRows
    BY <1>1, <2>1 DEF UserRows
  <2> QED BY <2>2 DEF InsertUser, StoreTypeOK
<1> QED BY <1>2 DEF InsertUser, StoreTypeOK

(* InsertSession keeps the tables typed. *)
LEMMA InsertSessionType ==
  ASSUME StoreTypeOK, NEW token \in Tokens, NEW id \in Nat, InsertSession(token, id)
  PROVE  StoreTypeOK'
<1>1. id \in Nat \ {0}
  <2>1. PICK u \in users : u.id = id
    BY DEF InsertSession, UserExists
  <2>2. u \in UserRows
    BY <2>1 DEF StoreTypeOK
  <2> QED BY <2>1, <2>2 DEF UserRows
<1>2. PICK r \in Rowids :
        LET row == [rowid |-> r, token |-> token, user_id |-> id,
                    expires_at |-> now + SessionTtl]
        IN  /\ sessions' = sessions \cup {row}
            /\ issued' = issued \cup {row}
            /\ lastInsertRowid' = r
  BY DEF InsertSession
<1>3. [rowid |-> r, token |-> token, user_id |-> id, expires_at |-> now + SessionTtl]
        \in SessionRows
  BY <1>1, TimeAssumption DEF SessionRows, StoreTypeOK
<1>4. UNCHANGED <<users, userSeq, now>>
  BY DEF InsertSession
<1> QED BY <1>2, <1>3, <1>4, RowidsAssumption DEF StoreTypeOK

(* The other statements keep the tables typed. *)
LEMMA OtherStatementsType ==
  ASSUME StoreTypeOK,
         \/ \E token \in Tokens : DeleteSession(token)
         \/ PruneSessions \/ Reopen \/ Tick \/ UNCHANGED storeVars
  PROVE  StoreTypeOK'
<1>1. ASSUME NEW token \in Tokens, DeleteSession(token) PROVE StoreTypeOK'
  BY <1>1 DEF StoreTypeOK, DeleteSession
<1>2. CASE PruneSessions
  BY <1>2 DEF StoreTypeOK, PruneSessions
<1>3. CASE Reopen
  BY <1>3 DEF StoreTypeOK, Reopen
<1>4. CASE Tick
  BY <1>4 DEF StoreTypeOK, Tick
<1>5. CASE UNCHANGED storeVars
  BY <1>5 DEF StoreTypeOK, storeVars
<1> QED BY <1>1, <1>2, <1>3, <1>4, <1>5

(* What Reply leaves is a response. *)
LEMMA ReplyType ==
  ASSUME TypeOK, NEW w \in Workers, NEW body, NEW set_cookie, NEW viewer,
         body \in {"none", "weak", "taken", "invalid", "signed_in", "login_page",
                   "content", "home", "error500"},
         set_cookie \in SUBSET Cookies, viewer \in Nat,
         Reply(w, body, set_cookie, viewer)
  PROVE  /\ resp' \in [Workers -> Responses]
         /\ uid' \in [Workers -> Nat]
         /\ pc' = [pc EXCEPT ![w] = "respond"]
<1>1. [body |-> body, set_cookie |-> set_cookie, viewer |-> viewer] \in Responses
  BY DEF Responses
<1> QED BY <1>1 DEF Reply, Goto, TypeOK, NoUser

(* Each step of the server keeps TypeOK. *)
LEMMA TypeInductive == TypeOK /\ [Next]_vars => TypeOK'
<1> SUFFICES ASSUME TypeOK, [Next]_vars PROVE TypeOK'
  OBVIOUS
<1>1. ASSUME NEW w \in Workers, AcceptAny(w) PROVE TypeOK'
  <2>1. PICK b \in Browsers, kind \in Routes, email \in Emails \cup {NoEmail},
            password \in Passwords \cup {ShortPassword} : Accept(w, b, kind, email, password)
    BY <1>1 DEF AcceptAny
  <2>2. [kind |-> kind, browser |-> b, email |-> email, password |-> password,
         cookie |-> jar[b], since |-> now, late |-> jar[b] \in ended] \in Requests
    BY DEF TypeOK, StoreTypeOK, Requests
  <2>3. StoreTypeOK'
    BY <2>1, OtherStatementsType DEF Accept, TypeOK
  <2> QED BY <2>1, <2>2, <2>3 DEF Accept, Goto, TypeOK
<1>2. ASSUME NEW w \in Workers, Sessions(w) PROVE TypeOK'
  <2>1. StoreTypeOK'
    BY <1>2, OtherStatementsType DEF Sessions, TypeOK
  <2>2. ctxUser' \in [Workers -> Nat]
    <3>1. \A u \in users : u.id \in Nat
      BY DEF TypeOK, StoreTypeOK, UserRows
    <3>2. \A token : UserForSession(token) \subseteq users
      BY DEF UserForSession
    <3> QED BY <1>2, <3>1, <3>2 DEF Sessions, TypeOK
  <2> QED BY <1>2, <2>1, <2>2 DEF Sessions, Goto, TypeOK
<1>3. ASSUME NEW w \in Workers, Page(w) \/ Private(w) \/ SignupRejected(w) PROVE TypeOK'
  <2>1. PICK body \in {"content", "login_page", "weak"}, viewer \in {ctxUser[w], NoUser} :
          Reply(w, body, {}, viewer)
    BY <1>3 DEF Page, Private, SignupRejected
  <2>2. pc[w] # "idle" /\ UNCHANGED <<storeVars, req, ctxUser, jar, ended>>
    BY <1>3 DEF Page, Private, SignupRejected
  <2>3. StoreTypeOK'
    BY <2>2, OtherStatementsType DEF TypeOK
  <2>4. viewer \in Nat
    BY DEF TypeOK, NoUser
  <2>5. resp' \in [Workers -> Responses] /\ uid' \in [Workers -> Nat]
        /\ pc' = [pc EXCEPT ![w] = "respond"]
    BY <2>1, <2>4, ReplyType
  <2> QED BY <2>2, <2>3, <2>5 DEF TypeOK
<1>4. ASSUME NEW w \in Workers, SignupCreateUser(w) PROVE TypeOK'
  <2>0. req[w] \in Requests /\ pc[w] # "idle" /\ ctxUser[w] \in Nat
    BY <1>4 DEF SignupCreateUser, TypeOK
  <2>1. CASE /\ \E salt \in Salts :
                   InsertUser(req[w].email, PasswordHash(req[w].password, salt))
             /\ Goto(w, "last_insert_rowid")
             /\ UNCHANGED <<uid, resp>>
    <3>1. req[w].email \in Emails /\ req[w].password \in Passwords
      BY <1>4, <2>0 DEF SignupCreateUser, SignupForm, Requests
    <3>2. StoreTypeOK'
      BY <2>1, <3>1, InsertUserType DEF TypeOK
    <3> QED BY <1>4, <2>0, <2>1, <3>2 DEF SignupCreateUser, Goto, TypeOK
  <2>2. CASE Reply(w, "taken", {}, ctxUser[w]) /\ UNCHANGED storeVars
    <3>1. StoreTypeOK'
      BY <2>2, OtherStatementsType DEF TypeOK
    <3>2. resp' \in [Workers -> Responses] /\ uid' \in [Workers -> Nat]
          /\ pc' = [pc EXCEPT ![w] = "respond"]
      BY <2>0, <2>2, ReplyType
    <3> QED BY <1>4, <2>0, <3>1, <3>2 DEF SignupCreateUser, TypeOK
  <2> QED BY <1>4, <2>1, <2>2 DEF SignupCreateUser
<1>5. ASSUME NEW w \in Workers, SignupUserId(w) PROVE TypeOK'
  <2>1. StoreTypeOK'
    BY <1>5, OtherStatementsType DEF SignupUserId, TypeOK
  <2>2. lastInsertRowid \in Nat
    BY DEF TypeOK, StoreTypeOK
  <2> QED BY <1>5, <2>1, <2>2 DEF SignupUserId, Goto, TypeOK
<1>6. ASSUME NEW w \in Workers, LoginVerify(w) PROVE TypeOK'
  <2>1. StoreTypeOK' /\ pc[w] # "idle" /\ UNCHANGED <<req, ctxUser, jar, ended>>
    BY <1>6, OtherStatementsType DEF LoginVerify, TypeOK
  <2>2. CASE /\ \E u \in FindUserByEmail(req[w].email) : uid' = [uid EXCEPT ![w] = u.id]
             /\ Goto(w, "create_session")
             /\ UNCHANGED resp
    <3>1. \A u \in FindUserByEmail(req[w].email) : u.id \in Nat
      BY DEF FindUserByEmail, TypeOK, StoreTypeOK, UserRows
    <3>2. uid' \in [Workers -> Nat]
      BY <2>2, <3>1 DEF TypeOK
    <3> QED BY <2>1, <2>2, <3>2 DEF Goto, TypeOK
  <2>3. CASE Reply(w, "invalid", {}, ctxUser[w])
    <3>1. resp' \in [Workers -> Responses] /\ uid' \in [Workers -> Nat]
          /\ pc' = [pc EXCEPT ![w] = "respond"]
      BY <2>3, ReplyType DEF TypeOK
    <3> QED BY <2>1, <3>1 DEF TypeOK
  <2> QED BY <1>6, <2>2, <2>3 DEF LoginVerify
<1>7. ASSUME NEW w \in Workers, CreateSession(w) PROVE TypeOK'
  <2>0. pc[w] # "idle" /\ uid[w] \in Nat /\ ctxUser[w] \in Nat
        /\ UNCHANGED <<req, ctxUser, jar, ended>>
    BY <1>7 DEF CreateSession, TypeOK
  <2>1. StoreTypeOK'
    BY <1>7, <2>0, InsertSessionType, OtherStatementsType DEF CreateSession, TypeOK
  <2>2. PICK body \in {"signed_in", "taken", "error500"}, set_cookie \in SUBSET Cookies,
            viewer \in Nat : Reply(w, body, set_cookie, viewer)
    BY <1>7, <2>0 DEF CreateSession, SessionRefused, Cookies, NoUser
  <2>3. resp' \in [Workers -> Responses] /\ uid' \in [Workers -> Nat]
        /\ pc' = [pc EXCEPT ![w] = "respond"]
    BY <2>2, ReplyType
  <2> QED BY <2>0, <2>1, <2>3 DEF TypeOK
<1>8. ASSUME NEW w \in Workers, Logout(w) PROVE TypeOK'
  <2>1. req[w] \in Requests /\ pc[w] # "idle"
    BY <1>8 DEF Logout, TypeOK
  <2>2. req[w].cookie \in Cookies
    BY <2>1 DEF Requests
  <2>3. StoreTypeOK'
    BY <1>8, <2>2, OtherStatementsType DEF Logout, Cookies, TypeOK
  <2>4. resp' \in [Workers -> Responses] /\ uid' \in [Workers -> Nat]
        /\ pc' = [pc EXCEPT ![w] = "respond"]
    BY <1>8, ReplyType DEF Logout, Cookies, NoUser
  <2>5. ended' \subseteq Tokens /\ ctxUser' \in [Workers -> Nat]
    BY <1>8, <2>2 DEF Logout, Cookies, NoUser, TypeOK
  <2> QED BY <1>8, <2>1, <2>3, <2>4, <2>5 DEF Logout, TypeOK
<1>9. ASSUME NEW w \in Workers, Respond(w) PROVE TypeOK'
  <2>1. StoreTypeOK'
    BY <1>9, OtherStatementsType DEF Respond, TypeOK
  <2>2. jar' \in [Browsers -> Cookies]
    BY <1>9 DEF Respond, TypeOK, Responses
  <2>3. NoResponse \in Responses
    BY DEF NoResponse, Responses, NoUser
  <2> QED BY <1>9, <2>1, <2>2, <2>3 DEF Respond, Goto, TypeOK, NoUser
<1>10. CASE Crash
  <2>1. StoreTypeOK'
    BY <1>10, OtherStatementsType DEF Crash, TypeOK
  <2>2. NoResponse \in Responses
    BY DEF NoResponse, Responses, NoUser
  <2> QED BY <1>10, <2>1, <2>2 DEF Crash, TypeOK, NoUser
<1>11. CASE Prune \/ Clock \/ UNCHANGED vars
  <2>1. StoreTypeOK'
    BY <1>11, OtherStatementsType DEF Prune, Clock, vars, TypeOK
  <2> QED BY <1>11, <2>1 DEF Prune, Clock, vars, workerVars, TypeOK
<1> QED BY <1>1, <1>2, <1>3, <1>4, <1>5, <1>6, <1>7, <1>8, <1>9, <1>10, <1>11
        DEF Next, Serve

(* The tables, the threads and the jars hold what the source says they     *)
(* hold, whatever the size of the system.                                  *)
THEOREM TypeCorrect == Spec => []TypeOK
<1>1. Init => TypeOK
  BY DEF Init, StoreInit, TypeOK, StoreTypeOK, NoUser, NoResponse, Responses, Cookies
<1> QED BY <1>1, TypeInductive, PTL DEF Spec

-----------------------------------------------------------------------------
(* The inductive invariant.  The properties speak of cookies in jars and   *)
(* of users of requests; what makes them inductive is where a cookie has   *)
(* been before: a row was issued for it.                                   *)

UsersKeyed ==
  /\ \A u \in users : u.id <= userSeq
  /\ \A u, v \in users : u.id = v.id => u = v

SessionsIssued ==
  /\ sessions \subseteq issued
  /\ \A i, j \in issued : i.token = j.token => i = j
  /\ \A i \in issued : UserExists(i.user_id)

(* A row goes only when it has expired, or by a log-out with its token.    *)
RowsBacked ==
  \A i \in issued : i \in sessions \/ i.expires_at <= now \/ i.token \in ended

IssuedTokens == {i.token : i \in issued}

CookiesIssued ==
  /\ \A b \in Browsers : jar[b] \in IssuedTokens \cup {NoToken}
  /\ \A w \in Workers : resp[w].set_cookie \subseteq IssuedTokens \cup {NoToken}
  /\ \A w \in Workers : pc[w] # "idle" => req[w].cookie \in IssuedTokens \cup {NoToken}
  /\ ended \subseteq IssuedTokens

IdleHasNoUser == \A w \in Workers : pc[w] = "idle" => ctxUser[w] = NoUser

NotBeforeAccepted == \A w \in Workers : pc[w] # "idle" => req[w].since <= now

IInv ==
  /\ TypeOK
  /\ UsersKeyed
  /\ SessionsIssued
  /\ RowsBacked
  /\ CookiesIssued
  /\ IdleHasNoUser
  /\ NotBeforeAccepted
  /\ IdentityIsOwner

(* Log-in: the id it has found is that of the account in the form, and the *)
(* session it opens is that account's.                                     *)
LoginFound ==
  \A w \in Workers : pc[w] = "create_session" /\ req[w].kind = "login" =>
    \E u \in users : /\ u.id = uid[w]
                       /\ u.email = req[w].email
                       /\ VerifyPassword(req[w].password, u.password_hash)

OnlySignupReadsRowid ==
  \A w \in Workers : pc[w] = "last_insert_rowid" => req[w].kind = "signup"

LoginInv == OnlySignupReadsRowid /\ LoginFound /\ LoginOpensOwnSession

(* Log-out, where no statement fails: an ended token has no row, and a     *)
(* request taken after that has its cookie among the ended ones.           *)
EndedHasNoRow == \A s \in sessions : s.token \notin ended

LateIsEnded ==
  \A w \in Workers : pc[w] # "idle" /\ req[w].late => req[w].cookie \in ended

LogoutInv == EndedHasNoRow /\ LateIsEnded /\ LogoutIsFinal

-----------------------------------------------------------------------------
(* What a step of the server may do to the tables and to ended. *)
StoreStep ==
  \/ /\ \E email \in Emails, password \in Passwords, salt \in Salts :
          InsertUser(email, PasswordHash(password, salt))
     /\ UNCHANGED ended
  \/ /\ \E token \in Tokens, id \in Nat : InsertSession(token, id)
     /\ UNCHANGED ended
  \/ \E token \in Tokens : DeleteSession(token) /\ ended' = ended \cup {token}
  \/ (PruneSessions \/ Reopen \/ Tick) /\ UNCHANGED ended
  \/ UNCHANGED storeVars /\ ("DELETE" \in Failing \/ UNCHANGED ended) /\ ended \subseteq ended'

(* Every step of the server is one of those. *)
LEMMA StepsOnStore == TypeOK /\ [Next]_vars => StoreStep
<1> SUFFICES ASSUME TypeOK, [Next]_vars PROVE StoreStep
  OBVIOUS
<1>1. ASSUME NEW w \in Workers,
             \/ AcceptAny(w) \/ Sessions(w) \/ Page(w) \/ Private(w) \/ SignupRejected(w)
             \/ SignupUserId(w) \/ LoginVerify(w) \/ Respond(w)
      PROVE  StoreStep
  <2>1. UNCHANGED storeVars /\ UNCHANGED ended
    BY <1>1 DEF AcceptAny, Accept, Sessions, Page, Private, SignupRejected, SignupUserId,
                LoginVerify, Respond
  <2> QED BY <2>1 DEF StoreStep
<1>2. ASSUME NEW w \in Workers, SignupCreateUser(w) PROVE StoreStep
  <2>1. req[w] \in Requests /\ SignupForm(w) /\ UNCHANGED ended
    BY <1>2 DEF SignupCreateUser, TypeOK
  <2>2. req[w].email \in Emails /\ req[w].password \in Passwords
    BY <2>1 DEF SignupForm, Requests
  <2>3. \/ UNCHANGED storeVars
        \/ \E salt \in Salts :
             InsertUser(req[w].email, PasswordHash(req[w].password, salt))
    BY <1>2 DEF SignupCreateUser
  <2> QED BY <2>1, <2>2, <2>3 DEF StoreStep
<1>3. ASSUME NEW w \in Workers, CreateSession(w) PROVE StoreStep
  <2>1. uid[w] \in Nat /\ UNCHANGED ended
    BY <1>3 DEF CreateSession, TypeOK
  <2>2. UNCHANGED storeVars \/ \E token \in Tokens : InsertSession(token, uid[w])
    BY <1>3 DEF CreateSession
  <2> QED BY <2>1, <2>2 DEF StoreStep
<1>4. ASSUME NEW w \in Workers, Logout(w) PROVE StoreStep
  <2>1. req[w].cookie \in Cookies
    BY <1>4 DEF Logout, TypeOK, Requests
  <2>2. ended' = ended \cup ({req[w].cookie} \ {NoToken})
    BY <1>4 DEF Logout
  <2>3. CASE req[w].cookie # NoToken /\ DeleteSession(req[w].cookie)
    BY <2>1, <2>2, <2>3 DEF StoreStep, Cookies
  <2>4. CASE (req[w].cookie = NoToken \/ "DELETE" \in Failing) /\ UNCHANGED storeVars
    BY <2>1, <2>2, <2>4 DEF StoreStep
  <2> QED BY <1>4, <2>3, <2>4 DEF Logout
<1>5. CASE Crash \/ Prune \/ Clock
  BY <1>5 DEF Crash, Prune, Clock, StoreStep
<1>6. CASE UNCHANGED vars
  BY <1>6 DEF vars, StoreStep
<1> QED BY <1>1, <1>2, <1>3, <1>4, <1>5, <1>6 DEF Next, Serve

(* Accounts, issued tokens, log-outs and the clock only ever grow. *)
LEMMA StoreGrows ==
  ASSUME StoreTypeOK, StoreStep
  PROVE  /\ users \subseteq users' /\ issued \subseteq issued'
         /\ ended \subseteq ended'
         /\ now <= now'
         /\ IssuedTokens \subseteq IssuedTokens'
<1>1. /\ users \subseteq users' /\ issued \subseteq issued'
      /\ ended \subseteq ended' /\ now <= now'
  BY DEF StoreTypeOK, StoreStep, InsertUser, InsertSession, DeleteSession, PruneSessions,
         Reopen, Tick, storeVars
<1> QED BY <1>1 DEF IssuedTokens

(* What the SQL schema guarantees is kept by every step on the tables. *)
LEMMA StoreInductive ==
  ASSUME StoreTypeOK, UsersKeyed, SessionsIssued, RowsBacked, StoreStep
  PROVE  UsersKeyed' /\ SessionsIssued' /\ RowsBacked'
<1> USE DEF UsersKeyed, SessionsIssued, RowsBacked
<1>1. ASSUME NEW email \in Emails, NEW password \in Passwords, NEW salt \in Salts,
             InsertUser(email, PasswordHash(password, salt)), UNCHANGED ended
      PROVE  UsersKeyed' /\ SessionsIssued' /\ RowsBacked'
  <2>1. PICK new : new.id = userSeq + 1 /\ users' = users \cup {new}
    BY <1>1 DEF InsertUser
  <2>2. userSeq' = userSeq + 1 /\ UNCHANGED <<sessions, issued, now>>
    BY <1>1 DEF InsertUser
  <2>3. userSeq \in Nat /\ \A u \in users : u.id \in Nat
    BY DEF StoreTypeOK, UserRows
  <2>4. UsersKeyed'
    BY <2>1, <2>2, <2>3
  <2> QED BY <1>1, <2>1, <2>2, <2>4 DEF UserExists
<1>2. ASSUME NEW token \in Tokens, NEW id \in Nat, InsertSession(token, id), UNCHANGED ended
      PROVE  UsersKeyed' /\ SessionsIssued' /\ RowsBacked'
  <2>1. PICK row : /\ row.token = token /\ row.user_id = id
                   /\ sessions' = sessions \cup {row} /\ issued' = issued \cup {row}
    BY <1>2 DEF InsertSession
  <2>2. FreshToken(token) /\ UserExists(id) /\ UNCHANGED <<users, userSeq, now>>
    BY <1>2 DEF InsertSession
  <2> QED BY <1>2, <2>1, <2>2 DEF FreshToken, UserExists
<1>3. ASSUME NEW token \in Tokens, DeleteSession(token), ended' = ended \cup {token}
      PROVE  UsersKeyed' /\ SessionsIssued' /\ RowsBacked'
  BY <1>3 DEF DeleteSession, UserExists
<1>4. CASE PruneSessions /\ UNCHANGED ended
  BY <1>4 DEF PruneSessions, UserExists
<1>5. CASE Reopen /\ UNCHANGED ended
  BY <1>5 DEF Reopen, UserExists
<1>6. CASE Tick /\ UNCHANGED ended
  <2>1. now \in Nat /\ \A i \in issued : i.expires_at \in Nat
    BY DEF StoreTypeOK, SessionRows
  <2> QED BY <1>6, <2>1 DEF Tick, UserExists
<1>7. CASE UNCHANGED storeVars /\ ended \subseteq ended'
  BY <1>7 DEF storeVars, UserExists
<1> QED BY <1>1, <1>2, <1>3, <1>4, <1>5, <1>6, <1>7 DEF StoreStep

(* A cookie is nowhere to be found before its row has been inserted. *)
LEMMA CookiesInductive ==
  ASSUME TypeOK, CookiesIssued, [Next]_vars
  PROVE  CookiesIssued'
<1>0. TypeOK' /\ IssuedTokens \subseteq IssuedTokens'
  BY TypeInductive, StepsOnStore, StoreGrows DEF TypeOK
<1> DEFINE Known == IssuedTokens \cup {NoToken}
<1> DEFINE KnownAfter == IssuedTokens' \cup {NoToken}
<1>a. Known \subseteq KnownAfter
  BY <1>0
<1>b. ASSUME NEW w \in Workers, NEW body, NEW set_cookie, NEW viewer,
             Reply(w, body, set_cookie, viewer), set_cookie \subseteq KnownAfter
      PROVE  /\ \A v \in Workers : resp'[v].set_cookie \subseteq KnownAfter
             /\ \A v \in Workers : pc'[v] # "idle" => pc[v] # "idle" \/ v = w
  BY <1>a, <1>b DEF Reply, Goto, TypeOK, CookiesIssued
<1> HIDE DEF Known, KnownAfter
<1>1. ASSUME NEW w \in Workers, AcceptAny(w) PROVE CookiesIssued'
  <2>1. PICK b \in Browsers : /\ req' = [req EXCEPT ![w] = req'[w]]
                              /\ req'[w].cookie = jar[b]
                              /\ pc' = [pc EXCEPT ![w] = "sessions"]
                              /\ UNCHANGED <<storeVars, resp, jar, ended>>
    BY <1>1 DEF AcceptAny, Accept, Goto, TypeOK
  <2>2. IssuedTokens' = IssuedTokens
    BY <2>1 DEF IssuedTokens, storeVars
  <2> QED BY <2>1, <2>2 DEF CookiesIssued, TypeOK
<1>2. ASSUME NEW w \in Workers, Sessions(w) \/ SignupUserId(w) PROVE CookiesIssued'
  <2>1. pc[w] # "idle" /\ UNCHANGED <<req, resp, jar, ended>>
    BY <1>2 DEF Sessions, SignupUserId
  <2>2. \A v \in Workers : pc'[v] # "idle" => pc[v] # "idle"
    BY <1>2 DEF Sessions, SignupUserId, Goto, TypeOK
  <2> QED BY <1>0, <2>1, <2>2 DEF CookiesIssued
<1>3. ASSUME NEW w \in Workers, Page(w) \/ Private(w) \/ SignupRejected(w)
      PROVE  CookiesIssued'
  <2>1. pc[w] # "idle" /\ UNCHANGED <<req, jar, ended>>
    BY <1>3 DEF Page, Private, SignupRejected
  <2>2. \E body, viewer : Reply(w, body, {}, viewer)
    BY <1>3 DEF Page, Private, SignupRejected
  <2>3. /\ \A v \in Workers : resp'[v].set_cookie \subseteq KnownAfter
        /\ \A v \in Workers : pc'[v] # "idle" => pc[v] # "idle" \/ v = w
    BY <1>b, <2>2
  <2> QED BY <1>0, <2>1, <2>3 DEF CookiesIssued, KnownAfter
<1>4. ASSUME NEW w \in Workers, SignupCreateUser(w) \/ LoginVerify(w) PROVE CookiesIssued'
  <2>1. pc[w] # "idle" /\ UNCHANGED <<req, jar, ended>>
    BY <1>4 DEF SignupCreateUser, LoginVerify
  <2>2. \/ \E body, viewer : Reply(w, body, {}, viewer)
        \/ UNCHANGED resp /\ \E label : Goto(w, label)
    BY <1>4 DEF SignupCreateUser, LoginVerify
  <2>3. CASE \E body, viewer : Reply(w, body, {}, viewer)
    <3>1. /\ \A v \in Workers : resp'[v].set_cookie \subseteq KnownAfter
          /\ \A v \in Workers : pc'[v] # "idle" => pc[v] # "idle" \/ v = w
      BY <1>b, <2>3
    <3> QED BY <1>0, <2>1, <3>1 DEF CookiesIssued, KnownAfter
  <2>4. CASE UNCHANGED resp /\ \E label : Goto(w, label)
    <3>1. \A v \in Workers : pc'[v] # "idle" => pc[v] # "idle" \/ v = w
      BY <2>4 DEF Goto, TypeOK
    <3> QED BY <1>0, <2>1, <2>4, <3>1 DEF CookiesIssued
  <2> QED BY <2>2, <2>3, <2>4
<1>5. ASSUME NEW w \in Workers, CreateSession(w) PROVE CookiesIssued'
  <2>1. pc[w] # "idle" /\ UNCHANGED <<req, jar, ended>>
    BY <1>5 DEF CreateSession
  <2>2. PICK body, set_cookie, viewer : /\ Reply(w, body, set_cookie, viewer)
                                        /\ set_cookie \subseteq KnownAfter
    <3>1. ASSUME NEW token \in Tokens, InsertSession(token, uid[w]) PROVE token \in KnownAfter
      <4>1. PICK row : row.token = token /\ issued' = issued \cup {row}
        BY <3>1 DEF InsertSession
      <4> QED BY <4>1 DEF IssuedTokens, KnownAfter
    <3>2. CASE \E token \in Tokens : /\ InsertSession(token, uid[w])
                                    /\ Reply(w, "signed_in", {token}, NoUser)
      <4>1. PICK token \in Tokens : /\ InsertSession(token, uid[w])
                                    /\ Reply(w, "signed_in", {token}, NoUser)
        BY <3>2
      <4>2. {token} \subseteq KnownAfter
        BY <3>1, <4>1
      <4> QED BY <4>1, <4>2
    <3>3. CASE SessionRefused(w)
      <4>1. {} \subseteq KnownAfter
        OBVIOUS
      <4> QED BY <3>3, <4>1 DEF SessionRefused
    <3> QED BY <1>5, <3>2, <3>3 DEF CreateSession
  <2>3. /\ \A v \in Workers : resp'[v].set_cookie \subseteq KnownAfter
        /\ \A v \in Workers : pc'[v] # "idle" => pc[v] # "idle" \/ v = w
    BY <1>b, <2>2
  <2> QED BY <1>0, <2>1, <2>3 DEF CookiesIssued, KnownAfter
<1>6. ASSUME NEW w \in Workers, Logout(w) PROVE CookiesIssued'
  <2>1. /\ pc[w] # "idle" /\ UNCHANGED <<req, jar>>
        /\ ended' = ended \cup ({req[w].cookie} \ {NoToken})
        /\ Reply(w, "home", {NoToken}, NoUser)
    BY <1>6 DEF Logout
  <2>2. /\ \A v \in Workers : resp'[v].set_cookie \subseteq KnownAfter
        /\ \A v \in Workers : pc'[v] # "idle" => pc[v] # "idle" \/ v = w
    BY <1>b, <2>1 DEF KnownAfter
  <2> QED BY <1>0, <2>1, <2>2 DEF CookiesIssued, KnownAfter
<1>7. ASSUME NEW w \in Workers, Respond(w) PROVE CookiesIssued'
  <2>1. /\ req' = [req EXCEPT ![w] = NoRequest]
        /\ resp' = [resp EXCEPT ![w] = NoResponse]
        /\ pc' = [pc EXCEPT ![w] = "idle"]
        /\ UNCHANGED <<storeVars, ended>>
    BY <1>7 DEF Respond, Goto
  <2>2. \A b \in Browsers : jar'[b] \in IssuedTokens \cup {NoToken}
    BY <1>7 DEF Respond, CookiesIssued, TypeOK
  <2>3. IssuedTokens' = IssuedTokens
    BY <2>1 DEF IssuedTokens, storeVars
  <2> QED BY <2>1, <2>2, <2>3 DEF CookiesIssued, TypeOK, NoResponse
<1>8. CASE Crash
  BY <1>0, <1>8 DEF Crash, CookiesIssued, NoResponse
<1>9. CASE Prune \/ Clock \/ UNCHANGED vars
  BY <1>0, <1>9 DEF Prune, Clock, vars, workerVars, CookiesIssued
<1> QED BY <1>1, <1>2, <1>3, <1>4, <1>5, <1>6, <1>7, <1>8, <1>9 DEF Next, Serve

(* A request runs as the owner of its cookie, or as nobody. *)
LEMMA IdentityInductive ==
  ASSUME TypeOK, SessionsIssued, IdleHasNoUser, NotBeforeAccepted, IdentityIsOwner, [Next]_vars
  PROVE  IdleHasNoUser' /\ NotBeforeAccepted' /\ IdentityIsOwner'
<1>0. TypeOK' /\ issued \subseteq issued' /\ now <= now'
  BY TypeInductive, StepsOnStore, StoreGrows DEF TypeOK
<1>t. /\ now \in Nat /\ now' \in Nat
      /\ \A w \in Workers : pc[w] # "idle" => req[w].since \in Nat
      /\ \A i \in issued : i.expires_at \in Nat
  BY <1>0 DEF TypeOK, StoreTypeOK, Requests, SessionRows
<1> USE DEF IdleHasNoUser, NotBeforeAccepted, IdentityIsOwner
(* Most steps leave the requests and their users alone. *)
<1>1. ASSUME UNCHANGED <<req, ctxUser>>,
             \A w \in Workers : pc'[w] = "idle" => pc[w] = "idle",
             \A w \in Workers : pc'[w] # "idle" => pc[w] # "idle"
      PROVE  IdleHasNoUser' /\ NotBeforeAccepted' /\ IdentityIsOwner'
  BY <1>0, <1>1, <1>t
<1>2. ASSUME NEW w \in Workers,
             \/ Page(w) \/ Private(w) \/ SignupRejected(w) \/ SignupCreateUser(w)
             \/ SignupUserId(w) \/ LoginVerify(w) \/ CreateSession(w)
      PROVE  IdleHasNoUser' /\ NotBeforeAccepted' /\ IdentityIsOwner'
  <2>1. pc[w] # "idle" /\ UNCHANGED <<req, ctxUser>>
    BY <1>2 DEF Page, Private, SignupRejected, SignupCreateUser, SignupUserId, LoginVerify,
                CreateSession
  <2>2. \E label \in {"respond", "last_insert_rowid", "create_session"} :
          pc' = [pc EXCEPT ![w] = label]
    BY <1>2 DEF Page, Private, SignupRejected, SignupCreateUser, SignupUserId, LoginVerify,
                CreateSession, SessionRefused, Reply, Goto
  <2> QED BY <1>1, <2>1, <2>2 DEF TypeOK
<1>3. ASSUME NEW w \in Workers, AcceptAny(w)
      PROVE  IdleHasNoUser' /\ NotBeforeAccepted' /\ IdentityIsOwner'
  <2>1. /\ pc[w] = "idle"
        /\ req' = [req EXCEPT ![w] = req'[w]]
        /\ req'[w].since = now
        /\ pc' = [pc EXCEPT ![w] = "sessions"]
        /\ UNCHANGED <<storeVars, ctxUser>>
    BY <1>3 DEF AcceptAny, Accept, Goto, TypeOK
  <2> QED BY <1>0, <1>t, <2>1 DEF TypeOK, storeVars
<1>4. ASSUME NEW w \in Workers, Sessions(w)
      PROVE  IdleHasNoUser' /\ NotBeforeAccepted' /\ IdentityIsOwner'
  <2>1. /\ pc[w] = "sessions" /\ pc' = [pc EXCEPT ![w] = "handler"]
        /\ UNCHANGED <<storeVars, req>>
    BY <1>4 DEF Sessions, Goto
  <2>2. CASE UNCHANGED ctxUser
    BY <1>1, <2>1, <2>2 DEF TypeOK
  <2>3. ASSUME NEW u \in UserForSession(req[w].cookie), ctxUser' = [ctxUser EXCEPT ![w] = u.id]
        PROVE  IdleHasNoUser' /\ NotBeforeAccepted' /\ IdentityIsOwner'
    <3>1. PICK s \in sessions : s.token = req[w].cookie /\ s.user_id = u.id /\ s.expires_at > now
      BY <2>3 DEF UserForSession
    <3>2. s \in issued' /\ s.expires_at > req[w].since
      BY <1>0, <1>t, <2>1, <3>1 DEF SessionsIssued
    <3> QED BY <1>0, <1>t, <2>1, <2>3, <3>1, <3>2 DEF TypeOK
  <2> QED BY <1>4, <2>2, <2>3 DEF Sessions
<1>5. ASSUME NEW w \in Workers, Logout(w) \/ Respond(w)
      PROVE  IdleHasNoUser' /\ NotBeforeAccepted' /\ IdentityIsOwner'
  <2>1. /\ pc[w] # "idle" /\ ctxUser' = [ctxUser EXCEPT ![w] = NoUser]
        /\ \/ UNCHANGED req /\ pc' = [pc EXCEPT ![w] = "respond"]
           \/ req' = [req EXCEPT ![w] = NoRequest] /\ pc' = [pc EXCEPT ![w] = "idle"]
    BY <1>5 DEF Logout, Respond, Reply, Goto
  <2> QED BY <1>0, <1>t, <2>1 DEF TypeOK
<1>6. CASE Crash
  BY <1>6 DEF Crash
<1>7. CASE Prune \/ Clock \/ UNCHANGED vars
  BY <1>1, <1>7 DEF Prune, Clock, vars, workerVars
<1> QED BY <1>2, <1>3, <1>4, <1>5, <1>6, <1>7 DEF Next, Serve

(* IInv holds initially and is kept by every step. *)
THEOREM Invariance == Spec => []IInv
<1>1. Init => IInv
  <2> SUFFICES ASSUME Init PROVE IInv
    OBVIOUS
  <2>1. TypeOK
    BY DEF Init, StoreInit, TypeOK, StoreTypeOK, NoUser, NoResponse, Responses, Cookies
  <2>2. UsersKeyed /\ SessionsIssued /\ RowsBacked /\ CookiesIssued
    BY DEF Init, StoreInit, UsersKeyed, SessionsIssued, RowsBacked, CookiesIssued, NoResponse
  <2> QED BY <2>1, <2>2 DEF Init, IInv, IdleHasNoUser, NotBeforeAccepted, IdentityIsOwner
<1>2. IInv /\ [Next]_vars => IInv'
  <2> SUFFICES ASSUME IInv, [Next]_vars PROVE IInv'
    OBVIOUS
  <2> USE DEF IInv
  <2>1. TypeOK' /\ StoreStep
    BY TypeInductive, StepsOnStore
  <2>2. UsersKeyed' /\ SessionsIssued' /\ RowsBacked'
    BY <2>1, StoreInductive DEF TypeOK
  <2> QED BY <2>1, <2>2, CookiesInductive, IdentityInductive
<1> QED BY <1>1, <1>2, PTL DEF Spec

(* The foreign key holds: no session names a user that does not exist,     *)
(* although the id create_user returns may be any rowid.                   *)
THEOREM NoOrphans == Spec => []NoOrphanSession
<1>1. IInv => NoOrphanSession
  BY DEF IInv, SessionsIssued, UserExists, NoOrphanSession
<1> QED BY <1>1, Invariance, PTL

(* A browser's cookie has a row behind it until it expires or is logged    *)
(* out, whatever statement fails and whenever the process crashes.         *)
THEOREM CookiesAreBacked == Spec => []CookieIsBacked
<1>1. IInv => CookieIsBacked
  BY DEF IInv, CookiesIssued, IssuedTokens, RowsBacked, CookieIsBacked
<1> QED BY <1>1, Invariance, PTL

(* A request runs as the user its unexpired session was opened for.        *)
THEOREM IdentityIsSound == Spec => []IdentityIsOwner
<1>1. IInv => IdentityIsOwner
  BY DEF IInv
<1> QED BY <1>1, Invariance, PTL

-----------------------------------------------------------------------------
(* Log-out.  When no DELETE fails, it has removed the row of every ended   *)
(* token, and no INSERT brings a token back.                               *)

(* A step keeps the rows of ended tokens away. *)
LEMMA EndedInductive ==
  ASSUME "DELETE" \notin Failing, EndedHasNoRow, CookiesIssued, StoreStep
  PROVE  EndedHasNoRow'
<1> USE DEF EndedHasNoRow
<1>1. ASSUME NEW token \in Tokens, NEW id \in Nat, InsertSession(token, id), UNCHANGED ended
      PROVE  EndedHasNoRow'
  <2>1. PICK row : row.token = token /\ sessions' = sessions \cup {row}
    BY <1>1 DEF InsertSession
  <2>2. token \notin IssuedTokens
    BY <1>1 DEF InsertSession, FreshToken, IssuedTokens
  <2> QED BY <1>1, <2>1, <2>2 DEF CookiesIssued
<1>2. ASSUME NEW token \in Tokens, DeleteSession(token), ended' = ended \cup {token}
      PROVE  EndedHasNoRow'
  BY <1>2 DEF DeleteSession
<1>3. ASSUME sessions' \subseteq sessions, UNCHANGED ended PROVE EndedHasNoRow'
  BY <1>3
<1> QED BY <1>1, <1>2, <1>3 DEF StoreStep, InsertUser, PruneSessions, Reopen, Tick, storeVars

(* A step never gives a user to a request that came after the log-out. *)
LEMMA LateInductive ==
  ASSUME TypeOK, IdleHasNoUser, LogoutInv, [Next]_vars
  PROVE  LateIsEnded' /\ LogoutIsFinal'
<1>0. ended \subseteq ended'
  BY StepsOnStore, StoreGrows DEF TypeOK
<1> USE DEF LogoutInv, LateIsEnded, LogoutIsFinal
<1>1. ASSUME UNCHANGED <<req, ctxUser>>, \A w \in Workers : pc'[w] # "idle" => pc[w] # "idle"
      PROVE  LateIsEnded' /\ LogoutIsFinal'
  BY <1>0, <1>1
<1>2. ASSUME NEW w \in Workers,
             \/ Page(w) \/ Private(w) \/ SignupRejected(w) \/ SignupCreateUser(w)
             \/ SignupUserId(w) \/ LoginVerify(w) \/ CreateSession(w)
      PROVE  LateIsEnded' /\ LogoutIsFinal'
  <2>1. pc[w] # "idle" /\ UNCHANGED <<req, ctxUser>>
    BY <1>2 DEF Page, Private, SignupRejected, SignupCreateUser, SignupUserId, LoginVerify,
                CreateSession
  <2>2. \E label : pc' = [pc EXCEPT ![w] = label]
    BY <1>2 DEF Page, Private, SignupRejected, SignupCreateUser, SignupUserId, LoginVerify,
                CreateSession, SessionRefused, Reply, Goto
  <2> QED BY <1>1, <2>1, <2>2 DEF TypeOK
<1>3. ASSUME NEW w \in Workers, AcceptAny(w) PROVE LateIsEnded' /\ LogoutIsFinal'
  <2>1. PICK b \in Browsers : /\ pc[w] = "idle"
                              /\ req' = [req EXCEPT ![w] = req'[w]]
                              /\ req'[w].cookie = jar[b]
                              /\ req'[w].late = (jar[b] \in ended)
                              /\ pc' = [pc EXCEPT ![w] = "sessions"]
                              /\ UNCHANGED <<ctxUser, ended>>
    BY <1>3 DEF AcceptAny, Accept, Goto, TypeOK
  <2>2. ctxUser[w] = NoUser
    BY <2>1 DEF IdleHasNoUser
  <2> QED BY <2>1, <2>2 DEF TypeOK
<1>4. ASSUME NEW w \in Workers, Sessions(w) PROVE LateIsEnded' /\ LogoutIsFinal'
  <2>1. /\ pc[w] = "sessions" /\ pc' = [pc EXCEPT ![w] = "handler"]
        /\ UNCHANGED <<req, ended>>
    BY <1>4 DEF Sessions, Goto
  <2>2. CASE UNCHANGED ctxUser
    BY <1>1, <2>1, <2>2 DEF TypeOK
  <2>3. ASSUME NEW u \in UserForSession(req[w].cookie), ctxUser' = [ctxUser EXCEPT ![w] = u.id]
        PROVE  LateIsEnded' /\ LogoutIsFinal'
    <3>1. PICK s \in sessions : s.token = req[w].cookie
      BY <2>3 DEF UserForSession
    <3>2. ~req[w].late
      BY <2>1, <3>1 DEF EndedHasNoRow
    <3> QED BY <2>1, <2>3, <3>2 DEF TypeOK
  <2> QED BY <1>4, <2>2, <2>3 DEF Sessions
<1>5. ASSUME NEW w \in Workers, Logout(w) \/ Respond(w) PROVE LateIsEnded' /\ LogoutIsFinal'
  <2>1. /\ pc[w] # "idle" /\ ctxUser' = [ctxUser EXCEPT ![w] = NoUser]
        /\ \/ UNCHANGED req /\ pc' = [pc EXCEPT ![w] = "respond"]
           \/ req' = [req EXCEPT ![w] = NoRequest] /\ pc' = [pc EXCEPT ![w] = "idle"]
    BY <1>5 DEF Logout, Respond, Reply, Goto
  <2> QED BY <1>0, <2>1 DEF TypeOK
<1>6. CASE Crash
  BY <1>6 DEF Crash
<1>7. CASE Prune \/ Clock \/ UNCHANGED vars
  BY <1>1, <1>7 DEF Prune, Clock, vars, workerVars
<1> QED BY <1>2, <1>3, <1>4, <1>5, <1>6, <1>7 DEF Next, Serve

(* If no DELETE fails, whatever else does, a request taken after the       *)
(* log-out of its cookie runs as nobody, whatever other requests were in   *)
(* flight.  The assumption is needed: a DELETE that fails leaves the       *)
(* session, and nobody looks.                                              *)
THEOREM LogoutIsSound ==
  ASSUME "DELETE" \notin Failing
  PROVE  Spec => []LogoutIsFinal
<1>1. Init => LogoutInv
  BY DEF Init, StoreInit, LogoutInv, EndedHasNoRow, LateIsEnded, LogoutIsFinal
<1>2. IInv /\ LogoutInv /\ [Next]_vars => LogoutInv'
  <2> SUFFICES ASSUME IInv, LogoutInv, [Next]_vars PROVE LogoutInv'
    OBVIOUS
  <2>1. EndedHasNoRow'
    BY StepsOnStore, EndedInductive DEF IInv, LogoutInv
  <2>2. LateIsEnded' /\ LogoutIsFinal'
    BY LateInductive DEF IInv
  <2> QED BY <2>1, <2>2 DEF LogoutInv
<1>3. LogoutInv => LogoutIsFinal
  BY DEF LogoutInv
<1> QED BY <1>1, <1>2, <1>3, Invariance, PTL DEF Spec

-----------------------------------------------------------------------------
(* Log-in.  Accounts and issued rows are only added, so what a thread has  *)
(* found stays true while it serves its request.                           *)

(* A step keeps what log-in has found, and what it hands out. *)
LEMMA LoginInductive ==
  ASSUME TypeOK, LoginInv, [Next]_vars
  PROVE  LoginInv'
<1>0. users \subseteq users' /\ issued \subseteq issued'
  BY StepsOnStore, StoreGrows DEF TypeOK
<1> USE DEF LoginInv, OnlySignupReadsRowid, LoginFound, LoginOpensOwnSession, HandsOutOwnSession
(* A thread that stands where it stood, or goes where nothing is claimed.  *)
<1>1. ASSUME \A w \in Workers :
               \/ UNCHANGED <<pc[w], req[w], uid[w], resp[w]>>
               \/ pc'[w] \notin {"last_insert_rowid", "create_session", "respond"}
               \/ pc'[w] = "last_insert_rowid" /\ req'[w].kind = "signup"
               \/ pc'[w] = "create_session" /\ req'[w].kind # "login"
               \/ pc'[w] = "respond" /\ resp'[w].set_cookie \subseteq {NoToken}
               \/ pc'[w] = "respond" /\ req'[w].kind # "login"
      PROVE  LoginInv'
  BY <1>0, <1>1
(* An answer that opens nothing. *)
<1>r. ASSUME NEW w \in Workers, NEW body, NEW set_cookie, NEW viewer,
             Reply(w, body, set_cookie, viewer), set_cookie \subseteq {NoToken}, UNCHANGED req
      PROVE  LoginInv'
  <2>1. \A v \in Workers \ {w} : UNCHANGED <<pc[v], req[v], uid[v], resp[v]>>
    BY <1>r DEF Reply, Goto, TypeOK
  <2>2. pc'[w] = "respond" /\ resp'[w].set_cookie \subseteq {NoToken}
    BY <1>r DEF Reply, Goto, TypeOK
  <2> QED BY <1>1, <2>1, <2>2
<1>2. ASSUME NEW w \in Workers,
             \/ Page(w) \/ Private(w) \/ SignupRejected(w) \/ SignupCreateUser(w) \/ Logout(w)
      PROVE  LoginInv'
  <2>1. UNCHANGED req
    BY <1>2 DEF Page, Private, SignupRejected, SignupCreateUser, Logout
  <2>2. \/ \E body, viewer : \E set_cookie \in SUBSET {NoToken} :
             Reply(w, body, set_cookie, viewer)
        \/ /\ req[w].kind = "signup" /\ Goto(w, "last_insert_rowid")
           /\ UNCHANGED <<uid, resp>>
    BY <1>2 DEF Page, Private, SignupRejected, SignupCreateUser, Logout
  <2>3. CASE /\ req[w].kind = "signup" /\ Goto(w, "last_insert_rowid")
             /\ UNCHANGED <<uid, resp>>
    <3>1. \A v \in Workers \ {w} : UNCHANGED <<pc[v], req[v], uid[v], resp[v]>>
      BY <2>1, <2>3 DEF Goto, TypeOK
    <3>2. pc'[w] = "last_insert_rowid" /\ req'[w].kind = "signup"
      BY <2>1, <2>3 DEF Goto, TypeOK
    <3> QED BY <1>1, <3>1, <3>2
  <2> QED BY <1>r, <2>1, <2>2, <2>3
<1>a. ASSUME NEW w \in Workers, AcceptAny(w) \/ Sessions(w) \/ Respond(w) PROVE LoginInv'
  <2>1. /\ \E label \in {"sessions", "handler", "idle"} : pc' = [pc EXCEPT ![w] = label]
        /\ UNCHANGED uid
    BY <1>a DEF AcceptAny, Accept, Sessions, Respond, Goto
  <2>2. \A v \in Workers \ {w} : UNCHANGED <<req[v], resp[v]>>
    BY <1>a DEF AcceptAny, Accept, Sessions, Respond, TypeOK
  <2> QED BY <1>1, <2>1, <2>2 DEF TypeOK
<1>3. ASSUME NEW w \in Workers, SignupUserId(w) PROVE LoginInv'
  <2>1. /\ \A v \in Workers \ {w} : UNCHANGED <<pc[v], req[v], uid[v], resp[v]>>
        /\ pc'[w] = "create_session" /\ req'[w].kind # "login"
    BY <1>3 DEF SignupUserId, Goto, TypeOK
  <2> QED BY <1>1, <2>1
<1>4. ASSUME NEW w \in Workers, LoginVerify(w) PROVE LoginInv'
  <2>1. /\ \A v \in Workers \ {w} : UNCHANGED <<pc[v], req[v], uid[v], resp[v]>>
        /\ UNCHANGED <<req, users, issued>>
    BY <1>4 DEF LoginVerify, Reply, Goto, TypeOK, storeVars
  <2>2. CASE Reply(w, "invalid", {}, ctxUser[w])
    BY <1>r, <2>1, <2>2
  <2>3. ASSUME NEW u \in FindUserByEmail(req[w].email),
               VerifyPassword(req[w].password, u.password_hash),
               uid' = [uid EXCEPT ![w] = u.id], Goto(w, "create_session")
        PROVE  LoginInv'
    <3>1. pc'[w] = "create_session" /\ uid'[w] = u.id
      BY <2>3 DEF Goto, TypeOK
    <3>2. u \in users' /\ u.email = req'[w].email
          /\ VerifyPassword(req'[w].password, u.password_hash)
      BY <2>1, <2>3 DEF FindUserByEmail
    <3> QED BY <1>0, <2>1, <3>1, <3>2
  <2> QED BY <1>4, <2>2, <2>3 DEF LoginVerify
<1>5. ASSUME NEW w \in Workers, CreateSession(w) PROVE LoginInv'
  <2>1. pc[w] = "create_session" /\ UNCHANGED req
    BY <1>5 DEF CreateSession
  <2>2. CASE SessionRefused(w)
    BY <1>r, <2>1, <2>2 DEF SessionRefused
  <2>3. ASSUME NEW token \in Tokens, InsertSession(token, uid[w]),
               Reply(w, "signed_in", {token}, NoUser)
        PROVE  LoginInv'
    <3>1. /\ \A v \in Workers \ {w} : UNCHANGED <<pc[v], req[v], uid[v], resp[v]>>
          /\ pc'[w] = "respond" /\ resp'[w].set_cookie = {token}
      BY <2>1, <2>3 DEF Reply, Goto, TypeOK
    <3>2. CASE req[w].kind # "login"
      BY <1>1, <2>1, <3>1, <3>2
    <3>3. CASE req[w].kind = "login"
      <4>1. PICK u \in users : /\ u.id = uid[w]
                               /\ u.email = req[w].email
                               /\ VerifyPassword(req[w].password, u.password_hash)
        BY <2>1, <3>3
      <4>2. PICK i \in issued' : i.token = token /\ i.user_id = uid[w]
        <5>1. PICK row : /\ row.token = token /\ row.user_id = uid[w]
                         /\ issued' = issued \cup {row}
          BY <2>3 DEF InsertSession
        <5> QED BY <5>1
      <4>3. HandsOutOwnSession(w)'
        BY <1>0, <2>1, <3>1, <4>1, <4>2
      <4> QED BY <1>0, <2>1, <3>1, <4>3
    <3> QED BY <3>2, <3>3
  <2> QED BY <1>5, <2>2, <2>3 DEF CreateSession
<1>6. CASE Crash
  BY <1>1, <1>6 DEF Crash
<1>7. CASE Prune \/ Clock \/ UNCHANGED vars
  BY <1>1, <1>7 DEF Prune, Clock, vars, workerVars
<1> QED BY <1>2, <1>a, <1>3, <1>4, <1>5, <1>6, <1>7 DEF Next, Serve

(* Log-in opens a session of the account whose e-mail and password are in  *)
(* the form, whatever sign-ups run at the same time.                       *)
THEOREM LoginIsSound == Spec => []LoginOpensOwnSession
<1>1. Init => LoginInv
  BY DEF Init, LoginInv, OnlySignupReadsRowid, LoginFound, LoginOpensOwnSession
<1>2. LoginInv => LoginOpensOwnSession
  BY DEF LoginInv
<1> QED BY <1>1, <1>2, LoginInductive, TypeCorrect, PTL DEF Spec

-----------------------------------------------------------------------------
(* Refinement.  The abstract account of a token is that of the one user    *)
(* whose id is in its row, so adding a user with a new id changes nothing, *)
(* and adding a row adds one pair.                                         *)

LiveIsJoin ==
  \A x : x \in Live <=>
    \E s \in sessions, u \in users :
      /\ s.user_id = u.id /\ s.expires_at > now
      /\ x = [token |-> s.token, email |-> u.email]

(* What is in Live: the join of sessions and users. *)
LEMMA LiveMember == LiveIsJoin
<1> DEFINE Pairs == {q \in sessions \X users : q[1].user_id = q[2].id /\ q[1].expires_at > now}
<1> DEFINE At(p) == [token |-> p[1].token, email |-> p[2].email]
<1>1. ASSUME NEW x, x \in Live
      PROVE  \E s \in sessions, u \in users :
               /\ s.user_id = u.id /\ s.expires_at > now
               /\ x = [token |-> s.token, email |-> u.email]
  <2>1. PICK p \in Pairs : x = At(p)
    BY <1>1 DEF Live
  <2>2. p[1] \in sessions /\ p[2] \in users /\ p[1].user_id = p[2].id /\ p[1].expires_at > now
    OBVIOUS
  <2> QED BY <2>1, <2>2
<1>2. ASSUME NEW s \in sessions, NEW u \in users, s.user_id = u.id, s.expires_at > now
      PROVE  [token |-> s.token, email |-> u.email] \in Live
  <2>1. <<s, u>> \in Pairs
    BY <1>2
  <2>2. At(<<s, u>>) \in Live
    BY <2>1 DEF Live
  <2> QED BY <2>2
<1> QED BY <1>1, <1>2 DEF LiveIsJoin

(* Each step on the tables is a step of Accounts, or changes nothing of it. *)
LEMMA StoreStepImplements ==
  ASSUME StoreTypeOK, StoreTypeOK', UsersKeyed, SessionsIssued, UsersKeyed', SessionsIssued', StoreStep
  PROVE  [A!Next]_(A!accountVars)
<1> DEFINE Registered == {u.email : u \in users}
<1>t. /\ now \in Nat /\ now' \in Nat /\ userSeq \in Nat
      /\ \A s \in sessions : s.expires_at \in Nat /\ s \in issued
      /\ \A u \in users : u.id \in Nat /\ u.email \in Emails
  BY DEF StoreTypeOK, SessionRows, UserRows, SessionsIssued
<1>1. ASSUME NEW email \in Emails, NEW password \in Passwords, NEW salt \in Salts,
             InsertUser(email, PasswordHash(password, salt))
      PROVE  A!Register(email)
  <2>1. PICK new : /\ new.id = userSeq + 1 /\ new.email = email
                   /\ users' = users \cup {new}
    BY <1>1 DEF InsertUser
  <2>2. UNCHANGED <<sessions, issued, now>> /\ email \notin Registered
    BY <1>1 DEF InsertUser, FindUserByEmail
  <2>3. \A s \in sessions : s.user_id # new.id
    BY <1>t, <2>1 DEF SessionsIssued, UserExists, UsersKeyed
  <2>4. Live' = Live
    <3>1. LiveIsJoin /\ LiveIsJoin'
      BY LiveMember, PTL
    <3>2. \A x : x \in Live' <=> x \in Live
      BY <2>1, <2>2, <2>3, <3>1 DEF LiveIsJoin
    <3> QED BY <3>2
  <2>5. Registered' = Registered \cup {email}
    BY <2>1
  <2> QED BY <2>2, <2>4, <2>5 DEF A!Register
<1>2. ASSUME NEW token \in Tokens, NEW id \in Nat, InsertSession(token, id)
      PROVE  \E email \in Emails : A!Open(token, email)
  <2>1. PICK row : /\ row.token = token /\ row.user_id = id /\ row.expires_at = now + SessionTtl
                   /\ sessions' = sessions \cup {row} /\ issued' = issued \cup {row}
    BY <1>2 DEF InsertSession
  <2>2. UNCHANGED <<users, now>> /\ \A i \in issued : i.token # token
    BY <1>2 DEF InsertSession, FreshToken
  <2>3. PICK u \in users : u.id = id
    BY <1>2 DEF InsertSession, UserExists
  <2>4. \A v \in users : v.id = id => v = u
    BY <2>3 DEF UsersKeyed
  <2>5. row.expires_at > now
    BY <1>t, <2>1, TimeAssumption
  <2>6. Live' = Live \cup {[token |-> token, email |-> u.email]}
    <3>1. LiveIsJoin /\ LiveIsJoin'
      BY LiveMember, PTL
    <3>2. \A x : x \in Live' <=> x \in Live \/ x = [token |-> token, email |-> u.email]
      BY <2>1, <2>2, <2>3, <2>4, <2>5, <3>1 DEF LiveIsJoin
    <3> QED BY <3>2
  <2>7. {i.token : i \in issued}' = {i.token : i \in issued} \cup {token}
    BY <2>1
  <2>8. A!Open(token, u.email)
    BY <2>2, <2>6, <2>7 DEF A!Open
  <2> QED BY <1>t, <2>8
<1>3. ASSUME sessions' \subseteq sessions, now <= now', UNCHANGED <<users, issued>>
      PROVE  A!End(Live \ Live')
  <2>1. LiveIsJoin /\ LiveIsJoin'
    BY LiveMember, PTL
  <2>2. \A s \in sessions' : s.expires_at > now' => s.expires_at > now
    BY <1>3, <1>t
  <2>3. \A x : x \in Live' => x \in Live
    BY <1>3, <2>1, <2>2 DEF LiveIsJoin
  <2> QED BY <1>3, <2>3 DEF A!End
<1>4. Live \ Live' \in SUBSET Live
  OBVIOUS
<1>5. ASSUME (\E token \in Tokens : DeleteSession(token)) \/ PruneSessions \/ Reopen \/ Tick
             \/ UNCHANGED storeVars
      PROVE  sessions' \subseteq sessions /\ now <= now' /\ UNCHANGED <<users, issued>>
  BY <1>5, <1>t DEF DeleteSession, PruneSessions, Reopen, Tick, storeVars
<1> QED BY <1>1, <1>2, <1>3, <1>4, <1>5 DEF StoreStep, A!Next

(* Whatever the interleaving, the failures and the crashes, the tables     *)
(* behave as Accounts says.                                                *)
THEOREM Refinement == Spec => ImplementsAccounts
<1>1. Init => A!Init
  BY LiveMember DEF LiveIsJoin, Init, StoreInit, A!Init
<1>2. IInv /\ IInv' /\ [Next]_vars => [A!Next]_(A!accountVars)
  BY StepsOnStore, StoreStepImplements DEF IInv, TypeOK
<1> QED BY <1>1, <1>2, Invariance, PTL DEF Spec, ImplementsAccounts, A!Spec
=============================================================================
