------------------------------ MODULE AuthServer ------------------------------
(***************************************************************************)
(* An application that uses lux::Auth, served by the worker threads of     *)
(* App::run (multithreaded()): src/luxweb_core/app.cpp dispatch,           *)
(* src/luxweb_core/auth.cpp and src/luxweb_core/context.cpp over the one   *)
(* UserStore they share.                                                   *)
(*                                                                         *)
(* A worker serves one request at a time, from top to bottom; between two  *)
(* statements on the store any other worker may run.  The local variables  *)
(* of dispatch and of the handler are functions of the worker.  A browser  *)
(* is its cookie jar: it may have several requests on the way (tabs), and  *)
(* a response may be lost before it reaches the jar.                       *)
(***************************************************************************)
EXTENDS UserStore

CONSTANTS
  Workers,        \* threads of the server
  Routes,         \* the kinds of handler the application has registered
  Browsers,
  NoEmail,        \* the form has no e-mail, or an empty one
  ShortPassword,  \* the form has no password, or one under 8 characters
  Forms,          \* the forms people send: pairs of an e-mail and a password
  NoToken,        \* the browser sends no session cookie
  Failing         \* the statements that may fail for no other reason

ASSUME SentinelAssumption ==
  NoEmail \notin Emails /\ ShortPassword \notin Passwords /\ NoToken \notin Tokens

ASSUME FormsAssumption ==
  Forms \subseteq (Emails \cup {NoEmail}) \X (Passwords \cup {ShortPassword})

(* RAND_bytes, which may fail too, comes before an INSERT each time.       *)
ASSUME FailingAssumption == Failing \subseteq {"SELECT", "INSERT", "DELETE"}

OpeningKinds == {"signup", "login"}

ReadingKinds == {"page", "private", "logout"}

ASSUME RoutesAssumption == Routes \subseteq OpeningKinds \cup ReadingKinds

VARIABLES
  pc,       \* where worker w stands
  req,      \* the request it serves
  ctxUser,  \* ContextState::user of that request: a user id, or 0
  uid,      \* user.id in signup and login
  resp,     \* the response it is about to send
  jar,      \* the session cookie each browser holds
  ended     \* history: tokens a logout was asked for

workerVars == <<pc, req, ctxUser, uid, resp>>

vars == <<storeVars, workerVars, jar, ended>>

NoUser == 0

Cookies == Tokens \cup {NoToken}

(* since and late are history: when the request was accepted, and whether  *)
(* a logout with its cookie had been handled by then.                      *)
Requests ==
  [kind : Routes, browser : Browsers,
   email : Emails \cup {NoEmail}, password : Passwords \cup {ShortPassword},
   cookie : Cookies, since : Nat, late : BOOLEAN]

NoRequest == [kind |-> "none"]

(* set_cookie is the Set-Cookie header: {} when there is none, {NoToken}   *)
(* for clear_cookie(), {t} for session_cookie(t).                          *)
Responses ==
  [body : {"none", "weak", "taken", "invalid", "signed_in", "login_page",
           "content", "home", "error500"},
   set_cookie : SUBSET Cookies, viewer : Nat]

NoResponse == [body |-> "none", set_cookie |-> {}, viewer |-> NoUser]

-----------------------------------------------------------------------------
Init ==
  /\ StoreInit
  /\ pc = [w \in Workers |-> "idle"]
  /\ req = [w \in Workers |-> NoRequest]
  /\ ctxUser = [w \in Workers |-> NoUser]
  /\ uid = [w \in Workers |-> NoUser]
  /\ resp = [w \in Workers |-> NoResponse]
  /\ jar = [b \in Browsers |-> NoToken]
  /\ ended = {}

Goto(w, label) == pc' = [pc EXCEPT ![w] = label]

(* A handler returns: its response, with what it shows of current_user().  *)
Reply(w, body, set_cookie, viewer) ==
  /\ resp' = [resp EXCEPT ![w] = [body |-> body, set_cookie |-> set_cookie,
                                  viewer |-> viewer]]
  /\ uid' = [uid EXCEPT ![w] = NoUser]
  /\ Goto(w, "respond")

(* Bound: a request that may open a session is taken only while a token    *)
(* is left for it.                                                         *)
TokenLeft ==
  LET opening == {w \in Workers : /\ pc[w] \notin {"idle", "respond"}
                                  /\ req[w].kind \in OpeningKinds}
  IN  Cardinality(issued) + Cardinality(opening) < Cardinality(Tokens)

(* A worker takes a request, with the cookie the browser has when it sends *)
(* it; dispatch makes a ContextState that holds no user.                   *)
Accept(w, b, kind, email, password) ==
  /\ pc[w] = "idle"
  /\ kind \in OpeningKinds => TokenLeft
  /\ kind \in OpeningKinds => <<email, password>> \in Forms
  /\ kind \in ReadingKinds => email = NoEmail /\ password = ShortPassword
  /\ req' = [req EXCEPT ![w] =
       [kind |-> kind, browser |-> b, email |-> email, password |-> password,
        cookie |-> jar[b], since |-> now, late |-> jar[b] \in ended]]
  /\ Goto(w, "sessions")
  /\ UNCHANGED <<storeVars, ctxUser, uid, resp, jar, ended>>

(* Auth::sessions, the middleware: it never answers itself.  A failed      *)
(* SELECT is not told from one that returns no row.                        *)
Sessions(w) ==
  /\ pc[w] = "sessions"
  /\ \/ /\ req[w].cookie # NoToken
        /\ \E u \in UserForSession(req[w].cookie) :
             ctxUser' = [ctxUser EXCEPT ![w] = u.id]
     \/ /\ \/ req[w].cookie = NoToken
           \/ UserForSession(req[w].cookie) = {}
           \/ "SELECT" \in Failing
        /\ UNCHANGED ctxUser
  /\ Goto(w, "handler")
  /\ UNCHANGED <<storeVars, req, uid, resp, jar, ended>>

-----------------------------------------------------------------------------
(* The handlers. *)

(* A handler that renders a page or JSON with the current user. *)
Page(w) ==
  /\ pc[w] = "handler" /\ req[w].kind = "page"
  /\ Reply(w, "content", {}, ctxUser[w])
  /\ UNCHANGED <<storeVars, req, ctxUser, jar, ended>>

(* A handler behind Auth::require_user. *)
Private(w) ==
  /\ pc[w] = "handler" /\ req[w].kind = "private"
  /\ \/ ctxUser[w] = NoUser /\ Reply(w, "login_page", {}, NoUser)
     \/ ctxUser[w] # NoUser /\ Reply(w, "content", {}, ctxUser[w])
  /\ UNCHANGED <<storeVars, req, ctxUser, jar, ended>>

SignupForm(w) == req[w].email # NoEmail /\ req[w].password # ShortPassword

SignupRejected(w) ==
  /\ pc[w] = "handler" /\ req[w].kind = "signup"
  /\ ~SignupForm(w)
  /\ Reply(w, "weak", {}, ctxUser[w])
  /\ UNCHANGED <<storeVars, req, ctxUser, jar, ended>>

(* Auth::signup up to the INSERT of create_user, *)
SignupCreateUser(w) ==
  /\ pc[w] = "handler" /\ req[w].kind = "signup"
  /\ SignupForm(w)
  /\ \/ /\ \E salt \in Salts :
             InsertUser(req[w].email, PasswordHash(req[w].password, salt))
        /\ Goto(w, "last_insert_rowid")
        /\ UNCHANGED <<uid, resp>>
     \/ /\ FindUserByEmail(req[w].email) # {} \/ "INSERT" \in Failing
        /\ Reply(w, "taken", {}, ctxUser[w])
        /\ UNCHANGED storeVars
  /\ UNCHANGED <<req, ctxUser, jar, ended>>

(* and the rest of create_user. *)
SignupUserId(w) ==
  /\ pc[w] = "last_insert_rowid"
  /\ uid' = [uid EXCEPT ![w] = lastInsertRowid]
  /\ Goto(w, "create_session")
  /\ UNCHANGED <<storeVars, req, ctxUser, resp, jar, ended>>

(* Auth::login up to create_session; a failed SELECT finds no user. *)
LoginVerify(w) ==
  /\ pc[w] = "handler" /\ req[w].kind = "login"
  /\ \/ /\ \E u \in FindUserByEmail(req[w].email) :
             /\ VerifyPassword(req[w].password, u.password_hash)
             /\ uid' = [uid EXCEPT ![w] = u.id]
        /\ Goto(w, "create_session")
        /\ UNCHANGED resp
     \/ /\ \/ \A u \in FindUserByEmail(req[w].email) :
                ~VerifyPassword(req[w].password, u.password_hash)
           \/ "SELECT" \in Failing
        /\ Reply(w, "invalid", {}, ctxUser[w])
  /\ UNCHANGED <<storeVars, req, ctxUser, jar, ended>>

(* When create_session throws: signup catches it and renders the form,     *)
(* login does not, and dispatch answers 500.                               *)
Mutant_Uncaught(w) == Goto(w, "lost") /\ UNCHANGED <<uid, resp>>

Mutant_Unchecked(w) ==
  \E t \in Tokens : FreshToken(t) /\ Reply(w, "signed_in", {t}, NoUser)

SessionRefused(w) ==
  \/ req[w].kind = "signup" /\ Reply(w, "taken", {}, ctxUser[w])
  \/ req[w].kind = "login" /\ Reply(w, "error500", {}, NoUser)

(* create_session, and the redirect with its cookie. *)
CreateSession(w) ==
  /\ pc[w] = "create_session"
  /\ \/ \E token \in Tokens :
          /\ InsertSession(token, uid[w])
          /\ Reply(w, "signed_in", {token}, NoUser)
     \/ /\ ~UserExists(uid[w]) \/ "INSERT" \in Failing
        /\ SessionRefused(w)
        /\ UNCHANGED storeVars
  /\ UNCHANGED <<req, ctxUser, jar, ended>>

(* Auth::logout.  delete_session does not look at what its DELETE returns. *)
Logout(w) ==
  /\ pc[w] = "handler" /\ req[w].kind = "logout"
  /\ \/ req[w].cookie # NoToken /\ DeleteSession(req[w].cookie)
     \/ /\ req[w].cookie = NoToken \/ "DELETE" \in Failing
        /\ UNCHANGED storeVars
  /\ ended' = ended \cup ({req[w].cookie} \ {NoToken})
  /\ ctxUser' = [ctxUser EXCEPT ![w] = NoUser]
  /\ Reply(w, "home", {NoToken}, NoUser)
  /\ UNCHANGED <<req, jar>>

-----------------------------------------------------------------------------
(* The response leaves; a header sets the jar unless the connection is     *)
(* lost on the way.                                                        *)
Respond(w) ==
  /\ pc[w] = "respond"
  /\ \/ \E c \in resp[w].set_cookie : jar' = [jar EXCEPT ![req[w].browser] = c]
     \/ UNCHANGED jar
  /\ req' = [req EXCEPT ![w] = NoRequest]
  /\ ctxUser' = [ctxUser EXCEPT ![w] = NoUser]
  /\ resp' = [resp EXCEPT ![w] = NoResponse]
  /\ Goto(w, "idle")
  /\ UNCHANGED <<storeVars, uid, ended>>

(* The process dies and is started again: every request is lost, the       *)
(* tables and the jars are not.                                            *)
Crash ==
  /\ Reopen
  /\ pc' = [w \in Workers |-> "idle"]
  /\ req' = [w \in Workers |-> NoRequest]
  /\ ctxUser' = [w \in Workers |-> NoUser]
  /\ uid' = [w \in Workers |-> NoUser]
  /\ resp' = [w \in Workers |-> NoResponse]
  /\ UNCHANGED <<jar, ended>>

(* The application calls UserStore::prune_sessions. *)
Prune == PruneSessions /\ UNCHANGED <<workerVars, jar, ended>>

Clock == Tick /\ UNCHANGED <<workerVars, jar, ended>>

Serve(w) ==
  \/ Sessions(w)
  \/ Page(w) \/ Private(w)
  \/ SignupRejected(w) \/ SignupCreateUser(w) \/ SignupUserId(w)
  \/ LoginVerify(w)
  \/ CreateSession(w)
  \/ Logout(w)
  \/ Respond(w)

AcceptAny(w) ==
  \E b \in Browsers, kind \in Routes,
     email \in Emails \cup {NoEmail}, password \in Passwords \cup {ShortPassword} :
       Accept(w, b, kind, email, password)

Next ==
  \/ \E w \in Workers : AcceptAny(w) \/ Serve(w)
  \/ Crash
  \/ Prune
  \/ Clock

Spec == Init /\ [][Next]_vars

(* A thread that serves a request is scheduled until it has answered.      *)
Fairness == \A w \in Workers : WF_vars(Serve(w))

FairSpec == Spec /\ Fairness

-----------------------------------------------------------------------------
TypeOK ==
  /\ StoreTypeOK
  /\ pc \in [Workers -> {"idle", "sessions", "handler", "last_insert_rowid",
                         "create_session", "respond"}]
  /\ req \in [Workers -> Requests \cup {NoRequest}]
  /\ \A w \in Workers : pc[w] # "idle" => req[w] \in Requests
  /\ ctxUser \in [Workers -> Nat]
  /\ uid \in [Workers -> Nat]
  /\ resp \in [Workers -> Responses]
  /\ jar \in [Browsers -> Cookies]
  /\ ended \subseteq Tokens

-----------------------------------------------------------------------------
(* Every session row names a user that exists: what create_session returns *)
(* can be looked up by user_for_session.  The id create_user hands to      *)
(* create_session may be another row's (SignupOpensOwnSession), even one   *)
(* that is no user's; the foreign key is what keeps such a row out.        *)
NoOrphanSession == \A s \in sessions : \E u \in users : u.id = s.user_id

(* A cookie in a browser is worth something: the row behind it was         *)
(* inserted, and is still there unless it expired or a logout with that    *)
(* cookie was handled.  Crashes, lost responses and pruning change nothing.*)
CookieIsBacked ==
  \A b \in Browsers : jar[b] # NoToken =>
    \E i \in issued : /\ i.token = jar[b]
                       /\ \/ i \in sessions
                          \/ i.expires_at <= now
                          \/ i.token \in ended

(* A request runs as the user its session was opened for, and that session *)
(* had not expired when the request was taken.                             *)
IdentityIsOwner ==
  \A w \in Workers : ctxUser[w] # NoUser =>
    \E i \in issued : /\ i.token = req[w].cookie
                       /\ i.user_id = ctxUser[w]
                       /\ i.expires_at > req[w].since

(* Once a logout has been handled, no request taken afterwards with the    *)
(* same cookie runs as a user, whatever else was in flight at that time.   *)
LogoutIsFinal ==
  \A w \in Workers : req[w] # NoRequest /\ req[w].late => ctxUser[w] = NoUser

(* The session a worker is about to hand out, when it hands one out, is    *)
(* that of the user whose e-mail and password are in the form.             *)
HandsOutOwnSession(w) ==
  \A t \in resp[w].set_cookie \ {NoToken} :
    \E i \in issued, u \in users :
      /\ i.token = t /\ i.user_id = u.id
      /\ u.email = req[w].email
      /\ VerifyPassword(req[w].password, u.password_hash)

LoginOpensOwnSession ==
  \A w \in Workers :
    pc[w] = "respond" /\ req[w].kind = "login" => HandsOutOwnSession(w)

(* tests/luxweb_tests.cpp:29 says of create_user that the id it returns is *)
(* the one find_user_by_email gives for its e-mail; the session signup     *)
(* opens with that id is then the new user's.  It holds while one request  *)
(* is served at a time.                                                    *)
SignupOpensOwnSession ==
  \A w \in Workers :
    pc[w] = "respond" /\ req[w].kind = "signup" => HandsOutOwnSession(w)

(* Every request that was taken is answered, or lost with the process.     *)
AllAnswered == \A w \in Workers : (pc[w] # "idle") ~> (pc[w] = "idle")

-----------------------------------------------------------------------------
(* The tables behave as Accounts promises, whatever the interleaving:      *)
(* neither a crash nor pruning takes an account away, gives a token back   *)
(* its life, or lets it stand for another account.                         *)

Live ==
  {[token |-> p[1].token, email |-> p[2].email] :
     p \in {q \in sessions \X users : /\ q[1].user_id = q[2].id
                                     /\ q[1].expires_at > now}}

A == INSTANCE Accounts WITH
       registered <- {u.email : u \in users},
       opened <- {i.token : i \in issued},
       live <- Live

ImplementsAccounts == A!Spec
=============================================================================
