---------------------------- MODULE UserHydration ----------------------------
(***************************************************************************)
(* lux.user of the starter (examples/starter/public/lux-user.js): the      *)
(* store "user", persisted in the localStorage that the pages of a browser *)
(* share, and refreshed from /api/me.                                      *)
(*                                                                         *)
(* A session stands for its user: pages show whose session the server said *)
(* the cookie to be of.  The log-ins and log-outs of AuthServer are one    *)
(* step each here.                                                         *)
(***************************************************************************)
EXTENDS Naturals, Sequences, SequencesExt

CONSTANTS
  Tabs,
  Sessions,
  Nobody,    \* no user: a null user, {authenticated: false}
  NoItem,    \* localStorage has no item
  Closed,    \* the page is not open
  NoAnswer,  \* the server has not answered yet
  MaxCalls   \* bound on the calls of refresh() in flight, for each page

Users == Sessions \cup {Nobody}

ASSUME HydrationAssumption ==
  /\ Nobody \notin Sessions /\ {NoItem, NoAnswer} \cap Users = {}
  /\ Closed \notin [user : Users, ready : BOOLEAN]
  /\ MaxCalls \in [Tabs -> Nat \ {0}]

VARIABLES
  storage, \* does the browser have a localStorage?
  cookie,  \* the session the browser's cookie is of, or Nobody
  live,    \* the sessions the server has
  item,    \* the user in the item luxweb:user (always with ready: true), or NoItem
  state,   \* state of the store in each page
  calls,   \* the calls of refresh() in flight, as they were made
  fresh    \* history: see SettledIsSession

vars == <<storage, cookie, live, item, state, calls, fresh>>

Init ==
  /\ storage \in BOOLEAN
  /\ cookie = Nobody
  /\ live = {}
  /\ item = NoItem
  /\ state = [t \in Tabs |-> Closed]
  /\ calls = [t \in Tabs |-> <<>>]
  /\ fresh = [t \in Tabs |-> FALSE]

-----------------------------------------------------------------------------
(* Auth::current_user_json after the middleware sessions(). *)
UserOf(token) == IF token \in live THEN token ELSE Nobody

(* lux.store with {persist}: what was persisted, over the initial state. *)
Restored == IF item = NoItem THEN [user |-> Nobody, ready |-> FALSE]
                             ELSE [user |-> item, ready |-> TRUE]

(* set(next): a signed-out state removes the item before it is persisted,  *)
(* which throws where there is no localStorage, before the store is set;   *)
(* a write that is refused removes the item as well.                       *)
Mutant_OnlySignedIn(t, user) ==
  IF user = Nobody THEN UNCHANGED <<state, item>>
  ELSE /\ state' = [state EXCEPT ![t] = [user |-> user, ready |-> TRUE]]
       /\ item' \in {NoItem} \cup {u \in {user} : storage}

SetUser(t, user) ==
  /\ storage \/ user # Nobody
  /\ state' = [state EXCEPT ![t] = [user |-> user, ready |-> TRUE]]
  /\ item' \in {NoItem} \cup {u \in {user} : storage}

Call(boot) == [boot |-> boot, cookie |-> cookie, answer |-> NoAnswer]

-----------------------------------------------------------------------------
(* The page runs the script, which ends with refresh(). *)
Open(t) ==
  /\ state[t] = Closed
  /\ state' = [state EXCEPT ![t] = Restored]
  /\ calls' = [calls EXCEPT ![t] = <<Call(TRUE)>>]
  /\ fresh' = [fresh EXCEPT ![t] = TRUE]
  /\ UNCHANGED <<storage, cookie, live, item>>

(* Closing the page, or going to another, abandons its calls. *)
Close(t) ==
  /\ state[t] # Closed
  /\ state' = [state EXCEPT ![t] = Closed]
  /\ calls' = [calls EXCEPT ![t] = <<>>]
  /\ fresh' = [fresh EXCEPT ![t] = FALSE]
  /\ UNCHANGED <<storage, cookie, live, item>>

(* A script of the page: lux.user.refresh() *)
Refresh(t) ==
  /\ state[t] # Closed /\ Len(calls[t]) < MaxCalls[t]
  /\ calls' = [calls EXCEPT ![t] = Append(@, Call(FALSE))]
  /\ fresh' = [fresh EXCEPT ![t] = TRUE]
  /\ UNCHANGED <<storage, cookie, live, item, state>>

(* lux.user.set(next) *)
Set(t, user) ==
  /\ state[t] # Closed
  /\ SetUser(t, user)
  /\ fresh' = [fresh EXCEPT ![t] = FALSE]
  /\ UNCHANGED <<storage, cookie, live, calls>>

(* The server handles GET /api/me. *)
Answer(t, i) ==
  /\ i \in DOMAIN calls[t] /\ calls[t][i].answer = NoAnswer
  /\ calls' = [calls EXCEPT ![t][i].answer = UserOf(calls[t][i].cookie)]
  /\ UNCHANGED <<storage, cookie, live, item, state, fresh>>

(* The answer reaches the page, in any order. *)
Settle(t, i) ==
  /\ i \in DOMAIN calls[t] /\ calls[t][i].answer # NoAnswer
  /\ SetUser(t, calls[t][i].answer)
  /\ calls' = [calls EXCEPT ![t] = RemoveAt(@, i)]
  /\ fresh' = [fresh EXCEPT ![t] = @ /\ i = 1]
  /\ UNCHANGED <<storage, cookie, live>>

(* The call rejects: no answer, an answer that is not JSON, or one whose   *)
(* set() throws, itself or in a listener.  The script catches its own      *)
(* call, and that removes the item first too.                              *)
Mutant_NoCatch(t, i) ==
  /\ i \in DOMAIN calls[t]
  /\ calls' = [calls EXCEPT ![t] = RemoveAt(@, i)]
  /\ fresh' = [fresh EXCEPT ![t] = FALSE]
  /\ UNCHANGED <<storage, cookie, live, item, state>>

Fail(t, i) ==
  /\ i \in DOMAIN calls[t]
  /\ \/ calls[t][i].boot /\ SetUser(t, Nobody)
     \/ /\ ~(calls[t][i].boot /\ storage)
        /\ \/ UNCHANGED <<state, item>>
           \/ calls[t][i].answer # NoAnswer /\ SetUser(t, calls[t][i].answer)
  /\ calls' = [calls EXCEPT ![t] = RemoveAt(@, i)]
  /\ fresh' = [fresh EXCEPT ![t] = FALSE]
  /\ UNCHANGED <<storage, cookie, live>>

-----------------------------------------------------------------------------
(* A log-in gets a token that is new. *)
LogIn(token) ==
  /\ token \notin live \cup {cookie}
  /\ \A t \in Tabs : \A i \in DOMAIN calls[t] : calls[t][i].cookie # token
  /\ cookie' = token
  /\ live' = live \cup {token}
  /\ fresh' = [t \in Tabs |-> FALSE]
  /\ UNCHANGED <<storage, item, state, calls>>

LogOut ==
  /\ cookie # Nobody
  /\ cookie' = Nobody
  /\ live' = live \ {cookie}
  /\ fresh' = [t \in Tabs |-> FALSE]
  /\ UNCHANGED <<storage, item, state, calls>>

Expire(token) ==
  /\ token \in live
  /\ live' = live \ {token}
  /\ fresh' = [t \in Tabs |-> FALSE]
  /\ UNCHANGED <<storage, cookie, item, state, calls>>

Next ==
  \/ \E t \in Tabs :
       \/ Open(t) \/ Close(t) \/ Refresh(t)
       \/ \E user \in Users : Set(t, user)
       \/ \E i \in 1 .. MaxCalls[t] : Answer(t, i) \/ Settle(t, i) \/ Fail(t, i)
  \/ LogOut
  \/ \E token \in Sessions : LogIn(token) \/ Expire(token)

Spec == Init /\ [][Next]_vars

(* The server answers, and the browser settles every fetch in the end. *)
Fairness ==
  \A t \in Tabs : WF_vars(Answer(t, 1)) /\ WF_vars(Settle(t, 1) \/ Fail(t, 1))

FairSpec == Spec /\ Fairness

-----------------------------------------------------------------------------
Calls == [boot : BOOLEAN, cookie : Users, answer : Users \cup {NoAnswer}]

(* Only the first call of a page is its own, and a page that has no call   *)
(* in flight has heard: it is ready, where there is a localStorage.        *)
TypeOK ==
  /\ storage \in BOOLEAN
  /\ cookie \in Users /\ live \subseteq Sessions
  /\ item \in Users \cup {NoItem} /\ (~storage => item = NoItem)
  /\ fresh \in [Tabs -> BOOLEAN]
  /\ state \in [Tabs -> [user : Users, ready : BOOLEAN] \cup {Closed}]
  /\ calls \in [Tabs -> Seq(Calls)]
  /\ \A t \in Tabs :
       /\ Len(calls[t]) <= MaxCalls[t]
       /\ \A i \in DOMAIN calls[t] : calls[t][i].boot => i = 1
       /\ storage /\ state[t] # Closed => calls[t] # <<>> \/ state[t].ready
       /\ state[t] = Closed => calls[t] = <<>>

(* lux-user.js:18-22: a page with no call in flight shows the user of the  *)
(* cookie the browser has, whatever other pages did and whatever the page  *)
(* restored, as long as the cookie and the sessions are as they were when  *)
(* its last call was made, and its answers have come in the order of the   *)
(* calls: nothing in refresh() drops an answer that another has overtaken. *)
SettledIsSession ==
  \A t \in Tabs : state[t] # Closed /\ calls[t] = <<>> /\ fresh[t] =>
    state[t].user = UserOf(cookie)

(* dashboard.html:9: a page that stays open stops to show "Loading user    *)
(* state", whether or not the server can be reached, in a browser that has *)
(* a localStorage.  In one that has none set(), and the catch of the first *)
(* call, throw when nobody is signed in, before they set the store; the    *)
(* runtime looks before it uses one (style.cpp:108,129), this script does  *)
(* not.                                                                    *)
ReadyAtLast ==
  \A t \in Tabs : (storage /\ state[t] # Closed) ~> (state[t] = Closed \/ state[t].ready)
=============================================================================
