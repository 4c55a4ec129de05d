-------------------------- MODULE UserHydrationProofs --------------------------
(***************************************************************************)
(* Theorems about UserHydration, for any number of pages, sessions and     *)
(* calls in flight.                                                        *)
(***************************************************************************)
EXTENDS UserHydration, SequenceLemmas

(* What holds of a page with state st, calls q in flight and history f.    *)
(* Where there is a localStorage, a page that is not ready has its first   *)
(* call in flight, which makes it ready whether it is answered or fails;   *)
(* as long as nothing has come in between, the last call brings, or has    *)
(* brought, the user of the cookie.                                        *)
Page(t, st, q, f) ==
  /\ st \in [user : Users, ready : BOOLEAN] \cup {Closed}
  /\ q \in Seq(Calls) /\ Len(q) <= MaxCalls[t]
  /\ f \in BOOLEAN
  /\ \A i \in DOMAIN q : q[i].boot => i = 1
  /\ st = Closed => q = <<>>
  /\ storage /\ st # Closed /\ ~st.ready => q # <<>> /\ q[1].boot
  /\ f /\ q # <<>> => /\ q[Len(q)].cookie = cookie
                      /\ q[Len(q)].answer \in {NoAnswer, UserOf(cookie)}
  /\ f /\ q = <<>> /\ st # Closed => st.user = UserOf(cookie)

(* What is persisted: a user, where there is a localStorage.               *)
Items(i) == i \in Users \cup {NoItem} /\ (~storage => i = NoItem)

Browser ==
  /\ cookie \in Users /\ live \subseteq Sessions
  /\ storage \in BOOLEAN
  /\ Items(item)

IInv ==
  /\ Browser
  /\ state = [t \in Tabs |-> state[t]]
  /\ calls = [t \in Tabs |-> calls[t]]
  /\ fresh = [t \in Tabs |-> fresh[t]]
  /\ \A t \in Tabs : Page(t, state[t], calls[t], fresh[t])

(* It says that the types are right, and that what has settled is right.   *)
LEMMA IInvImplies == IInv => TypeOK /\ SettledIsSession
<1> SUFFICES ASSUME IInv PROVE TypeOK /\ SettledIsSession
  OBVIOUS
<1>1. SettledIsSession
  BY DEF IInv, Page, SettledIsSession
<1>2. /\ state \in [Tabs -> [user : Users, ready : BOOLEAN] \cup {Closed}]
      /\ calls \in [Tabs -> Seq(Calls)]
      /\ fresh \in [Tabs -> BOOLEAN]
  BY DEF IInv, Page
<1>3. ASSUME NEW t \in Tabs
      PROVE  /\ Len(calls[t]) <= MaxCalls[t]
             /\ \A i \in DOMAIN calls[t] : calls[t][i].boot => i = 1
             /\ storage /\ state[t] # Closed => calls[t] # <<>> \/ state[t].ready
             /\ state[t] = Closed => calls[t] = <<>>
  BY DEF IInv, Page
<1> QED BY <1>1, <1>2, <1>3 DEF IInv, Browser, Items, TypeOK

(* A step of one page leaves the others as they are.                       *)
LEMMA PageStep ==
  ASSUME IInv, NEW t \in Tabs, NEW st, NEW q, NEW f,
         UNCHANGED <<storage, cookie, live>>, Items(item'),
         state' = [state EXCEPT ![t] = st], calls' = [calls EXCEPT ![t] = q],
         fresh' = [fresh EXCEPT ![t] = f], Page(t, st, q, f)
  PROVE  IInv'
<1>1. ASSUME NEW u \in Tabs PROVE Page(u, state'[u], calls'[u], fresh'[u])
  <2>1. CASE u = t
    BY <2>1 DEF IInv
  <2>2. CASE u # t
    BY <2>2 DEF IInv
  <2> QED BY <2>1, <2>2
<1>2. ASSUME NEW u \in Tabs PROVE Page(u, state[u], calls[u], fresh[u])'
  BY <1>1 DEF Page, UserOf
<1>3. Browser'
  BY DEF IInv, Browser, Items
<1>4. /\ state' = [u \in Tabs |-> state'[u]]
      /\ calls' = [u \in Tabs |-> calls'[u]]
      /\ fresh' = [u \in Tabs |-> fresh'[u]]
  BY DEF IInv
<1> QED BY <1>2, <1>3, <1>4 DEF IInv

(* A call is a call, and the server answers with a user.                   *)
LEMMA CallTyped ==
  ASSUME Browser
  PROVE  /\ \A boot \in BOOLEAN :
              Call(boot) \in Calls /\ Call(boot).boot = boot
                /\ Call(boot).cookie = cookie /\ Call(boot).answer = NoAnswer
         /\ \A token \in Users : UserOf(token) \in Users
  BY DEF Browser, Call, Calls, UserOf, Users

-----------------------------------------------------------------------------
(* What set() gives a page is a state, and what it persists a user.        *)
LEMMA SetTyped ==
  ASSUME Browser, NEW t \in Tabs, NEW user \in Users, SetUser(t, user)
  PROVE  /\ [user |-> user, ready |-> TRUE] \in [user : Users, ready : BOOLEAN]
         /\ [user |-> user, ready |-> TRUE] # Closed
         /\ Items(item')
<1>1. [user |-> user, ready |-> TRUE] \in [user : Users, ready : BOOLEAN]
  OBVIOUS
<1>2. Items(item')
  BY DEF SetUser, Items
<1> QED BY <1>1, <1>2, HydrationAssumption

(* A page whose call i has ended, with what it has set, or what it had.    *)
LEMMA CallEnds ==
  ASSUME IInv, NEW t \in Tabs, NEW i \in DOMAIN calls[t], state[t] # Closed,
         NEW st \in [user : Users, ready : BOOLEAN], NEW f \in BOOLEAN,
         storage /\ ~st.ready => st = state[t] /\ ~calls[t][i].boot,
         f => fresh[t] /\ i = 1 /\ calls[t][i].answer # NoAnswer
                /\ st.user = calls[t][i].answer
  PROVE  Page(t, st, RemoveAt(calls[t], i), f)
<1> DEFINE q == calls[t]
           r == RemoveAt(calls[t], i)
<1>1. q \in Seq(Calls) /\ i \in 1 .. Len(q) /\ Len(q) <= MaxCalls[t] /\ MaxCalls[t] \in Nat
  BY HydrationAssumption DEF IInv, Page
<1>2. /\ r \in Seq(Calls) /\ Len(r) = Len(q) - 1
      /\ \A j \in 1 .. Len(q) - 1 : r[j] = IF j < i THEN q[j] ELSE q[j + 1]
  BY <1>1, Removed
<1>3. \A j \in DOMAIN q : q[j].boot => j = 1
  BY DEF IInv, Page
<1> HIDE DEF r
<1>4. ASSUME NEW j \in DOMAIN r, r[j].boot PROVE j = 1
  BY <1>1, <1>2, <1>3, <1>4
<1>5. storage /\ ~st.ready => r # <<>> /\ r[1].boot
  <2>1. ASSUME storage, ~st.ready PROVE q[1].boot /\ i > 1
    <3>1. q[1].boot
      BY <2>1 DEF IInv, Page
    <3> QED BY <1>1, <2>1, <3>1
  <2> QED BY <1>1, <1>2, <2>1
<1>6. ASSUME f
      PROVE  /\ q[Len(q)].cookie = cookie
             /\ q[Len(q)].answer \in {NoAnswer, UserOf(cookie)}
  BY <1>1, <1>6 DEF IInv, Page
<1>7. ASSUME f, r # <<>> PROVE r[Len(r)] = q[Len(q)]
  BY <1>1, <1>2, <1>7
<1>8. ASSUME f, r = <<>> PROVE st.user = UserOf(cookie)
  <2>1. Len(q) = i
    BY <1>1, <1>2, <1>8
  <2> QED BY <1>6, <1>8, <2>1
<1>9. Len(r) <= MaxCalls[t]
  BY <1>1, <1>2
<1>10. st # Closed
  BY HydrationAssumption
<1> QED BY <1>2, <1>4, <1>5, <1>6, <1>7, <1>8, <1>9, <1>10 DEF Page, r

(* A call is answered, at the latest when it is the last.                  *)
LEMMA AnswerStep ==
  ASSUME IInv, NEW t \in Tabs, NEW i \in 1 .. MaxCalls[t], Answer(t, i) PROVE IInv'
<1> DEFINE q == calls[t]
           r == [q EXCEPT ![i] = [q[i] EXCEPT !.answer = UserOf(q[i].cookie)]]
<1>1. q \in Seq(Calls) /\ i \in 1 .. Len(q) /\ Len(q) <= MaxCalls[t]
  BY DEF IInv, Page, Answer
<1>2. q[i] \in Calls
  BY <1>1
<1>3. UserOf(q[i].cookie) \in Users
  BY <1>2, CallTyped DEF IInv, Calls
<1>4. [q[i] EXCEPT !.answer = UserOf(q[i].cookie)] \in Calls
  BY <1>2, <1>3 DEF Calls
<1>5. /\ r \in Seq(Calls) /\ Len(r) = Len(q)
      /\ \A j \in 1 .. Len(q) :
           r[j] = IF j = i THEN [q[i] EXCEPT !.answer = UserOf(q[i].cookie)] ELSE q[j]
  BY <1>1, <1>4, ExceptSeq
<1>6. \A j \in 1 .. Len(q) : r[j].boot = q[j].boot /\ r[j].cookie = q[j].cookie
  BY <1>1, <1>2, <1>5 DEF Calls
<1>7. calls' = [calls EXCEPT ![t] = r]
  BY DEF Answer
<1> HIDE DEF r
<1>8. Page(t, state[t], r, fresh[t])
  <2>0. \A j \in 1 .. Len(q) : q[j].boot => j = 1
    BY <1>1 DEF IInv, Page
  <2>1. \A j \in DOMAIN r : r[j].boot => j = 1
    BY <1>1, <1>5, <1>6, <2>0
  <2>2. q # <<>> /\ r # <<>> /\ state[t] # Closed
    BY <1>1, <1>5 DEF IInv, Page
  <2>3. storage /\ ~state[t].ready => r[1].boot
    BY <1>1, <1>6, <2>2 DEF IInv, Page
  <2>4. ASSUME fresh[t]
        PROVE  r[Len(r)].cookie = cookie /\ r[Len(r)].answer \in {NoAnswer, UserOf(cookie)}
    <3>1. q[Len(q)].cookie = cookie /\ q[Len(q)].answer \in {NoAnswer, UserOf(cookie)}
      BY <2>2, <2>4 DEF IInv, Page
    <3>2. CASE i = Len(q)
      BY <1>1, <1>2, <1>5, <1>6, <3>1, <3>2 DEF Calls
    <3>3. CASE i # Len(q)
      BY <1>1, <1>5, <3>1, <3>3
    <3> QED BY <3>2, <3>3
  <2> QED BY <1>1, <1>5, <2>1, <2>2, <2>3, <2>4 DEF IInv, Page
<1>9. /\ UNCHANGED <<storage, cookie, live>> /\ Items(item')
      /\ state' = [state EXCEPT ![t] = state[t]] /\ fresh' = [fresh EXCEPT ![t] = fresh[t]]
  BY DEF Answer, IInv, Browser
<1> QED BY <1>7, <1>8, <1>9, PageStep

(* Every step keeps the invariant, one step of the proof for each action.  *)
LEMMA Step == ASSUME IInv, [Next]_vars PROVE IInv'
<1>0. Browser /\ NoAnswer \notin Users
  BY HydrationAssumption DEF IInv
<1>1. ASSUME NEW t \in Tabs, Open(t) PROVE IInv'
  <2>1. Restored \in [user : Users, ready : BOOLEAN] /\ Restored # Closed
    <3>1. Nobody \in Users /\ item \in Users \cup {NoItem}
      BY <1>0 DEF Browser, Items, Users
    <3>2. Restored \in [user : Users, ready : BOOLEAN]
      BY <3>1 DEF Restored
    <3> QED BY <3>2, HydrationAssumption
  <2> DEFINE r == <<Call(TRUE)>>
  <2>2. r \in Seq(Calls) /\ Len(r) = 1 /\ r[1] = Call(TRUE) /\ r # <<>>
    <3>1. ASSUME NEW c \in Calls
          PROVE  <<c>> \in Seq(Calls) /\ Len(<<c>>) = 1 /\ <<c>>[1] = c /\ <<c>> # <<>>
      OBVIOUS
    <3>2. Call(TRUE) \in Calls
      BY <1>0, CallTyped
    <3> QED BY <3>1, <3>2
  <2>3. 1 <= MaxCalls[t]
    BY HydrationAssumption
  <2>4. calls' = [calls EXCEPT ![t] = r]
    BY <1>1 DEF Open
  <2>6. r[1].boot /\ r[1].cookie = cookie /\ r[1].answer = NoAnswer
    BY <1>0, <2>2, CallTyped
  <2> HIDE DEF r
  <2>7. Page(t, Restored, r, TRUE)
    <3>1. Len(r) <= MaxCalls[t]
      BY <2>2, <2>3
    <3>2. \A j \in DOMAIN r : j = 1
      BY <2>2
    <3>3. r[Len(r)] = r[1]
      BY <2>2
    <3> QED BY <2>1, <2>2, <2>6, <3>1, <3>2, <3>3 DEF Page
  <2>5. Items(item')
    BY <1>0, <1>1 DEF Open, Browser
  <2> QED BY <1>1, <2>4, <2>5, <2>7, PageStep DEF Open
<1>2. ASSUME NEW t \in Tabs, Close(t) PROVE IInv'
  <2>1. Page(t, Closed, <<>>, FALSE)
    BY HydrationAssumption DEF Page
  <2>2. Items(item')
    BY <1>0, <1>2 DEF Close, Browser
  <2> QED BY <1>2, <2>1, <2>2, PageStep DEF Close
<1>3. ASSUME NEW t \in Tabs, Refresh(t) PROVE IInv'
  <2> DEFINE q == calls[t]
             r == Append(calls[t], Call(FALSE))
  <2>1. q \in Seq(Calls) /\ Len(q) < MaxCalls[t] /\ MaxCalls[t] \in Nat /\ state[t] # Closed
    BY <1>3, HydrationAssumption DEF IInv, Page, Refresh
  <2>2. Call(FALSE) \in Calls /\ ~Call(FALSE).boot
        /\ Call(FALSE).cookie = cookie /\ Call(FALSE).answer = NoAnswer
    BY <1>0, CallTyped
  <2>3. /\ r \in Seq(Calls) /\ Len(r) = Len(q) + 1 /\ r # <<>>
        /\ r[Len(r)] = Call(FALSE) /\ \A j \in 1 .. Len(q) : r[j] = q[j]
    <3>1. ASSUME NEW c \in Calls
          PROVE  /\ Append(q, c) \in Seq(Calls) /\ Len(Append(q, c)) = Len(q) + 1
                 /\ Append(q, c)[Len(q) + 1] = c /\ Append(q, c) # <<>>
                 /\ \A j \in 1 .. Len(q) : Append(q, c)[j] = q[j]
      BY <2>1
    <3> QED BY <2>2, <3>1
  <2>4. calls' = [calls EXCEPT ![t] = r]
    BY <1>3 DEF Refresh
  <2> HIDE DEF r
  <2>5. \A j \in DOMAIN r : r[j].boot => j = 1
    <3>1. \A j \in 1 .. Len(q) : q[j].boot => j = 1
      BY <2>1 DEF IInv, Page
    <3>2. ASSUME NEW j \in 1 .. Len(q) + 1, r[j].boot PROVE j = 1
      <4>1. CASE j \in 1 .. Len(q)
        BY <2>3, <3>1, <3>2, <4>1
      <4>2. CASE j = Len(q) + 1
        BY <2>2, <2>3, <3>2, <4>2
      <4> QED BY <2>1, <4>1, <4>2
    <3> QED BY <2>1, <2>3, <3>2
  <2>6. storage /\ ~state[t].ready => r[1].boot
    <3>1. storage /\ ~state[t].ready => q # <<>> /\ q[1].boot
      BY <2>1 DEF IInv, Page
    <3> QED BY <2>1, <2>3, <3>1
  <2>7. Page(t, state[t], r, TRUE)
    <3>1. state[t] \in [user : Users, ready : BOOLEAN]
      BY <2>1 DEF IInv, Page
    <3>2. Len(q) \in Nat
      BY <2>1
    <3>3. Len(r) <= MaxCalls[t]
      BY <2>1, <2>3, <3>2
    <3>4. r[Len(r)].cookie = cookie /\ r[Len(r)].answer = NoAnswer
      BY <2>2, <2>3
    <3> QED BY <2>1, <2>3, <2>5, <2>6, <3>1, <3>3, <3>4 DEF Page
  <2>8. Items(item') /\ state' = [state EXCEPT ![t] = state[t]]
    BY <1>0, <1>3 DEF Refresh, Browser, IInv
  <2> QED BY <1>3, <2>4, <2>7, <2>8, PageStep DEF Refresh
<1>4. ASSUME NEW t \in Tabs, NEW user \in Users, Set(t, user) PROVE IInv'
  <2> DEFINE st == [user |-> user, ready |-> TRUE]
  <2>1. st \in [user : Users, ready : BOOLEAN] /\ st # Closed /\ Items(item')
    BY <1>0, <1>4, SetTyped DEF Set
  <2>2. Page(t, st, calls[t], FALSE)
    BY <1>4, <2>1 DEF IInv, Page, Set
  <2>3. calls' = [calls EXCEPT ![t] = calls[t]]
    BY <1>4 DEF Set, IInv
  <2> QED BY <1>4, <2>1, <2>2, <2>3, PageStep DEF Set, SetUser
<1>5. ASSUME NEW t \in Tabs, NEW i \in 1 .. MaxCalls[t], Settle(t, i) PROVE IInv'
  <2> DEFINE answer == calls[t][i].answer
             st == [user |-> answer, ready |-> TRUE]
             f == fresh[t] /\ i = 1
  <2>1. i \in DOMAIN calls[t] /\ answer # NoAnswer /\ SetUser(t, answer)
    BY <1>5 DEF Settle
  <2>2. answer \in Users /\ state[t] # Closed
    <3>1. calls[t][i] \in Calls /\ state[t] # Closed
      BY <2>1 DEF IInv, Page
    <3> QED BY <2>1, <3>1 DEF Calls
  <2>3. st \in [user : Users, ready : BOOLEAN] /\ Items(item')
    BY <1>0, <2>1, <2>2, SetTyped
  <2>4. fresh[t] \in BOOLEAN
    BY DEF IInv, Page
  <2>5. Page(t, st, RemoveAt(calls[t], i), f)
    BY <2>1, <2>2, <2>3, <2>4, CallEnds
  <2> QED BY <1>5, <2>3, <2>5, PageStep DEF Settle, SetUser
<1>6. ASSUME NEW t \in Tabs, NEW i \in 1 .. MaxCalls[t], Fail(t, i) PROVE IInv'
  <2>0. i \in DOMAIN calls[t] /\ state[t] # Closed /\ calls[t][i] \in Calls
        /\ state[t] \in [user : Users, ready : BOOLEAN]
    BY <1>6 DEF IInv, Page, Fail
  <2>1. ASSUME NEW user \in Users, SetUser(t, user) PROVE IInv'
    <3>1. [user |-> user, ready |-> TRUE] \in [user : Users, ready : BOOLEAN]
          /\ Items(item')
      BY <1>0, <2>1, SetTyped
    <3>2. Page(t, [user |-> user, ready |-> TRUE], RemoveAt(calls[t], i), FALSE)
      BY <2>0, <3>1, CallEnds
    <3> QED BY <1>6, <2>1, <3>1, <3>2, PageStep DEF Fail, SetUser
  <2>2. ASSUME ~(calls[t][i].boot /\ storage), UNCHANGED <<state, item>> PROVE IInv'
    <3>1. Page(t, state[t], RemoveAt(calls[t], i), FALSE)
      BY <2>0, <2>2, CallEnds
    <3>2. state' = [state EXCEPT ![t] = state[t]] /\ Items(item')
      BY <1>0, <2>2 DEF IInv, Browser
    <3> QED BY <1>6, <3>1, <3>2, PageStep DEF Fail
  <2>3. calls[t][i].answer # NoAnswer => calls[t][i].answer \in Users
    BY <2>0 DEF Calls
  <2>4. Nobody \in Users
    BY DEF Users
  <2> QED BY <1>6, <2>0, <2>1, <2>2, <2>3, <2>4 DEF Fail, Calls
<1>7. ASSUME Browser', fresh' = [t \in Tabs |-> FALSE], UNCHANGED <<storage, state, calls>> PROVE IInv'
  BY <1>7 DEF IInv, Page
<1>8. ASSUME NEW token \in Sessions, LogIn(token) PROVE IInv'
  BY <1>0, <1>7, <1>8 DEF LogIn, Browser, Items, Users
<1>9. CASE LogOut
  BY <1>0, <1>7, <1>9 DEF LogOut, Browser, Items, Users
<1>10. ASSUME NEW token \in Sessions, Expire(token) PROVE IInv'
  BY <1>0, <1>7, <1>10 DEF Expire, Browser, Items
<1>11. CASE UNCHANGED vars
  BY <1>11 DEF vars, IInv, Browser, Items, Page, UserOf
<1> QED BY <1>1, <1>2, <1>3, <1>4, <1>5, <1>6, <1>8, <1>9, <1>10, <1>11, AnswerStep DEF Next

-----------------------------------------------------------------------------
(* Pages that have not been opened satisfy the invariant.                  *)
LEMMA InitIInv == Init => IInv
  BY HydrationAssumption DEF Init, IInv, Browser, Items, Page, Users

(* The invariant holds of every browser and every server.                  *)
THEOREM HydrationInductive == Spec => []IInv
<1>1. IInv /\ [Next]_vars => IInv'
  BY Step
<1> QED BY InitIInv, <1>1, PTL DEF Spec

(* Every page, call, cookie and item keeps its type: of the calls of a     *)
(* page only the first is its own, and a page with none in flight is       *)
(* ready, in a browser with a localStorage.                                *)
THEOREM HydrationTypeCorrect == Spec => []TypeOK
<1>1. IInv => TypeOK
  BY IInvImplies
<1> QED BY <1>1, HydrationInductive, PTL

(* refresh() of lux-user.js: a page that has heard all its answers, in the *)
(* order of its calls and with no log-in, log-out or expiry since the last *)
(* of them, shows the user of the cookie, whatever other pages did to the  *)
(* item they share and whatever it restored from it.                       *)
THEOREM SettledIsSound == Spec => []SettledIsSession
<1>1. IInv => SettledIsSession
  BY IInvImplies
<1> QED BY <1>1, HydrationInductive, PTL
=============================================================================
