---------------------------- MODULE LuxStoreProofs ----------------------------
(***************************************************************************)
(* Theorems about LuxStore, for any number of tabs, fields, values and     *)
(* listeners, and calls nested to any depth.                               *)
(***************************************************************************)
EXTENDS LuxStore, SequenceLemmas

(* What TypeOK says of the item, the states and what was published.        *)
Typed ==
  /\ item \in States \cup {NoItem}
  /\ state \in [Tabs -> States \cup {Closed}]
  /\ latest \in States \cup {NoItem}

(* What OpenRestoresLatest says of one page.                               *)
Restores(t) ==
  state[t] = Closed /\ state'[t] \in Objects =>
    /\ DOMAIN Initial \subseteq DOMAIN state'[t]
    /\ \/ state'[t] = Initial
       \/ latest \in Objects /\ \A f \in DOMAIN latest : state'[t][f] = latest[f]

(* Object.assign gives an object that has what was assigned.               *)
LEMMA AssignTyped ==
  ASSUME NEW fallback \in Objects, NEW parsed \in Objects
  PROVE  /\ Assign(fallback, parsed) \in Objects
         /\ DOMAIN fallback \subseteq DOMAIN Assign(fallback, parsed)
         /\ \A f \in DOMAIN parsed : Assign(fallback, parsed)[f] = parsed[f]
<1>1. PICK F \in SUBSET Fields : fallback \in [F -> Values]
  BY DEF Objects
<1>2. PICK G \in SUBSET Fields : parsed \in [G -> Values]
  BY DEF Objects
<1>3. Assign(fallback, parsed) \in [F \cup G -> Values] /\ F \cup G \in SUBSET Fields
  BY <1>1, <1>2 DEF Assign
<1>4. Assign(fallback, parsed) \in Objects
  BY <1>3 DEF Objects
<1> QED BY <1>1, <1>2, <1>4 DEF Assign

(* An object of one field.                                                *)
LEMMA FieldTyped ==
  ASSUME NEW f \in Fields, NEW v \in Values PROVE [g \in {f} |-> v] \in Objects
<1>1. [g \in {f} |-> v] \in [{f} -> Values] /\ {f} \in SUBSET Fields
  OBVIOUS
<1> QED BY <1>1 DEF Objects

(* A tab that publishes has the state it publishes, is none that opens,    *)
(* and leaves that state or nothing in localStorage.                       *)
LEMMA PublishStep ==
  ASSUME Typed, NEW t \in Tabs, NEW next \in States, state[t] # Closed, Publish(t, next)
  PROVE  Typed' /\ ItemIsLatest' /\ \A u \in Tabs : Restores(u)
<1>1. state' = [state EXCEPT ![t] = next] /\ item' \in {next, NoItem} /\ latest' = next
  BY DEF Publish, WritePersisted
<1>2. Typed' /\ ItemIsLatest'
  BY <1>1 DEF Typed, ItemIsLatest
<1>3. ASSUME NEW u \in Tabs, state[u] = Closed PROVE state'[u] \notin Objects
  BY <1>1, <1>3, StoreAssumption DEF Typed
<1> QED BY <1>2, <1>3 DEF Restores

(* Every step keeps the types, and leaves in localStorage what was         *)
(* published last, or nothing; a tab that opens has restored it.           *)
LEMMA Step ==
  ASSUME Typed, ItemIsLatest, [Next]_vars
  PROVE  Typed' /\ ItemIsLatest' /\ \A u \in Tabs : Restores(u)
<1>1. ASSUME NEW t \in Tabs, Open(t)
      PROVE  Typed' /\ ItemIsLatest' /\ \A u \in Tabs : Restores(u)
  <2>1. state' = [state EXCEPT ![t] = Restore(item)] /\ latest' = latest
        /\ item' \in {item, NoItem}
    BY <1>1 DEF Open, ReadPersisted
  <2>2. CASE item \in {NoItem, Undefined}
    <3>1. Restore(item) = Initial
      BY <2>2, StoreAssumption DEF Restore
    <3>2. Initial \in States
      BY StoreAssumption DEF States
    <3>3. Typed' /\ ItemIsLatest'
      BY <2>1, <3>1, <3>2 DEF Typed, ItemIsLatest
    <3>4. ASSUME NEW u \in Tabs PROVE Restores(u)
      <4>1. CASE u = t
        BY <2>1, <3>1, <4>1 DEF Typed, Restores
      <4>2. CASE u # t
        BY <2>1, <4>2, StoreAssumption DEF Typed, Restores
      <4> QED BY <4>1, <4>2
    <3> QED BY <3>3, <3>4
  <2>3. CASE item = Null /\ item \notin {NoItem, Undefined}
    <3>1. Restore(item) = Null /\ Null \in States
      BY <2>3, StoreAssumption DEF Restore, States
    <3>2. Typed' /\ ItemIsLatest'
      BY <2>1, <3>1 DEF Typed, ItemIsLatest
    <3>3. ASSUME NEW u \in Tabs, state[u] = Closed PROVE state'[u] \notin Objects
      BY <2>1, <3>1, <3>3, StoreAssumption DEF Typed
    <3> QED BY <3>2, <3>3 DEF Restores
  <2>4. CASE item \in Objects /\ item # Null /\ item \notin {NoItem, Undefined}
    <3>1. Restore(item) = Assign(Initial, item) /\ item = latest
      BY <2>4 DEF Restore, ItemIsLatest
    <3>2. /\ Restore(item) \in Objects
          /\ DOMAIN Initial \subseteq DOMAIN Restore(item)
          /\ \A f \in DOMAIN item : Restore(item)[f] = item[f]
      BY <2>4, <3>1, AssignTyped, StoreAssumption
    <3>3. Restore(item) \in States
      BY <3>2 DEF States
    <3>4. Typed' /\ ItemIsLatest'
      BY <2>1, <3>3 DEF Typed, ItemIsLatest
    <3>5. ASSUME NEW u \in Tabs PROVE Restores(u)
      <4>1. CASE u = t
        BY <2>1, <2>4, <3>1, <3>2, <4>1 DEF Typed, Restores
      <4>2. CASE u # t
        BY <2>1, <4>2, StoreAssumption DEF Typed, Restores
      <4> QED BY <4>1, <4>2
    <3> QED BY <3>4, <3>5
  <2> QED BY <2>2, <2>3, <2>4 DEF Typed, States
<1>2. ASSUME NEW t \in Tabs, Close(t)
      PROVE  Typed' /\ ItemIsLatest' /\ \A u \in Tabs : Restores(u)
  <2>1. state' = [state EXCEPT ![t] = Closed] /\ item' = item /\ latest' = latest
    BY <1>2 DEF Close
  <2>2. Typed' /\ ItemIsLatest'
    BY <2>1 DEF Typed, ItemIsLatest
  <2>3. ASSUME NEW u \in Tabs, state[u] = Closed PROVE state'[u] \notin Objects
    BY <2>1, <2>3, StoreAssumption DEF Typed
  <2> QED BY <2>2, <2>3 DEF Restores
<1>3. ASSUME NEW t \in Tabs, NEW next \in States, SetAll(t, next)
      PROVE  Typed' /\ ItemIsLatest' /\ \A u \in Tabs : Restores(u)
  BY <1>3, PublishStep DEF SetAll, Running
<1>4. ASSUME NEW t \in Tabs, NEW f \in Fields, NEW v \in Values, SetField(t, f, v)
      PROVE  Typed' /\ ItemIsLatest' /\ \A u \in Tabs : Restores(u)
  <2>1. Assign(state[t], [g \in {f} |-> v]) \in States
    BY <1>4, AssignTyped, FieldTyped DEF SetField, States
  <2> QED BY <1>4, <2>1, PublishStep DEF SetField, Running
<1>5. ASSUME NEW t \in Tabs, NEW partial \in Objects, Patch(t, partial)
      PROVE  Typed' /\ ItemIsLatest' /\ \A u \in Tabs : Restores(u)
  <2>1. state[t] # Closed
    BY <1>5 DEF Patch, Running
  <2>2. CASE state[t] \in Objects
    <3>1. Assign(state[t], partial) \in States
      BY <2>2, AssignTyped DEF States
    <3> QED BY <1>5, <2>1, <2>2, <3>1, PublishStep DEF Patch
  <2>3. CASE state[t] \notin Objects
    <3>1. state[t] \in States
      BY <2>1 DEF Typed
    <3> QED BY <1>5, <2>1, <2>3, <3>1, PublishStep DEF Patch
  <2> QED BY <2>2, <2>3
<1>6. ASSUME UNCHANGED <<item, state, latest>>
      PROVE  Typed' /\ ItemIsLatest' /\ \A u \in Tabs : Restores(u)
  BY <1>6, StoreAssumption DEF Typed, ItemIsLatest, Restores
<1>7. ASSUME NEW t \in Tabs, NEW l \in Listeners[t], Subscribe(t, l) \/ Unsubscribe(t, l)
      PROVE  UNCHANGED <<item, state, latest>>
  BY <1>7 DEF Subscribe, Unsubscribe
<1>8. ASSUME NEW t \in Tabs, Call(t) \/ Return(t) \/ Throw(t)
      PROVE  UNCHANGED <<item, state, latest>>
  BY <1>8 DEF Call, Return, Throw
<1>9. CASE UNCHANGED vars
  BY <1>6, <1>9 DEF vars
<1> QED BY <1>1, <1>2, <1>3, <1>4, <1>5, <1>6, <1>7, <1>8, <1>9 DEF Next

(* No page is open, and nothing is stored.                                 *)
LEMMA InitTyped == Init => Typed /\ ItemIsLatest
  BY DEF Init, Typed, ItemIsLatest

(* The types of item and states, and what the item is, in every tab's      *)
(* every state.                                                            *)
THEOREM StoreInductive == Spec => [](Typed /\ ItemIsLatest)
<1>1. Typed /\ ItemIsLatest /\ [Next]_vars => (Typed /\ ItemIsLatest)'
  BY Step
<1> QED BY InitTyped, <1>1, PTL DEF Spec

(* writePersisted: localStorage holds the state that was published last in *)
(* any tab, or nothing, although a write may be refused at any time and    *)
(* listeners publish while they are told of what was published before.     *)
THEOREM ItemsAreLatest == Spec => []ItemIsLatest
<1> QED BY StoreInductive, PTL

(* readPersisted: a page starts from initialState with what was published  *)
(* last on top, and has every field of initialState, whichever page has    *)
(* written the item.                                                       *)
THEOREM RestoresAreLatest == Spec => OpenRestoresLatest
<1>1. Typed /\ ItemIsLatest /\ [Next]_vars =>
        [\A t \in Tabs : state[t] = Closed /\ state'[t] \in Objects =>
           /\ DOMAIN Initial \subseteq DOMAIN state'[t]
           /\ \/ state'[t] = Initial
              \/ /\ latest \in Objects
                 /\ \A f \in DOMAIN latest : state'[t][f] = latest[f]]_vars
  BY Step DEF Restores
<1> QED BY <1>1, StoreInductive, PTL DEF Spec, OpenRestoresLatest

-----------------------------------------------------------------------------
(* What holds of a tab whose listeners are ls, running calls st, listeners *)
(* called to and history th: unless a listener has thrown, each listener   *)
(* was called since the last publication, or is in a queue of a call that  *)
(* is running.                                                             *)
Tab(t, ls, st, to, th) ==
  /\ ls \in Queues(t)
  /\ st \in Seq(Queues(t)) /\ Len(st) <= MaxDepth
  /\ to \subseteq Listeners[t]
  /\ th \in BOOLEAN
  /\ ~th => \A l \in Range(ls) : l \in to \/ \E i \in DOMAIN st : l \in Range(st[i])

IInv ==
  /\ Typed
  /\ listeners = [t \in Tabs |-> listeners[t]]
  /\ stack = [t \in Tabs |-> stack[t]]
  /\ told = [t \in Tabs |-> told[t]]
  /\ thrown = [t \in Tabs |-> thrown[t]]
  /\ \A t \in Tabs : Tab(t, listeners[t], stack[t], told[t], thrown[t])

(* A script of one tab leaves what the others have as it is.               *)
LEMMA TabStep ==
  ASSUME IInv, Typed', NEW t \in Tabs, NEW ls, NEW st, NEW to, NEW th,
         listeners' = [listeners EXCEPT ![t] = ls], stack' = [stack EXCEPT ![t] = st],
         told' = [told EXCEPT ![t] = to], thrown' = [thrown EXCEPT ![t] = th],
         Tab(t, ls, st, to, th)
  PROVE  IInv'
<1>1. ASSUME NEW u \in Tabs PROVE Tab(u, listeners'[u], stack'[u], told'[u], thrown'[u])
  <2>1. CASE u = t
    BY <2>1 DEF IInv
  <2>2. CASE u # t
    BY <2>2 DEF IInv
  <2> QED BY <2>1, <2>2
<1>2. ASSUME NEW u \in Tabs PROVE Tab(u, listeners[u], stack[u], told[u], thrown[u])'
  BY <1>1 DEF Tab, Queues
<1>3. /\ listeners' = [u \in Tabs |-> listeners'[u]]
      /\ stack' = [u \in Tabs |-> stack'[u]]
      /\ told' = [u \in Tabs |-> told'[u]]
      /\ thrown' = [u \in Tabs |-> thrown'[u]]
  BY DEF IInv
<1> QED BY <1>2, <1>3 DEF IInv

(* publish() has all listeners to call, so nothing is left of what they    *)
(* were told before.                                                       *)
LEMMA PublishTold ==
  ASSUME IInv, Typed', NEW t \in Tabs, NEW next, Running(t), Publish(t, next)
  PROVE  IInv'
<1> DEFINE st == <<listeners[t]>> \o stack[t]
           th == thrown[t] /\ stack[t] # <<>>
<1>1. Tab(t, listeners[t], stack[t], told[t], thrown[t])
  BY DEF IInv
<1>2. /\ st \in Seq(Queues(t)) /\ Len(st) = Len(stack[t]) + 1
      /\ st[1] = listeners[t] /\ 1 \in DOMAIN st
  BY <1>1, Pushed DEF Tab
<1>3. Len(st) <= MaxDepth
  BY <1>1, <1>2, StoreAssumption DEF Running, Tab
<1> HIDE DEF st
<1>4. Tab(t, listeners[t], st, {}, th)
  BY <1>1, <1>2, <1>3 DEF Tab
<1>5. /\ listeners' = [listeners EXCEPT ![t] = listeners[t]]
      /\ stack' = [stack EXCEPT ![t] = st]
      /\ told' = [told EXCEPT ![t] = {}]
      /\ thrown' = [thrown EXCEPT ![t] = th]
  BY DEF Publish, IInv, st
<1> QED BY <1>4, <1>5, TabStep

(* A subscriber is in a queue of its own.                                  *)
LEMMA SubscribeTold ==
  ASSUME IInv, Typed', NEW t \in Tabs, NEW l \in Listeners[t], Subscribe(t, l)
  PROVE  IInv'
<1> DEFINE st == <<<<l>>>> \o stack[t]
           ls == IF Contains(listeners[t], l) THEN listeners[t] ELSE Append(listeners[t], l)
<1>1. Tab(t, listeners[t], stack[t], told[t], thrown[t])
  BY DEF IInv
<1>2. <<l>> \in Queues(t) /\ Range(<<l>>) = {l}
  BY Single DEF Queues
<1>3. /\ st \in Seq(Queues(t)) /\ Len(st) = Len(stack[t]) + 1
      /\ st[1] = <<l>> /\ 1 \in DOMAIN st
      /\ \A i \in DOMAIN stack[t] : i + 1 \in DOMAIN st /\ st[i + 1] = stack[t][i]
  BY <1>1, <1>2, Pushed DEF Tab
<1>4. Len(st) <= MaxDepth
  BY <1>1, <1>3, StoreAssumption DEF Subscribe, Running, Tab
<1>5. ls \in Queues(t) /\ Range(ls) \subseteq Range(listeners[t]) \cup {l}
  <2>1. listeners[t] \in Seq(Listeners[t]) /\ IsInjective(listeners[t])
    BY <1>1 DEF Tab, Queues
  <2>2. CASE Contains(listeners[t], l)
    BY <1>1, <2>2 DEF Tab
  <2>3. CASE ~Contains(listeners[t], l)
    <3>1. /\ Append(listeners[t], l) \in Seq(Listeners[t])
          /\ IsInjective(Append(listeners[t], l))
          /\ Range(Append(listeners[t], l)) = Range(listeners[t]) \cup {l}
      <4> DEFINE L == Listeners[t]
                 q == listeners[t]
      <4>1. q \in Seq(L) /\ IsInjective(q) /\ l \in L /\ ~Contains(q, l)
        BY <2>1, <2>3
      <4> HIDE DEF L, q
      <4>2. /\ Append(q, l) \in Seq(L) /\ IsInjective(Append(q, l))
            /\ Range(Append(q, l)) = Range(q) \cup {l}
        BY <4>1, Added
      <4> QED BY <4>2 DEF L, q
    <3>2. ls = Append(listeners[t], l)
      BY <2>3
    <3> QED BY <3>1, <3>2 DEF Queues
  <2> QED BY <2>2, <2>3
<1>6. /\ listeners' = [listeners EXCEPT ![t] = ls]
      /\ stack' = [stack EXCEPT ![t] = st]
      /\ told' = [told EXCEPT ![t] = told[t]]
      /\ thrown' = [thrown EXCEPT ![t] = thrown[t]]
  BY DEF Subscribe, IInv
<1> HIDE DEF st, ls
<1>7. ASSUME ~thrown[t], NEW k \in Range(ls)
      PROVE  k \in told[t] \/ \E i \in DOMAIN st : k \in Range(st[i])
  <2>1. CASE k = l
    BY <1>2, <1>3, <2>1
  <2>2. CASE k \in Range(listeners[t]) /\ k \notin told[t]
    <3>1. PICK i \in DOMAIN stack[t] : k \in Range(stack[t][i])
      BY <1>1, <1>7, <2>2 DEF Tab
    <3> QED BY <1>3, <3>1
  <2> QED BY <1>5, <1>7, <2>1, <2>2
<1>8. Tab(t, ls, st, told[t], thrown[t])
  BY <1>1, <1>3, <1>4, <1>5, <1>7 DEF Tab
<1> QED BY <1>6, <1>8, TabStep

(* A listener that is called moves from its queue to those called.         *)
LEMMA CallTold ==
  ASSUME IInv, Typed', NEW t \in Tabs, Call(t) PROVE IInv'
<1> DEFINE q == Head(stack[t])
           rest == Tail(stack[t])
           st == <<Tail(q)>> \o rest
           to == told[t] \cup {Head(q)}
<1>1. Tab(t, listeners[t], stack[t], told[t], thrown[t])
  BY DEF IInv
<1>2. /\ stack[t] \in Seq(Queues(t)) /\ stack[t] # <<>>
      /\ q \in Queues(t) /\ q # <<>> /\ q = stack[t][1]
      /\ rest \in Seq(Queues(t)) /\ Len(rest) = Len(stack[t]) - 1
      /\ \A i \in DOMAIN rest : rest[i] = stack[t][i + 1]
  BY <1>1, HeadTailProperties DEF Call, Tab
<1>3. /\ Head(q) \in Listeners[t] /\ Head(q) = q[1]
      /\ Tail(q) \in Seq(Listeners[t]) /\ Len(Tail(q)) = Len(q) - 1
      /\ \A i \in 1 .. Len(Tail(q)) : Tail(q)[i] = q[i + 1]
  <2>1. q \in Seq(Listeners[t]) /\ q # <<>>
    BY <1>2 DEF Queues
  <2> HIDE DEF q
  <2> QED BY <2>1, HeadTailProperties
<1>4. Tail(q) \in Queues(t)
  <2>1. ASSUME NEW a \in DOMAIN Tail(q), NEW b \in DOMAIN Tail(q), Tail(q)[a] = Tail(q)[b]
        PROVE  a = b
    <3>1. a + 1 \in DOMAIN q /\ b + 1 \in DOMAIN q /\ q[a + 1] = q[b + 1]
      BY <1>2, <1>3, <2>1 DEF Queues
    <3>2. a + 1 = b + 1
      BY <1>2, <3>1 DEF Queues, IsInjective
    <3> QED BY <1>3, <3>2
  <2> QED BY <1>3, <2>1 DEF Queues, IsInjective
<1>5. ASSUME NEW k \in Range(q) PROVE k = Head(q) \/ k \in Range(Tail(q))
  <2>1. PICK a \in DOMAIN q : q[a] = k
    BY DEF Range
  <2>2. CASE a = 1
    BY <1>3, <2>1, <2>2
  <2>3. CASE a # 1
    <3> DEFINE n == Len(q)
               tail == Tail(q)
    <3>1. a \in 1 .. n /\ n \in Nat
      BY <1>2, <2>1 DEF Queues
    <3>2. /\ tail \in Seq(Listeners[t]) /\ Len(tail) = n - 1
          /\ \A i \in 1 .. Len(tail) : tail[i] = q[i + 1]
      BY <1>3
    <3> HIDE DEF n, tail
    <3>3. a - 1 \in 1 .. Len(tail) /\ (a - 1) + 1 = a
      BY <2>3, <3>1, <3>2
    <3>4. a - 1 \in DOMAIN tail /\ tail[a - 1] = k
      BY <2>1, <3>2, <3>3
    <3> QED BY <3>4 DEF Range, tail
  <2> QED BY <2>2, <2>3
<1>6. /\ st \in Seq(Queues(t)) /\ Len(st) = Len(stack[t])
      /\ st[1] = Tail(q) /\ 1 \in DOMAIN st
      /\ \A i \in DOMAIN rest : i + 1 \in DOMAIN st /\ st[i + 1] = rest[i]
  <2> DEFINE tail == Tail(q)
             old == stack[t]
             queues == Queues(t)
             new == <<tail>> \o rest
  <2>1. tail \in queues
    BY <1>4
  <2>2. rest \in Seq(queues) /\ old \in Seq(queues) /\ Len(rest) = Len(old) - 1
    BY <1>2
  <2> HIDE DEF tail, rest, queues, old
  <2>3. /\ new \in Seq(queues) /\ Len(new) = Len(rest) + 1
        /\ new[1] = tail /\ 1 \in DOMAIN new
        /\ \A i \in DOMAIN rest : i + 1 \in DOMAIN new /\ new[i + 1] = rest[i]
    BY <2>1, <2>2, Pushed
  <2> HIDE DEF new
  <2>4. Len(new) = Len(old)
    BY <2>2, <2>3
  <2> QED BY <2>3, <2>4 DEF tail, queues, old, new
<1>7. /\ listeners' = [listeners EXCEPT ![t] = listeners[t]]
      /\ stack' = [stack EXCEPT ![t] = st]
      /\ told' = [told EXCEPT ![t] = to]
      /\ thrown' = [thrown EXCEPT ![t] = thrown[t]]
  BY DEF Call, IInv
<1> HIDE DEF st, q, rest
<1>8. ASSUME ~thrown[t], NEW k \in Range(listeners[t])
      PROVE  k \in to \/ \E i \in DOMAIN st : k \in Range(st[i])
  <2>1. CASE k \in told[t]
    BY <2>1
  <2>2. CASE k \notin told[t]
    <3>1. PICK i \in DOMAIN stack[t] : k \in Range(stack[t][i])
      BY <1>1, <1>8, <2>2 DEF Tab
    <3>2. CASE i = 1
      BY <1>2, <1>5, <1>6, <3>1, <3>2
    <3>3. CASE i # 1
      <4>1. i - 1 \in DOMAIN rest /\ rest[i - 1] = stack[t][i]
        BY <1>2, <3>3
      <4> QED BY <1>6, <3>1, <4>1
    <3> QED BY <3>2, <3>3
  <2> QED BY <2>1, <2>2
<1>9. Tab(t, listeners[t], st, to, thrown[t])
  BY <1>1, <1>3, <1>6, <1>8 DEF Tab
<1> QED BY <1>7, <1>9, TabStep

(* A queue that ends is empty.                                             *)
LEMMA ReturnTold ==
  ASSUME IInv, Typed', NEW t \in Tabs, Return(t) PROVE IInv'
<1> DEFINE st == Tail(stack[t])
<1>1. Tab(t, listeners[t], stack[t], told[t], thrown[t])
  BY DEF IInv
<1>2. /\ stack[t] \in Seq(Queues(t)) /\ stack[t][1] = <<>>
      /\ st \in Seq(Queues(t)) /\ Len(st) = Len(stack[t]) - 1
      /\ \A i \in 1 .. Len(st) : st[i] = stack[t][i + 1]
  BY <1>1, HeadTailProperties DEF Return, Tab
<1>3. /\ listeners' = [listeners EXCEPT ![t] = listeners[t]]
      /\ stack' = [stack EXCEPT ![t] = st]
      /\ told' = [told EXCEPT ![t] = told[t]]
      /\ thrown' = [thrown EXCEPT ![t] = thrown[t]]
  BY DEF Return, IInv
<1> HIDE DEF st
<1>4. ASSUME ~thrown[t], NEW k \in Range(listeners[t]), k \notin told[t]
      PROVE  \E i \in DOMAIN st : k \in Range(st[i])
  <2>1. PICK i \in DOMAIN stack[t] : k \in Range(stack[t][i])
    BY <1>1, <1>4 DEF Tab
  <2>2. i # 1
    BY <1>2, <2>1 DEF Range
  <2>3. i \in 1 .. Len(stack[t]) /\ Len(stack[t]) \in Nat
    BY <1>2
  <2>4. i - 1 \in 1 .. Len(st) /\ DOMAIN st = 1 .. Len(st)
    BY <1>2, <2>2, <2>3
  <2>5. i - 1 \in DOMAIN st /\ st[i - 1] = stack[t][i]
    BY <1>2, <2>4
  <2> QED BY <2>1, <2>5
<1>5. Tab(t, listeners[t], st, told[t], thrown[t])
  BY <1>1, <1>2, <1>4, StoreAssumption DEF Tab
<1> QED BY <1>3, <1>5, TabStep

(* A listener that throws ends what may be any number of the running calls.*)
LEMMA ThrowTold ==
  ASSUME IInv, Typed', NEW t \in Tabs, Throw(t) PROVE IInv'
<1>1. Tab(t, listeners[t], stack[t], told[t], thrown[t])
  BY DEF IInv
<1>2. PICK n \in 1 .. Len(stack[t]) :
        stack' = [stack EXCEPT ![t] = SubSeq(stack[t], n + 1, Len(stack[t]))]
  BY DEF Throw
<1> DEFINE st == SubSeq(stack[t], n + 1, Len(stack[t]))
<1>3. st \in Seq(Queues(t)) /\ Len(st) <= Len(stack[t])
  BY <1>1 DEF Tab
<1> HIDE DEF st
<1>4. Tab(t, listeners[t], st, told[t], TRUE)
  BY <1>1, <1>3, StoreAssumption DEF Tab
<1>5. /\ listeners' = [listeners EXCEPT ![t] = listeners[t]]
      /\ stack' = [stack EXCEPT ![t] = st]
      /\ told' = [told EXCEPT ![t] = told[t]]
      /\ thrown' = [thrown EXCEPT ![t] = TRUE]
  BY <1>2 DEF Throw, IInv, st
<1> QED BY <1>4, <1>5, TabStep

(* Every step keeps the invariant.                                         *)
LEMMA ToldStep == IInv /\ ItemIsLatest /\ [Next]_vars => IInv'
<1> SUFFICES ASSUME IInv, ItemIsLatest, [Next]_vars PROVE IInv'
  OBVIOUS
<1>1. Typed'
  BY Step DEF IInv
<1>2. ASSUME NEW t \in Tabs PROVE Tab(t, listeners[t], stack[t], told[t], thrown[t])
  BY DEF IInv
<1>3. ASSUME NEW t \in Tabs, Open(t) PROVE IInv'
  BY <1>1, <1>3 DEF Open, IInv, Tab, Queues
<1>4. ASSUME NEW t \in Tabs, Close(t) PROVE IInv'
  <2>1. Tab(t, <<>>, stack[t], {}, FALSE)
    <3>1. <<>> \in Queues(t) /\ Range(<<>>) = {}
      BY DEF Queues, IsInjective, Range
    <3> QED BY <1>2, <3>1 DEF Tab
  <2>2. /\ listeners' = [listeners EXCEPT ![t] = <<>>]
        /\ stack' = [stack EXCEPT ![t] = stack[t]]
        /\ told' = [told EXCEPT ![t] = {}]
        /\ thrown' = [thrown EXCEPT ![t] = FALSE]
    BY <1>4 DEF Close, IInv
  <2> QED BY <1>1, <2>1, <2>2, TabStep
<1>5. ASSUME NEW t \in Tabs, NEW next \in States, SetAll(t, next) PROVE IInv'
  BY <1>1, <1>5, PublishTold DEF SetAll
<1>6. ASSUME NEW t \in Tabs, NEW f \in Fields, NEW v \in Values, SetField(t, f, v) PROVE IInv'
  BY <1>1, <1>6, PublishTold DEF SetField
<1>7. ASSUME NEW t \in Tabs, NEW partial \in Objects, Patch(t, partial) PROVE IInv'
  BY <1>1, <1>7, PublishTold DEF Patch
<1>8. ASSUME NEW t \in Tabs, NEW l \in Listeners[t], Unsubscribe(t, l) PROVE IInv'
  <2>1. PICK i \in DOMAIN listeners[t] :
          listeners' = [listeners EXCEPT ![t] = RemoveAt(listeners[t], i)]
    BY <1>8 DEF Unsubscribe
  <2>2. /\ RemoveAt(listeners[t], i) \in Queues(t)
        /\ Range(RemoveAt(listeners[t], i)) \subseteq Range(listeners[t])
    BY <1>2, Deleted DEF Tab, Queues
  <2>3. Tab(t, RemoveAt(listeners[t], i), stack[t], told[t], thrown[t])
    BY <1>2, <2>2 DEF Tab
  <2>4. /\ stack' = [stack EXCEPT ![t] = stack[t]]
        /\ told' = [told EXCEPT ![t] = told[t]]
        /\ thrown' = [thrown EXCEPT ![t] = thrown[t]]
    BY <1>8 DEF Unsubscribe, IInv
  <2> QED BY <1>1, <2>1, <2>3, <2>4, TabStep
<1>9. ASSUME NEW t \in Tabs, NEW l \in Listeners[t], Subscribe(t, l) PROVE IInv'
  BY <1>1, <1>9, SubscribeTold
<1>10. ASSUME NEW t \in Tabs, Call(t) \/ Return(t) \/ Throw(t) PROVE IInv'
  BY <1>1, <1>10, CallTold, ReturnTold, ThrowTold
<1>11. CASE UNCHANGED vars
  BY <1>1, <1>11 DEF vars, IInv, Tab, Queues
<1> QED BY <1>3, <1>4, <1>5, <1>6, <1>7, <1>8, <1>9, <1>10, <1>11 DEF Next

(* No page is open, and there is nobody to tell.                           *)
LEMMA InitTold == Init => IInv
<1> SUFFICES ASSUME Init PROVE IInv
  OBVIOUS
<1>1. ASSUME NEW t \in Tabs PROVE Tab(t, <<>>, <<>>, {}, FALSE)
  <2>1. <<>> \in Queues(t) /\ Range(<<>>) = {}
    BY DEF Queues, IsInjective, Range
  <2> QED BY <2>1, StoreAssumption DEF Tab
<1>2. /\ listeners = [t \in Tabs |-> <<>>] /\ stack = [t \in Tabs |-> <<>>]
      /\ told = [t \in Tabs |-> {}] /\ thrown = [t \in Tabs |-> FALSE]
  BY DEF Init
<1> QED BY <1>1, <1>2, InitTyped DEF IInv

(* The inductive invariant.                                                *)
THEOREM ToldInductive == Spec => []IInv
<1> QED BY InitTold, ToldStep, ItemsAreLatest, PTL DEF Spec

(* Every variable keeps its type; listeners and the queues of publish()    *)
(* are sets in the order of insertion, however calls nest.                 *)
THEOREM StoreTypeCorrect == Spec => []TypeOK
<1>1. IInv => TypeOK
  <2> SUFFICES ASSUME IInv PROVE TypeOK
    OBVIOUS
  <2>1. thrown \in [Tabs -> BOOLEAN]
    BY DEF IInv, Tab
  <2> QED BY <2>1 DEF IInv, Typed, Tab, TypeOK
<1> QED BY <1>1, ToldInductive, PTL

(* publish(), subscribe(): when no call of a page is running, each of its  *)
(* listeners was called since the last publication, whatever listeners     *)
(* published, subscribed and unsubscribed on the way, unless one threw.    *)
THEOREM QuietIsTold == Spec => []QuietMeansTold
<1>1. IInv => QuietMeansTold
  <2> SUFFICES ASSUME IInv, NEW t \in Tabs, stack[t] = <<>>, ~thrown[t]
               PROVE  Range(listeners[t]) \subseteq told[t]
    BY DEF QuietMeansTold
  <2> QED BY DEF IInv, Tab
<1> QED BY <1>1, ToldInductive, PTL
=============================================================================
