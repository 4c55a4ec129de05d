------------------------------- MODULE LuxStore -------------------------------
(***************************************************************************)
(* lux.store of the browser runtime (the JavaScript that generate_js in    *)
(* src/luxweb_core/style.cpp returns): one named store with {persist},     *)
(* open in several tabs that share one localStorage.                       *)
(*                                                                         *)
(* A tab runs one script at a time, but set, patch and subscribe call      *)
(* listeners, which may call them again: stack[t] is what is left to do in *)
(* the calls of publish() that are running, the innermost first.  A        *)
(* listener that throws ends all of them.                                  *)
(***************************************************************************)
EXTENDS Integers, Sequences, SequencesExt

CONSTANTS
  Tabs,
  Fields,     \* property names, paths of one part
  Values,
  Initial,    \* initialState: an object, a function on some of Fields
  Null,       \* the state null
  Undefined,  \* the state undefined
  NoItem,     \* localStorage has no item under the key
  Closed,     \* the tab has not called lux.store yet
  Listeners,  \* functions the scripts of a tab may subscribe: a set for each tab
  MaxDepth    \* bound on nested calls of publish()

Objects == UNION {[F -> Values] : F \in SUBSET Fields}

States == Objects \cup {Null, Undefined}

ASSUME StoreAssumption ==
  /\ Initial \in Objects
  /\ {Null, Undefined, NoItem, Closed} \cap Objects = {}
  /\ Null \notin {Undefined, NoItem, Closed} /\ Closed \notin {Undefined, NoItem}
  /\ MaxDepth \in Nat

VARIABLES
  item,       \* the item in localStorage
  state,      \* state of the store in each tab
  listeners,  \* its listeners, in the order they were added
  stack,      \* the queues of listeners publish() has still to call
  told,       \* history: the listeners called since the state was last published
  thrown,     \* history: a listener has thrown since the last outer call
  latest      \* history: the state published last, in any tab

vars == <<item, state, listeners, stack, told, thrown, latest>>

Init ==
  /\ item = NoItem
  /\ state = [t \in Tabs |-> Closed]
  /\ listeners = [t \in Tabs |-> <<>>]
  /\ stack = [t \in Tabs |-> <<>>]
  /\ told = [t \in Tabs |-> {}]
  /\ thrown = [t \in Tabs |-> FALSE]
  /\ latest = NoItem

-----------------------------------------------------------------------------
(* Object.assign(clone(fallback), parsed). *)
Assign(fallback, parsed) ==
  [f \in DOMAIN fallback \cup DOMAIN parsed |->
     IF f \in DOMAIN parsed THEN parsed[f] ELSE fallback[f]]

(* readPersisted.  "undefined" is no JSON: the item is dropped and the     *)
(* fallback returned; null is, and is returned as it is.                   *)
Mutant_Restore(stored) ==
  IF stored \in {NoItem, Undefined} THEN Initial ELSE stored

Restore(stored) ==
  CASE stored \in {NoItem, Undefined} -> Initial
    [] stored = Null -> Null
    [] stored \in Objects -> Assign(Initial, stored)

ReadPersisted ==
  IF item = Undefined THEN item' = NoItem ELSE UNCHANGED item

(* writePersisted: a refused setItem removes the item instead. *)
Mutant_KeepOnFailure(next) == item' = next \/ UNCHANGED item

WritePersisted(next) == item' \in {next, NoItem}

(* A script of the page, or a listener, is running in the tab. *)
Running(t) == state[t] # Closed /\ Len(stack[t]) < MaxDepth

(* publish(): the item, then a copy of the set of listeners to call. *)
Publish(t, next) ==
  /\ state' = [state EXCEPT ![t] = next]
  /\ WritePersisted(next)
  /\ stack' = [stack EXCEPT ![t] = <<listeners[t]>> \o @]
  /\ thrown' = [thrown EXCEPT ![t] = @ /\ stack[t] # <<>>]
  /\ told' = [told EXCEPT ![t] = {}]
  /\ latest' = next
  /\ UNCHANGED listeners

-----------------------------------------------------------------------------
(* The page loads and calls lux.store(name, initialState, {persist}). *)
Open(t) ==
  /\ state[t] = Closed
  /\ state' = [state EXCEPT ![t] = Restore(item)]
  /\ ReadPersisted
  /\ UNCHANGED <<listeners, stack, told, thrown, latest>>

(* The page is closed, or reloaded. *)
Close(t) ==
  /\ state[t] # Closed /\ stack[t] = <<>>
  /\ state' = [state EXCEPT ![t] = Closed]
  /\ listeners' = [listeners EXCEPT ![t] = <<>>]
  /\ told' = [told EXCEPT ![t] = {}]
  /\ thrown' = [thrown EXCEPT ![t] = FALSE]
  /\ UNCHANGED <<item, stack, latest>>

(* set(value) *)
SetAll(t, next) ==
  /\ Running(t)
  /\ Publish(t, next)

(* set(path, value): a null state has no property to assign, and throws.   *)
SetField(t, f, v) ==
  /\ Running(t)
  /\ state[t] \in Objects
  /\ Publish(t, Assign(state[t], [g \in {f} |-> v]))

(* patch(partial) *)
Patch(t, partial) ==
  /\ Running(t)
  /\ state[t] \in Objects \/ DOMAIN partial = {}
  /\ Publish(t, IF state[t] \in Objects THEN Assign(state[t], partial) ELSE state[t])

(* subscribe(listener): added first, then called. *)
Mutant_NotCalledAtOnce(t, l) ==
  /\ Running(t)
  /\ listeners' = [listeners EXCEPT ![t] = IF Contains(@, l) THEN @ ELSE Append(@, l)]
  /\ UNCHANGED <<item, state, stack, told, thrown, latest>>

Mutant_ListNotSet(t, l) ==
  /\ Running(t)
  /\ listeners' = [listeners EXCEPT ![t] = Append(SelectSeq(@, LAMBDA k : k # l), l) \o @]
  /\ stack' = [stack EXCEPT ![t] = <<<<l>>>> \o @]
  /\ UNCHANGED <<item, state, told, thrown, latest>>

Subscribe(t, l) ==
  /\ Running(t)
  /\ listeners' = [listeners EXCEPT ![t] = IF Contains(@, l) THEN @ ELSE Append(@, l)]
  /\ stack' = [stack EXCEPT ![t] = <<<<l>>>> \o @]
  /\ UNCHANGED <<item, state, told, thrown, latest>>

(* The function that subscribe returned. *)
Unsubscribe(t, l) ==
  /\ Running(t)
  /\ \E i \in DOMAIN listeners[t] :
       /\ listeners[t][i] = l
       /\ listeners' = [listeners EXCEPT ![t] = RemoveAt(@, i)]
  /\ UNCHANGED <<item, state, stack, told, thrown, latest>>

(* The innermost publish() calls its next listener, with a clone of the    *)
(* state as it is now; what the listener does is the next steps of the tab.*)
Call(t) ==
  /\ stack[t] # <<>> /\ Head(stack[t]) # <<>>
  /\ told' = [told EXCEPT ![t] = @ \cup {Head(Head(stack[t]))}]
  /\ stack' = [stack EXCEPT ![t] = <<Tail(Head(@))>> \o Tail(@)]
  /\ UNCHANGED <<item, state, listeners, thrown, latest>>

(* or has called them all. *)
Return(t) ==
  /\ stack[t] # <<>> /\ Head(stack[t]) = <<>>
  /\ stack' = [stack EXCEPT ![t] = Tail(@)]
  /\ UNCHANGED <<item, state, listeners, told, thrown, latest>>

(* A listener throws: no forEach of publish catches, but a listener may    *)
(* catch what the calls it made have thrown.                               *)
Throw(t) ==
  /\ \E n \in 1 .. Len(stack[t]) :
       stack' = [stack EXCEPT ![t] = SubSeq(@, n + 1, Len(@))]
  /\ thrown' = [thrown EXCEPT ![t] = TRUE]
  /\ UNCHANGED <<item, state, listeners, told, latest>>

Next ==
  \E t \in Tabs :
    \/ Open(t) \/ Close(t)
    \/ \E next \in States : SetAll(t, next)
    \/ \E f \in Fields, v \in Values : SetField(t, f, v)
    \/ \E partial \in Objects : Patch(t, partial)
    \/ \E l \in Listeners[t] : Subscribe(t, l) \/ Unsubscribe(t, l)
    \/ Call(t) \/ Return(t) \/ Throw(t)

Spec == Init /\ [][Next]_vars

-----------------------------------------------------------------------------
Queues(t) == {q \in Seq(Listeners[t]) : IsInjective(q)}

TypeOK ==
  /\ item \in States \cup {NoItem}
  /\ state \in [Tabs -> States \cup {Closed}]
  /\ \A t \in Tabs :
       /\ listeners[t] \in Queues(t)
       /\ stack[t] \in Seq(Queues(t)) /\ Len(stack[t]) <= MaxDepth
       /\ told[t] \subseteq Listeners[t]
  /\ thrown \in [Tabs -> BOOLEAN]
  /\ latest \in States \cup {NoItem}

(* What localStorage holds is the state published last, or nothing: when   *)
(* an item cannot be written, an older one does not stay behind for the    *)
(* next page to restore.                                                   *)
ItemIsLatest == item \in {NoItem, latest}

(* A page starts from initialState, with what was published last on top:   *)
(* it has every field of initialState, and no field is from an older state.*)
(* A published null is restored as it is.                                  *)
OpenRestoresLatest ==
  [][\A t \in Tabs : state[t] = Closed /\ state'[t] \in Objects =>
       /\ DOMAIN Initial \subseteq DOMAIN state'[t]
       /\ \/ state'[t] = Initial
          \/ /\ latest \in Objects
             /\ \A f \in DOMAIN latest : state'[t][f] = latest[f]]_vars

(* When no call is running, every listener has been called with the state  *)
(* as it is, whatever listeners set, subscribed and unsubscribed on the    *)
(* way, unless one of them has thrown.                                     *)
QuietMeansTold ==
  \A t \in Tabs : stack[t] = <<>> /\ ~thrown[t] => Range(listeners[t]) \subseteq told[t]
=============================================================================
