------------------------------ MODULE LuxEffects ------------------------------
(***************************************************************************)
(* lux.signal, lux.effect, lux.mount and the bindings of the browser       *)
(* runtime (generate_js in src/luxweb_core/style.cpp), in one page.        *)
(*                                                                         *)
(* What a script or a function given to effect and subscribe does is not   *)
(* known: any of the calls below, in any order, inside one another.  stack *)
(* is the calls that are running, the innermost first.  The effects that   *)
(* mount makes are known: each reads a store and shows what it has read,   *)
(* with no call in between, so a run of one is a single step.              *)
(***************************************************************************)
EXTENDS Integers, Sequences, SequencesExt

CONSTANTS
  Signals,    \* made by lux.signal
  Stores,     \* the names given to lux.store
  Values,     \* what a store may hold
  Effects,    \* functions given to lux.effect; stands for the run it returns
  Plain,      \* functions given to subscribe
  Bindings,   \* elements with a data-lux attribute that names a store
  Inputs,     \* those of them with data-lux-model
  StoreOf,    \* the store each names
  Missing,    \* no store of that name
  Held,       \* what a signal holds: no element shows it
  Blank,      \* the element shows what the server has rendered
  NoEffect,   \* activeEffect is null
  MaxMounts,  \* bound on the calls of mount
  MaxDepth    \* bound on the calls inside one another

Sources == Signals \cup Stores

(* The run function of the effect the n-th mount has made for an element.  *)
Run(b, n) == <<b, n>>

Runs == Bindings \X (1 .. MaxMounts)

ASSUME EffectsAssumption ==
  /\ Signals \cap Stores = {} /\ Effects \cap Plain = {}
  /\ NoEffect \notin Effects \cup Plain
  /\ {Missing, Held, Blank} \cap Values = {} /\ Missing \notin {Held, Blank}
  /\ Inputs \subseteq Bindings /\ StoreOf \in [Bindings -> Stores]
  /\ IsFiniteSet(Bindings) /\ Runs \cap (Effects \cup Plain) = {}
  /\ MaxMounts \in Nat /\ MaxDepth \in Nat

VARIABLES
  value,         \* of a signal, or the state of a store
  listeners,     \* of a signal or a store, in the order they were added
  activeEffect,
  stack,
  shown,         \* what each element shows
  mounts,        \* how often mount has run
  reads,         \* history: in a run of which effect what has been read
  early,         \* history: the stores there were when mount first ran
  missed         \* history: elements an exception has kept from an update

vars == <<value, listeners, activeEffect, stack, shown, mounts, reads, early, missed>>

(* "set": set() has still to call queue; "run": an effect runs, and will   *)
(* restore previous; "call": a listener runs; "first": signal.subscribe    *)
(* calls the listener who, and will then add it to source.                 *)
Frame(kind, who, source, queue, previous) ==
  [kind |-> kind, who |-> who, source |-> source, queue |-> queue, previous |-> previous]

NoSource == "none"

(* The stack in which f has been called. *)
Called(f) ==
  <<IF f \in Effects THEN Frame("run", f, NoSource, <<>>, activeEffect)
                     ELSE Frame("call", f, NoSource, <<>>, NoEffect)>>

(* The effect whose function is running: that of the innermost run. *)
Innermost ==
  LET running == {i \in DOMAIN stack : stack[i].kind = "run"}
  IN  IF running = {} THEN NoEffect
      ELSE stack[CHOOSE i \in running : \A j \in running : i <= j].who

(* A script, or a function that was called, is at its next statement. *)
InBody == ~(stack # <<>> /\ Head(stack).kind = "set")

(* Listener sets are Set objects: adding twice changes nothing. *)
Mutant_Append(set, f) == Append(set, f)

Add(set, f) == IF Contains(set, f) THEN set ELSE Append(set, f)

Init ==
  /\ value = [s \in Sources |-> IF s \in Stores THEN Missing ELSE Held]
  /\ listeners = [s \in Sources |-> <<>>]
  /\ activeEffect = NoEffect
  /\ stack = <<>>
  /\ shown = [b \in Bindings |-> Blank]
  /\ mounts = 0
  /\ reads = {}
  /\ early = {}
  /\ missed = {}

-----------------------------------------------------------------------------
(* lux.store(name, initialState): no element is told of it. *)
CreateStore(s) ==
  /\ InBody
  /\ value[s] = Missing
  /\ \E v \in Values : value' = [value EXCEPT ![s] = v]
  /\ early' = IF mounts = 0 THEN early \cup {s} ELSE early
  /\ UNCHANGED <<listeners, activeEffect, stack, shown, mounts, reads, missed>>

(* get(): the effect whose run this is becomes a listener, also when the   *)
(* caller is a listener that a set() or a subscribe() in that run called:  *)
(* reads does not say whose function it was either.                        *)
Get(s) ==
  /\ InBody
  /\ value[s] # Missing
  /\ listeners' = IF activeEffect = NoEffect THEN listeners
                  ELSE [listeners EXCEPT ![s] = Add(@, activeEffect)]
  /\ reads' = IF Innermost = NoEffect THEN reads ELSE reads \cup {<<Innermost, s>>}
  /\ UNCHANGED <<value, activeEffect, stack, shown, mounts, early, missed>>

(* set(): a copy of the listener set is to be called, and the value is     *)
(* what get() returns from now on.                                         *)
Publish(s, v) ==
  /\ Len(stack) < MaxDepth - 1
  /\ value' = [value EXCEPT ![s] = v]
  /\ stack' = <<Frame("set", NoEffect, s, listeners[s], NoEffect)>> \o stack

Set(s, v) ==
  /\ InBody
  /\ value[s] # Missing
  /\ s \in Signals <=> v = Held
  /\ Publish(s, v)
  /\ UNCHANGED <<listeners, activeEffect, shown, mounts, reads, early, missed>>

(* effect(fn), or a call of the run it has returned. *)
RunEffect(e) ==
  /\ InBody /\ Len(stack) < MaxDepth
  /\ stack' = Called(e) \o stack
  /\ activeEffect' = e
  /\ UNCHANGED <<value, listeners, shown, mounts, reads, early, missed>>

(* subscribe(listener): a store adds it and calls it, a signal calls it    *)
(* and adds it.  A function is subscribed once at a time.                  *)
Subscribe(s, l) ==
  /\ InBody /\ Len(stack) < MaxDepth
  /\ value[s] # Missing
  /\ ~Contains(listeners[s], l)
  /\ \A i \in DOMAIN stack : ~(stack[i].kind = "first" /\ stack[i].who = l)
  /\ \/ /\ s \in Stores
        /\ listeners' = [listeners EXCEPT ![s] = Append(@, l)]
        /\ stack' = Called(l) \o stack
     \/ /\ s \in Signals
        /\ stack' = <<Frame("first", l, s, <<>>, NoEffect)>> \o stack
        /\ UNCHANGED listeners
  /\ UNCHANGED <<value, activeEffect, shown, mounts, reads, early, missed>>

Unsubscribe(s, l) ==
  /\ InBody
  /\ \E i \in DOMAIN listeners[s] :
       /\ listeners[s][i] = l
       /\ listeners' = [listeners EXCEPT ![s] = RemoveAt(@, i)]
  /\ UNCHANGED <<value, activeEffect, stack, shown, mounts, reads, early, missed>>

-----------------------------------------------------------------------------
(* set() calls the next listener of its queue: a function of a script. *)
Call ==
  /\ stack # <<>> /\ Head(stack).kind = "set" /\ Head(stack).queue # <<>>
  /\ LET f == Head(Head(stack).queue)
         rest == <<[Head(stack) EXCEPT !.queue = Tail(@)]>> \o Tail(stack)
     IN  /\ f \in Effects \cup Plain
         /\ stack' = Called(f) \o rest
         /\ activeEffect' = IF f \in Effects THEN f ELSE activeEffect
  /\ UNCHANGED <<value, listeners, shown, mounts, reads, early, missed>>

(* What the expression in the attribute of an element gives: the state of  *)
(* the store it names, or undefined.                                       *)
Evaluate(b) == value[StoreOf[b]]

(* bindModel leaves an input alone that names no store; any other element  *)
(* shows undefined as nothing.                                             *)
Rendered(b) == IF b \in Inputs /\ Evaluate(b) = Missing THEN shown[b] ELSE Evaluate(b)

(* The next listener is the run of a binding: it reads its store, whose    *)
(* listener it is already, and shows the value.                            *)
Show ==
  /\ stack # <<>> /\ Head(stack).kind = "set" /\ Head(stack).queue # <<>>
  /\ \E b \in Bindings, n \in 1 .. MaxMounts :
       /\ Head(Head(stack).queue) = Run(b, n)
       /\ shown' = [shown EXCEPT ![b] = Rendered(b)]
       /\ missed' = missed \ {b}
  /\ stack' = <<[Head(stack) EXCEPT !.queue = Tail(@)]>> \o Tail(stack)
  /\ UNCHANGED <<value, listeners, activeEffect, mounts, reads, early>>

(* A call returns: run puts activeEffect back, subscribe adds its listener. *)
Return ==
  /\ stack # <<>>
  /\ LET top == Head(stack)
     IN  /\ top.queue = <<>>
         /\ activeEffect' = IF top.kind = "run" THEN top.previous ELSE activeEffect
         /\ listeners' = IF top.kind = "first"
                         THEN [listeners EXCEPT ![top.source] = Add(@, top.who)]
                         ELSE listeners
  /\ stack' = Tail(stack)
  /\ UNCHANGED <<value, shown, mounts, reads, early, missed>>

(* What the finally blocks of n calls that end leave in activeEffect. *)
Mutant_NoFinally(n) == activeEffect

Restored(n) ==
  LET ended == {i \in 1 .. n : stack[i].kind = "run"}
  IN  IF ended = {} THEN activeEffect
      ELSE stack[CHOOSE i \in ended : \A j \in ended : j <= i].previous

(* A function throws: the calls end up to one whose function catches.      *)
Throw ==
  /\ stack # <<>> /\ InBody
  /\ \E n \in {i \in DOMAIN stack : i = Len(stack) \/ stack[i + 1].kind # "set"} :
       /\ activeEffect' = Restored(n)
       /\ missed' = missed \cup
            {b \in Bindings : \E i \in 1 .. n, m \in 1 .. MaxMounts :
                                Contains(stack[i].queue, Run(b, m))}
       /\ stack' = SubSeq(stack, n + 1, Len(stack))
  /\ UNCHANGED <<value, listeners, shown, mounts, reads, early>>

-----------------------------------------------------------------------------
(* mount(): at DOMContentLoaded, at once when lux.js comes after that, and *)
(* when a script calls it.  The effect of a binding reads the store, and   *)
(* is one of its listeners from then on; a store that is not there has no  *)
(* listeners, and nobody comes back for it.                                *)
Mutant_ReadOutside ==
  /\ InBody /\ mounts < MaxMounts
  /\ mounts' = mounts + 1
  /\ shown' = [b \in Bindings |-> Rendered(b)]
  /\ missed' = {}
  /\ UNCHANGED <<value, listeners, activeEffect, stack, reads, early>>

Mount ==
  /\ InBody /\ mounts < MaxMounts
  /\ mounts' = mounts + 1
  /\ listeners' = [s \in Sources |->
       LET bound == SetToSeq({b \in Bindings : StoreOf[b] = s /\ Evaluate(b) # Missing})
       IN  listeners[s] \o [i \in DOMAIN bound |-> Run(bound[i], mounts + 1)]]
  /\ shown' = [b \in Bindings |-> Rendered(b)]
  /\ missed' = {}
  /\ UNCHANGED <<value, activeEffect, stack, reads, early>>

(* A mount has bound the element to its store. *)
Live(b) == \E n \in 1 .. MaxMounts : Contains(listeners[StoreOf[b]], Run(b, n))

(* The user types into an element with data-lux-model: a text, whose value *)
(* goes into the store as it is.                                           *)
Type(b, v) ==
  /\ stack = <<>>
  /\ shown' = [shown EXCEPT ![b] = v]
  /\ \/ Live(b) /\ Publish(StoreOf[b], v)
     \/ ~Live(b) /\ UNCHANGED <<value, stack>>
  /\ UNCHANGED <<listeners, activeEffect, mounts, reads, early, missed>>

Next ==
  \/ \E s \in Stores : CreateStore(s)
  \/ \E s \in Sources : \/ Get(s)
                        \/ \E v \in Values \cup {Held} : Set(s, v)
                        \/ \E l \in Plain : Subscribe(s, l) \/ Unsubscribe(s, l)
  \/ \E e \in Effects : RunEffect(e)
  \/ Call \/ Show \/ Return \/ Throw
  \/ Mount
  \/ \E b \in Inputs, v \in Values : Type(b, v)

Spec == Init /\ [][Next]_vars

-----------------------------------------------------------------------------
Functions == Effects \cup Plain \cup Runs

Frames ==
  [kind : {"set", "run", "call", "first"}, who : Effects \cup Plain \cup {NoEffect},
   source : Sources \cup {NoSource}, queue : Seq(Functions), previous : Effects \cup {NoEffect}]

TypeOK ==
  /\ value \in [Sources -> Values \cup {Missing, Held}]
  /\ \A s \in Sources : listeners[s] \in Seq(Functions) /\ IsInjective(listeners[s])
  /\ activeEffect \in Effects \cup {NoEffect}
  /\ stack \in Seq(Frames) /\ Len(stack) <= MaxDepth
  /\ shown \in [Bindings -> Values \cup {Blank, Missing}]
  /\ mounts \in 0 .. MaxMounts
  /\ reads \subseteq Effects \X Sources
  /\ early \subseteq Stores
  /\ missed \subseteq Bindings

(* An effect is told of what was read while a run of its own was the       *)
(* innermost one, by its function or by a listener called from it, and of  *)
(* nothing else: however runs nest, return and throw, what is read in the  *)
(* run of another effect, or outside of runs, does not add it.  That its   *)
(* own function has read it does not follow: get() takes a listener that   *)
(* a set() or subscribe() in the run calls for the effect itself.          *)
SubscribedInItsRuns ==
  \A s \in Sources, e \in Effects : Contains(listeners[s], e) <=> <<e, s>> \in reads

(* When no call is running, an element whose store was there before mount  *)
(* (FRAMEWORK.md:96: lux.js and the script that makes the stores are       *)
(* deferred, in this order) shows the state of the store, although         *)
(* listeners set stores while they are told of others, and unless an       *)
(* exception ended the set() that had still to tell it.                    *)
QuietMeansShown ==
  stack = <<>> /\ mounts > 0 =>
    \A b \in Bindings :
      StoreOf[b] \in early => shown[b] = value[StoreOf[b]] \/ b \in missed
=============================================================================
