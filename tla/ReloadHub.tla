------------------------------ MODULE ReloadHub ------------------------------
(***************************************************************************)
(* src/luxweb_core/dev_reload.cpp and App::enable_dev_reload: the threads  *)
(* of the server that answer /lux/reload sleep on a condition variable     *)
(* until the version counter passes the one the page has seen, and         *)
(* notify() raises the counter and wakes them without taking the mutex.    *)
(* A thread that sleeps serves nothing else.                               *)
(***************************************************************************)
EXTENDS Integers

CONSTANTS
  Threads,     \* the threads of App::run
  Seen,        \* the values of ?last= in a request; 0 when there is none
  MaxVersion,  \* bound on the calls of notify()
  Nobody       \* the mutex is free

ASSUME ReloadAssumption ==
  Nobody \notin Threads /\ Seen \subseteq Nat /\ MaxVersion \in Nat

VARIABLES
  version,   \* ReloadHub::version_
  mutex,     \* ReloadHub::mutex_: who holds it
  pc,        \* where thread t stands
  last,      \* last_seen of the wait_event that t runs
  data,      \* the version in the event it answers with
  notifier   \* the thread that calls notify(): which statement is next

hubVars == <<version, mutex, pc, last, data, notifier>>

HubInit ==
  /\ version = 0
  /\ mutex = Nobody
  /\ pc = [t \in Threads |-> "idle"]
  /\ last = [t \in Threads |-> 0]
  /\ data = [t \in Threads |-> 0]
  /\ notifier = "fetch_add"

HubGoto(t, label) == pc' = [pc EXCEPT ![t] = label]

-----------------------------------------------------------------------------
(* notify(). *)
FetchAdd ==
  /\ notifier = "fetch_add" /\ version < MaxVersion
  /\ version' = version + 1
  /\ notifier' = "notify_all"
  /\ UNCHANGED <<mutex, pc, last, data>>

(* The threads asleep go back for the mutex; one that is about to sleep    *)
(* hears nothing.                                                          *)
Mutant_NotifyOne ==
  /\ notifier = "notify_all"
  /\ \/ \E t \in Threads : pc[t] = "asleep" /\ HubGoto(t, "lock")
     \/ (\A t \in Threads : pc[t] # "asleep") /\ UNCHANGED pc
  /\ notifier' = "fetch_add"
  /\ UNCHANGED <<version, mutex, last, data>>

NotifyAll ==
  /\ notifier = "notify_all"
  /\ pc' = [t \in Threads |-> IF pc[t] = "asleep" THEN "lock" ELSE pc[t]]
  /\ notifier' = "fetch_add"
  /\ UNCHANGED <<version, mutex, last, data>>

-----------------------------------------------------------------------------
(* wait_event, on the thread that took the request; cv_.wait is the loop   *)
(* "test, give the mutex back and sleep, take it again".  A request the    *)
(* route answers by itself, a 404 without a hub or a 500 when last is no   *)
(* number, comes to no step here.                                          *)
Listen(t, seen) ==
  /\ pc[t] = "idle"
  /\ last' = [last EXCEPT ![t] = seen]
  /\ HubGoto(t, "lock")
  /\ UNCHANGED <<version, mutex, data, notifier>>

Lock(t) ==
  /\ pc[t] = "lock" /\ mutex = Nobody
  /\ mutex' = t
  /\ HubGoto(t, "test")
  /\ UNCHANGED <<version, last, data, notifier>>

Mutant_TestNotBelow(t) ==
  /\ pc[t] = "test"
  /\ HubGoto(t, IF version >= last[t] THEN "event" ELSE "wait")
  /\ UNCHANGED <<version, mutex, last, data, notifier>>

Test(t) ==
  /\ pc[t] = "test"
  /\ HubGoto(t, IF version > last[t] THEN "event" ELSE "wait")
  /\ UNCHANGED <<version, mutex, last, data, notifier>>

Mutant_SleepHolding(t) ==
  /\ pc[t] = "wait"
  /\ HubGoto(t, "asleep")
  /\ UNCHANGED <<version, mutex, last, data, notifier>>

Sleep(t) ==
  /\ pc[t] = "wait"
  /\ mutex' = Nobody
  /\ HubGoto(t, "asleep")
  /\ UNCHANGED <<version, last, data, notifier>>

(* A condition variable may wake a thread that nobody notified. *)
SpuriousWakeup(t) ==
  /\ pc[t] = "asleep"
  /\ HubGoto(t, "lock")
  /\ UNCHANGED <<version, mutex, last, data, notifier>>

(* The version is read a second time for the event. *)
Mutant_NextVersion(t) ==
  /\ pc[t] = "event"
  /\ data' = [data EXCEPT ![t] = version + 1]
  /\ HubGoto(t, "return")
  /\ UNCHANGED <<version, mutex, last, notifier>>

ReadVersion(t) ==
  /\ pc[t] = "event"
  /\ data' = [data EXCEPT ![t] = version]
  /\ HubGoto(t, "return")
  /\ UNCHANGED <<version, mutex, last, notifier>>

(* The lock goes out of scope and the response leaves. *)
Return(t) ==
  /\ pc[t] = "return"
  /\ mutex' = Nobody
  /\ HubGoto(t, "idle")
  /\ UNCHANGED <<version, last, data, notifier>>

Serve(t) ==
  Lock(t) \/ Test(t) \/ Sleep(t) \/ ReadVersion(t) \/ Return(t)

HubNext ==
  \/ FetchAdd
  \/ NotifyAll
  \/ \E t \in Threads :
       \/ \E seen \in Seen : Listen(t, seen)
       \/ Serve(t)
       \/ SpuriousWakeup(t)

HubSpec == HubInit /\ [][HubNext]_hubVars

(* Threads run, and one that keeps asking for the mutex gets it; nobody    *)
(* has to call notify() or open a page, or wake a thread for no reason.    *)
HubFairness ==
  /\ WF_hubVars(NotifyAll)
  /\ \A t \in Threads : SF_hubVars(Lock(t)) /\ WF_hubVars(Serve(t))

HubFairSpec == HubSpec /\ HubFairness

-----------------------------------------------------------------------------
Holding == {"test", "wait", "event", "return"}

HubTypeOK ==
  /\ version \in 0 .. MaxVersion
  /\ mutex \in Threads \cup {Nobody}
  /\ pc \in [Threads -> {"idle", "lock", "asleep"} \cup Holding]
  /\ last \in [Threads -> Seen \cup {0}]
  /\ data \in [Threads -> 0 .. MaxVersion]
  /\ notifier \in {"fetch_add", "notify_all"}

(* A page is told to reload only for a version it has not seen: the thread *)
(* that answers read the counter twice, with notify() running in between,  *)
(* and may have been woken for no reason or several times over.            *)
EventIsNews == \A t \in Threads : pc[t] = "return" => data[t] > last[t]

(* A thread that is asleep when notify_all is called answers, if the       *)
(* counter has passed what its page has seen.  (A thread that has tested   *)
(* the counter and is not yet asleep has no such promise: the next         *)
(* notification is the first it can hear.)                                 *)
AsleepIsWoken ==
  \A t \in Threads :
    (notifier = "notify_all" /\ pc[t] = "asleep" /\ version > last[t])
      ~> (pc[t] = "idle")

(* With the mutex in the way, no request is left between two steps: each   *)
(* is either asleep, for good perhaps, or answered.                        *)
AsleepOrAnswered ==
  \A t \in Threads : (pc[t] = "lock") ~> (pc[t] \in {"asleep", "idle"})
=============================================================================
