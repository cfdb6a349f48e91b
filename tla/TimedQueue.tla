----------------------------- MODULE TimedQueue -----------------------------
(***************************************************************************)
(* The queue of databases that wait for a checkpoint                       *)
(* (objc/WCDB/util/timed_queue.hpp, used by the checkpoint config in       *)
(* core/database_config.cpp).  The commit hook of any connection puts the  *)
(* path of its database in with reQueue; one detached thread takes paths   *)
(* out with waitUntilExpired when they have been left alone for the delay, *)
(* and checkpoints them.                                                   *)
(*                                                                         *)
(* m_mutex makes each reQueue, and each look at the list, one step.  The   *)
(* thread reads the clock before it takes m_mutex, and sleeps without it.  *)
(***************************************************************************)
EXTENDS Integers, Sequences, SequencesExt

CONSTANTS
    Keys,       \* paths of databases
    Delay,      \* m_delay
    MaxTime,    \* where the clock stops (a bound)
    End

ASSUME QueueAssumption ==
    /\ Delay \in Nat \ {0}
    /\ MaxTime \in Nat
    /\ End \notin [key : Keys, expires : Nat]

VARIABLES
    m_list,     \* the newest element first
    m_map,      \* m_map[key]: the iterator to the element of key, or End
    clock,
    last,       \* last[key]: when key was last put in
    pc,         \* where the checkpoint thread is
    now,        \* the time it read
    element,    \* the element it looked at
    left        \* what is left of its sleep

queueVars == <<m_list, m_map, clock, last, pc, now, element, left>>
threadVars == <<pc, now, element, left>>

Element(key, expires) == [key |-> key, expires |-> expires]
NoElement == Element(End, 0)

\* erase of the element e that the iterator points to; End is m_list.end().
Erased(list, e) ==
    IF e = End THEN list
    ELSE RemoveAt(list, CHOOSE i \in DOMAIN list : list[i] = e)

QueueInit ==
    /\ m_list = <<>>
    /\ m_map = [key \in Keys |-> End]
    /\ clock = 0
    /\ last = [key \in Keys |-> 0]
    /\ pc = "enter"
    /\ now = 0
    /\ element = NoElement
    /\ left = 0

-----------------------------------------------------------------------------
(* reQueue.  m_cond is notified if the list was empty.                     *)

Signal == pc' = IF m_list = <<>> /\ pc = "wait" THEN "enter" ELSE pc

Put(key, list) ==
    LET e == Element(key, clock + Delay)
    IN  /\ m_list' = <<e>> \o list
        /\ m_map' = [m_map EXCEPT ![key] = e]

\* Slip: the element that is there already stays.
ReQueueTwice(key) ==
    /\ clock + Delay < MaxTime
    /\ Put(key, m_list)
    /\ Signal
    /\ last' = [last EXCEPT ![key] = clock]
    /\ UNCHANGED <<clock, now, element, left>>

\* Slip: the new time is given to the element where it is.
ReQueueInPlace(key) ==
    /\ clock + Delay < MaxTime
    /\ IF m_map[key] = End THEN Put(key, m_list)
       ELSE LET e == Element(key, clock + Delay) IN
            /\ m_list' = [i \in DOMAIN m_list |->
                             IF m_list[i] = m_map[key] THEN e ELSE m_list[i]]
            /\ m_map' = [m_map EXCEPT ![key] = e]
    /\ Signal
    /\ last' = [last EXCEPT ![key] = clock]
    /\ UNCHANGED <<clock, now, element, left>>

\* Slip: a key that is in the queue keeps its time.
ReQueueKeepsTime(key) ==
    /\ clock + Delay < MaxTime
    /\ IF m_map[key] = End THEN Put(key, m_list) ELSE UNCHANGED <<m_list, m_map>>
    /\ Signal
    /\ last' = [last EXCEPT ![key] = clock]
    /\ UNCHANGED <<clock, now, element, left>>

\* Slip: empty() asked after push_front.
ReQueueSilent(key) ==
    /\ clock + Delay < MaxTime
    /\ Put(key, Erased(m_list, m_map[key]))
    /\ last' = [last EXCEPT ![key] = clock]
    /\ UNCHANGED <<clock, threadVars>>

ReQueue(key) ==
    /\ clock + Delay < MaxTime
    /\ Put(key, Erased(m_list, m_map[key]))
    /\ Signal
    /\ last' = [last EXCEPT ![key] = clock]
    /\ UNCHANGED <<clock, now, element, left>>

-----------------------------------------------------------------------------
(* waitUntilExpired.                                                       *)

\* The first loop; it ends with something in the list.
Enter ==
    /\ pc = "enter"
    /\ pc' = IF m_list = <<>> THEN "wait" ELSE "readClock"
    /\ UNCHANGED <<m_list, m_map, clock, last, now, element, left>>

\* wait may return without a notification.
SpuriousWake ==
    /\ pc = "wait"
    /\ pc' = "enter"
    /\ UNCHANGED <<m_list, m_map, clock, last, now, element, left>>

ReadClock ==
    /\ pc = "readClock"
    /\ now' = clock
    /\ pc' = "look"
    /\ UNCHANGED <<m_list, m_map, clock, last, element, left>>

\* back() of the list, which is the oldest; out of it and of the map if its
\* time has passed.
Look ==
    /\ pc = "look"
    /\ element' = Last(m_list)
    /\ \/ /\ now > element'.expires
          /\ m_list' = Front(m_list)
          /\ m_map' = [m_map EXCEPT ![element'.key] = End]
          /\ pc' = "onExpired"
       \/ /\ now <= element'.expires
          /\ pc' = "sleep"
          /\ UNCHANGED <<m_list, m_map>>
    /\ UNCHANGED <<clock, last, now, left>>

\* sleep_for(element.second - now), from whenever that is called.
Sleep ==
    /\ pc = "sleep"
    /\ left' = element.expires - now
    /\ pc' = "asleep"
    /\ UNCHANGED <<m_list, m_map, clock, last, now, element>>

WakeUp ==
    /\ pc = "asleep"
    /\ left = 0
    /\ pc' = "readClock"
    /\ UNCHANGED <<m_list, m_map, clock, last, now, element, left>>

\* The checkpoint of the database; then waitUntilExpired is called again.
OnExpired ==
    /\ pc = "onExpired"
    /\ pc' = "enter"
    /\ element' = NoElement
    /\ UNCHANGED <<m_list, m_map, clock, last, now, left>>

CheckpointThread ==
    Enter \/ ReadClock \/ Look \/ Sleep \/ WakeUp \/ OnExpired

\* Time goes on for a sleeper after the clock has stopped.
Tick ==
    /\ clock < MaxTime \/ left > 0
    /\ clock' = IF clock < MaxTime THEN clock + 1 ELSE clock
    /\ left' = IF left > 0 THEN left - 1 ELSE left
    /\ UNCHANGED <<m_list, m_map, last, pc, now, element>>

QueueNext ==
    \/ \E key \in Keys : ReQueue(key)
    \/ CheckpointThread
    \/ SpuriousWake
    \/ Tick

\* The thread runs, and time goes by.
QueueSpec ==
    QueueInit /\ [][QueueNext]_queueVars /\ WF_queueVars(CheckpointThread) /\ WF_queueVars(Tick)

-----------------------------------------------------------------------------

(* The shape of the state.                                                 *)
QueueTypeOK ==
    /\ \A i \in DOMAIN m_list : m_list[i].key \in Keys
    /\ m_map \in [Keys -> {Element(key, at) : key \in Keys, at \in 0..MaxTime} \cup {End}]
    /\ clock \in 0..MaxTime
    /\ last \in [Keys -> 0..MaxTime]
    /\ pc \in {"enter", "wait", "readClock", "look", "sleep", "asleep", "onExpired"}
    /\ now \in 0..clock
    /\ left \in 0..MaxTime

(* In a well-formed state the map holds exactly the elements of the list,  *)
(* so the iterator reQueue erases is never one waitUntilExpired has popped.*)
MapMatchesList ==
    /\ QueueTypeOK
    /\ \A i, j \in DOMAIN m_list : m_list[i].key = m_list[j].key => i = j
    /\ \A key \in Keys : m_map[key] =
           IF \E i \in DOMAIN m_list : m_list[i].key = key
           THEN CHOOSE e \in Range(m_list) : e.key = key
           ELSE End

(* The element at the back, the only one waitUntilExpired looks at, is     *)
(* there whenever it looks, though the mutex was free since it saw that    *)
(* the list is not empty, and it is the first to expire.                   *)
OldestLast ==
    /\ pc \in {"readClock", "look", "sleep", "asleep"} => m_list # <<>>
    /\ \A i, j \in DOMAIN m_list :
        i < j => m_list[i].expires >= m_list[j].expires

(* A database is checkpointed only when it has had no large commit for     *)
(* longer than the delay.                                                  *)
LeftAlone == [][pc = "look" /\ pc' = "onExpired"
                    => clock > last[element'.key] + Delay]_queueVars

(* A database that is in the queue is checkpointed, if its large commits   *)
(* come to an end.                                                         *)
Checkpointed == \A key \in Keys :
    m_map[key] # End ~> pc = "onExpired" /\ element.key = key

=============================================================================
