----------------------------- MODULE SecurityStore -----------------------------
(***************************************************************************)
(* app/lib/securityStore.ts: keys with a lifetime and counters of a        *)
(* window, kept in a store that the server processes share, and in the     *)
(* memory of one process when a command to that store fails.  A command    *)
(* can fail after the store has carried it out.                            *)
(*                                                                         *)
(* What has lapsed is dropped as time passes: the shared store drops it by *)
(* itself, and each use of a memory first drops what has lapsed.           *)
(***************************************************************************)
EXTENDS Integers

CONSTANTS
    Processes,
    ReplayKeys,      \* keys of setIfAbsentWithTtl
    CounterKeys,     \* keys of incrementWithWindow
    Window,          \* length of a counter's window
    MaxTime          \* bound on the clock

VARIABLES
    now,
    setUntil,        \* shared: when each replay key lapses; 0: absent
    counter,         \* shared: count and lapse of each counter; lapse 0: never
    memorySetUntil,  \* the same per process
    memoryCounter

storeVars == <<now, setUntil, counter, memorySetUntil, memoryCounter>>

NoCounter == [count |-> 0, until |-> 0]

EmptyMemory ==
    [set |-> [k \in ReplayKeys |-> 0], counters |-> [k \in CounterKeys |-> NoCounter]]

StoreInit ==
    /\ now = 1
    /\ setUntil = EmptyMemory.set
    /\ counter = EmptyMemory.counters
    /\ memorySetUntil = [p \in Processes |-> EmptyMemory.set]
    /\ memoryCounter = [p \in Processes |-> EmptyMemory.counters]

\* SET key NX PX ttl, when the store carries it out.
SharedSet(key, ttl) ==
    setUntil' = [setUntil EXCEPT ![key] = IF @ = 0 THEN now + ttl ELSE @]

\* The same in the memory of a process.
MemorySet(p, key, ttl) ==
    memorySetUntil' = [memorySetUntil EXCEPT ![p][key] = IF @ = 0 THEN now + ttl ELSE @]

\* INCR key: the count it answers, and what it leaves.
SharedCount(key) == counter[key].count + 1

SharedIncrement(key) ==
    counter' = [counter EXCEPT ![key].count = @ + 1]

\* PEXPIRE key window.
SharedExpire(key) ==
    counter' = [counter EXCEPT ![key].until = now + Window]

\* Increment and window at once, in the memory of a process.
MemoryCount(p, key) == memoryCounter[p][key].count + 1

MemoryIncrement(p, key) ==
    memoryCounter' = [memoryCounter EXCEPT ![p][key] =
        [count |-> @.count + 1, until |-> IF @.count = 0 THEN now + Window ELSE @.until]]

Unlapsed(time, until) == IF until <= time THEN 0 ELSE until

UnlapsedCounter(time, entry) ==
    IF entry.until # 0 /\ entry.until <= time THEN NoCounter ELSE entry

StoreTick ==
    /\ now < MaxTime
    /\ now' = now + 1
    /\ setUntil' = [k \in ReplayKeys |-> Unlapsed(now', setUntil[k])]
    /\ counter' = [k \in CounterKeys |-> UnlapsedCounter(now', counter[k])]
    /\ memorySetUntil' =
          [p \in Processes |-> [k \in ReplayKeys |-> Unlapsed(now', memorySetUntil[p][k])]]
    /\ memoryCounter' =
          [p \in Processes |->
              [k \in CounterKeys |-> UnlapsedCounter(now', memoryCounter[p][k])]]

\* A process loses what it kept in memory.
ForgetMemory(p) ==
    /\ memorySetUntil' = [memorySetUntil EXCEPT ![p] = EmptyMemory.set]
    /\ memoryCounter' = [memoryCounter EXCEPT ![p] = EmptyMemory.counters]
=============================================================================
