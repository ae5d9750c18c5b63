------------------------------ MODULE LRUCache ------------------------------
(***************************************************************************)
(* lrucache.LRU (src/lrucache/cacheImpl.go, lru.go): a container/list of   *)
(* entries, most recently used at the front, and a map from keys to the    *)
(* list's elements.  The cache is used by one goroutine; every method is   *)
(* one step.  `cache` is the map's key set (the element a key maps to is   *)
(* the entry carrying that key); `usages` is the list, front first.        *)
(*                                                                         *)
(* Beside the code's state the module keeps a reference: the time each key *)
(* was last used (set, or found by Get) since the last Clear, and the      *)
(* value last set.  An LRU cache of capacity C holds exactly the keys      *)
(* fewer than C other keys were used after.                                *)
(***************************************************************************)
EXTENDS Naturals, Sequences, FiniteSets, TLC

SX == INSTANCE SequencesExt

CONSTANTS
    Caps,      \* the capacities New(cap) is called with
    Keys,      \* keys the client uses
    Values,    \* values the client sets
    MaxOps     \* calls the client makes

ASSUME Caps \subseteq Nat /\ MaxOps \in Nat

Entry == [key : Keys, value : Values]

VARIABLES
    capacity,  \* c.capacity
    cache,     \* c.cache: the keys in the map
    usages,    \* c.usages: the list of entries, front first
    clock,     \* calls made so far
    touch,     \* reference: touch[k], the call that last used k (0: none)
    lastVal,   \* reference: lastVal[k], the value last set for k
    ranged     \* the keys the last Range passed to f, in order

vars == <<capacity, cache, usages, clock, touch, lastVal, ranged>>

TypeOK ==
    /\ capacity \in Caps
    /\ cache \subseteq Keys
    /\ usages \in Seq(Entry) /\ Len(usages) <= capacity
    /\ clock \in 0..MaxOps
    /\ touch \in [Keys -> 0..MaxOps] /\ lastVal \in [Keys -> Values]
    /\ ranged \in Seq(Keys)

\* New(cap)
Init ==
    /\ capacity \in Caps
    /\ cache = {} /\ usages = <<>>
    /\ clock = 0
    /\ touch = [k \in Keys |-> 0]
    /\ lastVal = [k \in Keys |-> CHOOSE v \in Values : TRUE]
    /\ ranged = <<>>

\* The position of k's element in the list.
Pos(k) == CHOOSE i \in 1..Len(usages) : usages[i].key = k

\* c.usages.MoveToFront(e), for the element at position i.
MoveToFront(s, i) == <<s[i]>> \o SX!RemoveAt(s, i)

\* One call of the client: the clock advances; `used` is the key it uses.
Call == clock < MaxOps /\ clock' = clock + 1
Use(k) == touch' = [touch EXCEPT ![k] = clock + 1]

\* Get: if the key is in the map, move its element to the front and return
\* its value; otherwise return -1, false.
Get(k) ==
    /\ Call
    /\ IF k \in cache
         THEN /\ usages' = MoveToFront(usages, Pos(k))
              /\ Use(k)
         ELSE UNCHANGED <<usages, touch>>
    /\ UNCHANGED <<capacity, cache, lastVal, ranged>>

\* Mutant: updateUsage evicts only when the list is longer than capacity.
IsFullLate == Len(usages) > capacity

\* updateUsage(): the list is at capacity, so its back element goes.
IsFull == Len(usages) >= capacity

\* c.updateUsage() then c.updateCache(k, v): drop the back entry and its
\* map key when full, then push the new entry at the front and map k.
Insert(k, v) ==
    LET kept == IF IsFull THEN SX!Front(usages) ELSE usages
    IN /\ usages' = <<[key |-> k, value |-> v]>> \o kept
       /\ cache' = (IF IsFull THEN cache \ {SX!Last(usages).key} ELSE cache)
                   \cup {k}

\* Mutant: a present key gets its new value but stays where it is.
UpdateNoMove(k, v) == [usages EXCEPT ![Pos(k)].value = v]

\* setValue(val, value) then updateUsage(c, val).
Update(k, v) == MoveToFront([usages EXCEPT ![Pos(k)].value = v], Pos(k))

\* Set: nothing if capacity is 0; a present key is updated and moved to
\* the front; a new key is inserted.
Set(k, v) ==
    /\ Call
    /\ lastVal' = [lastVal EXCEPT ![k] = v] /\ Use(k)
    /\ \/ capacity = 0 /\ UNCHANGED <<cache, usages>>
       \/ capacity > 0 /\ k \in cache /\ usages' = Update(k, v)
          /\ UNCHANGED cache
       \/ capacity > 0 /\ k \notin cache /\ Insert(k, v)
    /\ UNCHANGED <<capacity, ranged>>

\* Mutant: Range walks the list from the front.
VisitFromFront(n) == [i \in 1..SX!Min({n, Len(usages)}) |-> usages[i].key]

\* The keys Range passes to f, from the back through Prev, when f returns
\* false at its n-th call.
Visit(n) == [i \in 1..SX!Min({n, Len(usages)}) |-> usages[Len(usages) + 1 - i].key]

\* Range(f), with an f that stops the walk at its n-th call.
Range(n) ==
    /\ Call
    /\ ranged' = Visit(n)
    /\ UNCHANGED <<capacity, cache, usages, touch, lastVal>>

\* Clear: a fresh map and an emptied list.
Clear ==
    /\ Call
    /\ cache' = {} /\ usages' = <<>>
    /\ touch' = [k \in Keys |-> 0]
    /\ UNCHANGED <<capacity, lastVal, ranged>>

\* The client has made all its calls.
Done == clock = MaxOps /\ UNCHANGED vars

Next ==
    \/ \E k \in Keys : Get(k) \/ \E v \in Values : Set(k, v)
    \/ \E n \in 1..(capacity + 1) : Range(n)
    \/ Clear
    \/ Done

Spec == Init /\ [][Next]_vars

-----------------------------------------------------------------------------
\* Reference: k is cached iff it was used since Clear and fewer than
\* capacity other keys were used after it.
Cached(k) ==
    touch[k] > 0 /\ Cardinality({j \in Keys : touch[j] > touch[k]}) < capacity

\* The keys from least to most recently used, as Range must visit them.
RefOrder == SortSeq(SX!SetToSeq({k \in Keys : Cached(k)}),
                    LAMBDA a, b : touch[a] < touch[b])

\* The cache is an LRU cache: after any sequence of Get, Set and Clear
\* calls the map holds exactly the keys fewer than capacity other keys were
\* used after, the list holds one entry per cached key from most to least
\* recently used, and each entry carries the value last set for its key.
ImplementsLRU ==
    /\ cache = {k \in Keys : Cached(k)}
    /\ [i \in 1..Len(usages) |-> usages[i].key] = SX!Reverse(RefOrder)
    /\ \A i \in 1..Len(usages) : usages[i].value = lastVal[usages[i].key]

\* Range passes f the cached keys from the least recently used on, in
\* order, until f returns false.
RangeVisitsLeastRecentFirst ==
    [][ranged' # ranged => SX!IsPrefix(ranged', RefOrder)]_vars
====
