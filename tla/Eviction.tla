------------------------------ MODULE Eviction ------------------------------
(***************************************************************************)
(* The eviction policies a sub-shard can own: "noop", "lru" and "lfu".     *)
(* The policies have no lock of their own, the sub-shard's lock protects   *)
(* every call, so each method is an operator from policy to policy.        *)
(*                                                                         *)
(* A policy is one record.  The LRU policy uses order, the linked list     *)
(* from its front (most recently used) to its back (next to be evicted).   *)
(* The LFU policy uses items (the frequency of each key), lists (for each  *)
(* frequency that has any, the keys from the oldest to the newest) and     *)
(* minFreq.  The noop policy uses nothing.                                 *)
(***************************************************************************)
EXTENDS Integers, Sequences, FiniteSets, FiniteSetsExt

CONSTANTS
    Key,    \* the cache keys
    NoKey   \* the answer of Evict when there is nothing to evict

PolicyName == {"noop", "lru", "lfu"}

Empty == [x \in {} |-> x]

NewPolicy(name) ==
    [name |-> name, order |-> <<>>, items |-> Empty, lists |-> Empty, minFreq |-> 0]

Elements(s) == {s[n] : n \in DOMAIN s}

Without(s, key) == SelectSeq(s, LAMBDA k : k # key)

Drop(f, x) == Restrict(f, DOMAIN f \ {x})

-----------------------------------------------------------------------------
(* Least recently used. *)

LRUOnAccess(p, key) ==
    IF key \in Elements(p.order)
    THEN [p EXCEPT !.order = <<key>> \o Without(@, key)]
    ELSE p

LRUOnAdd(p, key) ==
    IF key \in Elements(p.order)
    THEN LRUOnAccess(p, key)
    ELSE [p EXCEPT !.order = <<key>> \o @]

LRUOnRemove(p, key) == [p EXCEPT !.order = Without(@, key)]

LRUEvict(p) ==
    IF p.order = <<>>
    THEN [key |-> NoKey, policy |-> p]
    ELSE LET key == p.order[Len(p.order)]
         IN  [key |-> key, policy |-> LRUOnRemove(p, key)]

-----------------------------------------------------------------------------
(* Least frequently used. *)

scanMinFreq(lists) == IF DOMAIN lists = {} THEN 0 ELSE Min(DOMAIN lists)

\* An emptied bucket is left in the map and minFreq is not looked for again.
Mut_removeFromBucket(p, key, freq) ==
    [p EXCEPT !.lists[freq] = Without(@, key)]

removeFromBucket(p, key, freq) ==
    LET rest  == Without(p.lists[freq], key)
        lists == Drop(p.lists, freq)
    IN  IF rest # <<>>
        THEN [p EXCEPT !.lists[freq] = rest]
        ELSE [p EXCEPT !.lists = lists,
                       !.minFreq = IF @ = freq THEN scanMinFreq(lists) ELSE @]

PushBack(lists, freq, key) ==
    [f \in DOMAIN lists \cup {freq} |->
        IF f # freq THEN lists[f]
        ELSE IF f \in DOMAIN lists THEN Append(lists[f], key) ELSE <<key>>]

\* The bucket is left first and minFreq looked for while key is in none.
bump(p, key) ==
    IF key \notin DOMAIN p.items
    THEN p
    ELSE LET freq == p.items[key]
             q    == removeFromBucket(p, key, freq)
         IN  [q EXCEPT !.lists = PushBack(@, freq + 1, key),
                       !.items[key] = freq + 1]

\* A new key does not lower minFreq.
Mut_LFUOnAdd(p, key) ==
    IF key \in DOMAIN p.items
    THEN bump(p, key)
    ELSE [p EXCEPT !.items = [k \in DOMAIN @ \cup {key} |-> IF k = key THEN 1 ELSE @[k]],
                   !.lists = PushBack(@, 1, key),
                   !.minFreq = IF @ = 0 THEN 1 ELSE @]

LFUOnAdd(p, key) ==
    IF key \in DOMAIN p.items
    THEN bump(p, key)
    ELSE [p EXCEPT !.items = [k \in DOMAIN @ \cup {key} |-> IF k = key THEN 1 ELSE @[k]],
                   !.lists = PushBack(@, 1, key),
                   !.minFreq = 1]

LFUOnRemove(p, key) ==
    IF key \notin DOMAIN p.items
    THEN p
    ELSE [removeFromBucket(p, key, p.items[key]) EXCEPT !.items = Drop(@, key)]

LFUEvict(p) ==
    LET freq == IF p.minFreq \in DOMAIN p.lists THEN p.minFreq ELSE scanMinFreq(p.lists)
        key  == p.lists[freq][1]
    IN  CASE p.items = Empty -> [key |-> NoKey, policy |-> p]
          [] p.items # Empty /\ freq = 0 ->
                 [key |-> NoKey, policy |-> [p EXCEPT !.minFreq = 0]]
          [] OTHER ->
                 [key |-> key, policy |-> LFUOnRemove([p EXCEPT !.minFreq = freq], key)]

-----------------------------------------------------------------------------
(* The EvictionPolicy interface. *)

OnAccess(p, key) ==
    CASE p.name = "noop" -> p
      [] p.name = "lru"  -> LRUOnAccess(p, key)
      [] p.name = "lfu"  -> bump(p, key)

OnAdd(p, key) ==
    CASE p.name = "noop" -> p
      [] p.name = "lru"  -> LRUOnAdd(p, key)
      [] p.name = "lfu"  -> LFUOnAdd(p, key)

OnRemove(p, key) ==
    CASE p.name = "noop" -> p
      [] p.name = "lru"  -> LRUOnRemove(p, key)
      [] p.name = "lfu"  -> LFUOnRemove(p, key)

Evict(p) ==
    CASE p.name = "noop" -> [key |-> NoKey, policy |-> p]
      [] p.name = "lru"  -> LRUEvict(p)
      [] p.name = "lfu"  -> LFUEvict(p)

-----------------------------------------------------------------------------
(* What a policy's structure promises to its shard. *)

Tracked(p) == IF p.name = "lru" THEN Elements(p.order) ELSE DOMAIN p.items

NoDuplicates(s) == Cardinality(Elements(s)) = Len(s)

\* Every key is in the one bucket of its frequency, and no bucket is empty.
Bucketed(p) ==
    /\ \A f \in DOMAIN p.lists : p.lists[f] # <<>> /\ NoDuplicates(p.lists[f])
    /\ \A k \in DOMAIN p.items : p.items[k] \in DOMAIN p.lists
    /\ \A f \in DOMAIN p.lists :
           Elements(p.lists[f]) = {k \in DOMAIN p.items : p.items[k] = f}

WellFormed(p) ==
    CASE p.name = "noop" -> p = NewPolicy("noop")
      [] p.name = "lru"  -> NoDuplicates(p.order)
      [] p.name = "lfu"  -> Bucketed(p)
=============================================================================
