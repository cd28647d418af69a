------------------------------- MODULE Shard -------------------------------
(***************************************************************************)
(* The string entries of one shard: its sub-shards, each with a lock, an   *)
(* entry map and an eviction policy, and the goroutines that use them.     *)
(*                                                                         *)
(* A method that holds one sub-shard's lock from beginning to end is one   *)
(* action.  A method that takes locks one after the other (the lazy        *)
(* deletion of get, and cleanup, swapPolicy and ExtractN, which walk over  *)
(* the sub-shards) is a task of its goroutine with one action per lock.    *)
(* The values stored are left out: an entry is its expiry time.            *)
(***************************************************************************)
EXTENDS Eviction

CONSTANTS
    Goroutine,
    subShardsPerShard,  \* the slots of the subs array (8 in the code)
    MaxSize,            \* the shard's capacity, 0 when unlimited
    HashOf,             \* the FNV hash of each key
    ExtractLimit,       \* the n of ExtractN
    MaxTime,            \* bound: the clock stops here
    MaxFreq,            \* bound: LFU frequencies, and so repeated Sets
    Task                \* which of the walking methods goroutines may call

ASSUME ShardAssumption ==
    /\ subShardsPerShard \in Nat \ {0}
    /\ MaxSize \in Nat
    /\ HashOf \in [Key -> Nat]
    /\ NoKey \notin Key
    /\ ExtractLimit \in Nat \ {0}
    /\ MaxTime \in Nat
    /\ MaxFreq \in Nat
    /\ Task \subseteq {"cleanup", "swap", "extract"}

VARIABLES
    subs,        \* the sub-shards in use
    policyName,  \* Cache.policyName, what EvictionPolicy() reports
    now,         \* the clock
    task,        \* what each goroutine is in the middle of
    result,      \* the key and the evicted keys of a Set that just returned
    panicked     \* a nil sub-shard was dereferenced

vars == <<subs, policyName, now, task, result, panicked>>

-----------------------------------------------------------------------------
(* The layout of a shard. *)

effectiveSubShards(maxSize) ==
    IF maxSize <= 0
    THEN subShardsPerShard
    ELSE Max({1, Min({maxSize \div 2, subShardsPerShard})})

numSubs == effectiveSubShards(MaxSize)

maxSubSize ==
    IF MaxSize > 0 THEN Max({1, MaxSize \div numSubs}) ELSE 0

Sub == 0 .. numSubs - 1

subIndex(key) == HashOf[key] % numSubs

-----------------------------------------------------------------------------
(* Types. *)

Entries(i) == subs[i].entries
Expiry == 0 .. MaxTime + 1

IsEntries(e) == DOMAIN e \subseteq Key /\ \A k \in DOMAIN e : e[k] \in Expiry

IsPolicy(p) ==
    /\ DOMAIN p = {"name", "order", "items", "lists", "minFreq"}
    /\ p.name \in PolicyName
    /\ Elements(p.order) \subseteq Key
    /\ \A k \in DOMAIN p.items : k \in Key /\ p.items[k] \in 1 .. MaxFreq
    /\ \A f \in DOMAIN p.lists : f \in 1 .. MaxFreq /\ Elements(p.lists[f]) \subseteq Key
    /\ p.minFreq \in 0 .. MaxFreq

Idle == [at |-> "idle"]
None == [key |-> NoKey]

Tasks ==
    {Idle}
    \cup [at : {"get"}, key : Key, entry : Expiry]
    \cup [at : {"cleanup"}, sub : Sub]
    \cup [at : {"swap"}, sub : Sub, name : PolicyName]
    \cup [at : {"extract"}, sub : 0 .. subShardsPerShard - 1, left : 1 .. ExtractLimit]

\* Every variable has its type.
TypeOK ==
    /\ DOMAIN subs = Sub
    /\ \A i \in Sub : IsEntries(Entries(i)) /\ IsPolicy(subs[i].policy)
    /\ policyName \in PolicyName
    /\ now \in 1 .. MaxTime + 1
    /\ task \in [Goroutine -> Tasks]
    /\ result \in {None} \cup [key : Key, evicted : SUBSET Key]
    /\ panicked \in BOOLEAN

-----------------------------------------------------------------------------
(* Entries. *)

\* A step that is not the return of a Set.
Silent == result' = None

\* The expiry time newEntry gives; ttl 0 means none.
newEntry(ttl) == IF ttl > 0 THEN now + ttl ELSE 0

isExpired(expiresAt) == expiresAt # 0 /\ now >= expiresAt

Live(key) ==
    LET e == Entries(subIndex(key))
    IN  key \in DOMAIN e /\ ~isExpired(e[key])

\* delete(entries, key) with policy.OnRemove(key).
Removed(sub, key) ==
    [entries |-> Drop(sub.entries, key), policy |-> OnRemove(sub.policy, key)]

\* The same for a set of keys.  The order of a map iteration is arbitrary, and
\* the result does not depend on it.
RemovedAll(sub, S) == FoldSet(LAMBDA key, s : Removed(s, key), sub, S)

Expired(sub) == {k \in DOMAIN sub.entries : isExpired(sub.entries[k])}

-----------------------------------------------------------------------------
(* Set. *)

\* At most one entry is evicted, whatever the size.
Mut_EvictOverflow(sub) ==
    LET v == Evict(sub.policy)
    IN  IF maxSubSize > 0 /\ Cardinality(DOMAIN sub.entries) > maxSubSize /\ v.key # NoKey
        THEN [entries |-> Drop(sub.entries, v.key), policy |-> v.policy]
        ELSE sub

\* The loop that evicts until the sub-shard fits or the policy has no key.  At
\* most |Key| iterations are needed, since each removes a tracked key.
EvictOverflow(sub) ==
    LET Once(n, s) ==
            LET v == Evict(s.policy)
            IN  IF maxSubSize > 0 /\ Cardinality(DOMAIN s.entries) > maxSubSize /\ v.key # NoKey
                THEN [entries |-> Drop(s.entries, v.key), policy |-> v.policy]
                ELSE s
    IN  FoldSet(Once, sub, 1 .. Cardinality(Key))

Stored(sub, key, expiresAt) ==
    LET stored == [k \in DOMAIN sub.entries \cup {key} |->
                      IF k = key THEN expiresAt ELSE sub.entries[k]]
    IN  IF key \in DOMAIN sub.entries
        THEN [entries |-> stored, policy |-> OnAccess(sub.policy, key)]
        ELSE EvictOverflow([entries |-> stored, policy |-> OnAdd(sub.policy, key)])

RoomToBump(p, key) == key \in DOMAIN p.items => p.items[key] < MaxFreq

Set(key, ttl) ==
    LET i == subIndex(key)
    IN  /\ RoomToBump(subs[i].policy, key)
        /\ subs' = [subs EXCEPT ![i] = Stored(@, key, newEntry(ttl))]
        /\ result' = [key |-> key,
                      evicted |-> (DOMAIN Entries(i) \cup {key}) \ DOMAIN Entries(i)']
        /\ UNCHANGED <<policyName, now, task, panicked>>

-----------------------------------------------------------------------------
(* get: the entry is read under the read lock and looked at after it.  When *)
(* the copy has expired, the write lock is taken and the entry there now is *)
(* deleted if that one has expired too.  A miss at the first step changes   *)
(* nothing and is left out.                                                 *)

Become(g, t) == task' = [task EXCEPT ![g] = t]

GetRead(g, key) ==
    LET e == Entries(subIndex(key))
    IN  /\ task[g] = Idle
        /\ key \in DOMAIN e
        /\ Become(g, [at |-> "get", key |-> key, entry |-> e[key]])
        /\ Silent
        /\ UNCHANGED <<subs, policyName, now, panicked>>

GetHit(g) ==
    /\ task[g].at = "get"
    /\ ~isExpired(task[g].entry)
    /\ Become(g, Idle)
    /\ Silent
    /\ UNCHANGED <<subs, policyName, now, panicked>>

\* The entry is not looked at again under the write lock.
Mut_GetExpired(g) ==
    LET key == task[g].key
        i   == subIndex(key)
    IN  /\ task[g].at = "get"
        /\ isExpired(task[g].entry)
        /\ Become(g, Idle)
        /\ subs' = [subs EXCEPT ![i] =
                      IF key \in DOMAIN @.entries THEN Removed(@, key) ELSE @]
        /\ Silent
        /\ UNCHANGED <<policyName, now, panicked>>

GetExpired(g) ==
    LET key == task[g].key
        i   == subIndex(key)
    IN  /\ task[g].at = "get"
        /\ isExpired(task[g].entry)
        /\ Become(g, Idle)
        /\ subs' = [subs EXCEPT ![i] = IF key \in Expired(@) THEN Removed(@, key) ELSE @]
        /\ Silent
        /\ UNCHANGED <<policyName, now, panicked>>

-----------------------------------------------------------------------------
(* Del, for the string entries, and expire and persist. *)

Del(key) ==
    LET i == subIndex(key)
    IN  /\ key \in DOMAIN Entries(i)
        /\ subs' = [subs EXCEPT ![i] = Removed(@, key)]
        /\ Silent
        /\ UNCHANGED <<policyName, now, task, panicked>>

\* ttl <= 0 makes the entry expired at once.
expire(key, ttl) ==
    /\ Live(key)
    /\ subs' = [subs EXCEPT ![subIndex(key)].entries[key] = now + ttl]
    /\ Silent
    /\ UNCHANGED <<policyName, now, task, panicked>>

persist(key) ==
    /\ Live(key)
    /\ subs' = [subs EXCEPT ![subIndex(key)].entries[key] = 0]
    /\ Silent
    /\ UNCHANGED <<policyName, now, task, panicked>>

-----------------------------------------------------------------------------
(* The walks over the sub-shards. *)

\* Where a walk over the sub-shards in use is after sub-shard task[g].sub.
WalkOn(g) ==
    Become(g, IF task[g].sub + 1 < numSubs THEN [task[g] EXCEPT !.sub = @ + 1] ELSE Idle)

StartCleanup(g) ==
    /\ "cleanup" \in Task
    /\ task[g] = Idle
    /\ Become(g, [at |-> "cleanup", sub |-> 0])
    /\ Silent
    /\ UNCHANGED <<subs, policyName, now, panicked>>

cleanup(g) ==
    /\ task[g].at = "cleanup"
    /\ subs' = [subs EXCEPT ![task[g].sub] = RemovedAll(@, Expired(@))]
    /\ WalkOn(g)
    /\ Silent
    /\ UNCHANGED <<policyName, now, panicked>>

\* The name and factory change first, then the shard's policies one by one.
SetEvictionPolicy(g, name) ==
    /\ "swap" \in Task
    /\ task[g] = Idle
    /\ policyName' = name
    /\ Become(g, [at |-> "swap", sub |-> 0, name |-> name])
    /\ Silent
    /\ UNCHANGED <<subs, now, panicked>>

Orders(S) ==
    {s \in [1 .. Cardinality(S) -> S] : Elements(s) = S}

\* A fresh policy told of the keys in the order of a map iteration.
Reseeded(name, keys) ==
    LET Tell(n, p) == OnAdd(p, keys[n])
    IN  FoldSet(Tell, NewPolicy(name), DOMAIN keys)

swapPolicy(g) ==
    LET i == task[g].sub
    IN  /\ task[g].at = "swap"
        /\ \E keys \in Orders(DOMAIN Entries(i)) :
               subs' = [subs EXCEPT ![i].policy = Reseeded(task[g].name, keys)]
        /\ WalkOn(g)
        /\ Silent
        /\ UNCHANGED <<policyName, now, panicked>>

StartExtractN(g) ==
    /\ "extract" \in Task
    /\ task[g] = Idle
    /\ Become(g, [at |-> "extract", sub |-> 0, left |-> ExtractLimit])
    /\ Silent
    /\ UNCHANGED <<subs, policyName, now, panicked>>

\* The walk covers all the slots of the array, used or not.
LastSlot(i) == i + 1 = subShardsPerShard

ExtractN(g) ==
    LET i    == task[g].sub
        left == task[g].left
        dead == Expired(subs[i])
        live == DOMAIN Entries(i) \ dead
    IN  /\ task[g].at = "extract"
        /\ i \in Sub
        /\ \E out \in SUBSET live, gone \in SUBSET dead :
               /\ Cardinality(out) = Min({left, Cardinality(live)})
               /\ Cardinality(out) < left => gone = dead
               /\ subs' = [subs EXCEPT ![i] = RemovedAll(@, out \cup gone)]
               /\ Become(g,
                    IF Cardinality(out) = left \/ LastSlot(i)
                    THEN Idle
                    ELSE [at |-> "extract", sub |-> i + 1, left |-> left - Cardinality(out)])
        /\ Silent
        /\ UNCHANGED <<policyName, now, panicked>>

ExtractNil(g) ==
    /\ task[g].at = "extract"
    /\ task[g].sub \notin Sub
    /\ panicked' = TRUE
    /\ Become(g, Idle)
    /\ Silent
    /\ UNCHANGED <<subs, policyName, now>>

-----------------------------------------------------------------------------

Tick ==
    /\ now <= MaxTime
    /\ now' = now + 1
    /\ Silent
    /\ UNCHANGED <<subs, policyName, task, panicked>>

Init ==
    \E name \in PolicyName :
        /\ subs = [i \in Sub |-> [entries |-> Empty, policy |-> NewPolicy(name)]]
        /\ policyName = name
        /\ now = 1
        /\ task = [g \in Goroutine |-> Idle]
        /\ result = None
        /\ panicked = FALSE

Next ==
    /\ ~panicked
    /\ \/ \E key \in Key :
              \/ \E ttl \in {0, 1} : now + ttl <= MaxTime + 1 /\ Set(key, ttl)
              \/ \E ttl \in {0, 1} : now + ttl <= MaxTime + 1 /\ expire(key, ttl)
              \/ Del(key) \/ persist(key)
              \/ \E g \in Goroutine : GetRead(g, key)
       \/ \E g \in Goroutine :
              \/ GetHit(g) \/ GetExpired(g)
              \/ StartCleanup(g) \/ cleanup(g)
              \/ \E name \in PolicyName : SetEvictionPolicy(g, name)
              \/ swapPolicy(g)
              \/ StartExtractN(g) \/ ExtractN(g) \/ ExtractNil(g)
       \/ Tick

Spec == Init /\ [][Next]_vars

-----------------------------------------------------------------------------
(* Properties. *)

\* What every lock holder finds: the policy's own structure is sound and it
\* tracks exactly the keys of the entry map.  Every path that deletes an entry
\* (Del, get, cleanup, ExtractN, eviction) must tell the policy, and a hot swap
\* must seed the new policy with every key.
PolicyTracksEntries ==
    \A i \in Sub :
        /\ WellFormed(subs[i].policy)
        /\ subs[i].policy.name # "noop" => Tracked(subs[i].policy) = DOMAIN Entries(i)

Items(i) == subs[i].policy.items

Size(i) == Cardinality(DOMAIN Entries(i))

\* Under a policy that evicts, a Set that adds a key leaves the sub-shard within
\* its capacity, even when it was over it because the policy was "noop" before,
\* and no other step takes it over.
CapacityRestored ==
    [][\A i \in Sub :
          (maxSubSize > 0 /\ subs[i].policy.name # "noop") =>
              /\ DOMAIN Entries(i)' \subseteq DOMAIN Entries(i) \/ Size(i)' <= maxSubSize
              /\ Size(i)' <= Max({Size(i), maxSubSize})]_vars

\* Under LFU, when a Set evicts, no key left has been set less often than the
\* one evicted, although minFreq is not always exact.
EvictsLeastFrequent ==
    [][\A i \in Sub :
          LET Freq(k) == IF k \in DOMAIN Items(i) THEN Items(i)[k] ELSE 1
          IN  (result' # None /\ result'.key \in {k \in Key : subIndex(k) = i}
                   /\ subs[i].policy.name = "lfu") =>
                  \A out \in result'.evicted, kept \in DOMAIN Entries(i)' :
                      Freq(out) <= Items(i)'[kept]]_vars

\* The lazy deletion of get and the background cleanup never remove an entry
\* that is live when they do, although get decided on a copy read earlier.
OnlyDeadEntriesCollected ==
    [][(\E g \in Goroutine : task[g].at \in {"get", "cleanup"} /\ task[g]' # task[g])
          => \A key \in Key : Live(key) => Live(key)']_vars

\* A cache without a size limit uses every slot of a shard's array, and no walk
\* over it reaches a nil sub-shard.  (With a small MaxSize newShard leaves slots
\* nil and ExtractN, which walks all of them, dereferences one.)
NoNilSubShard == ~panicked
=============================================================================
