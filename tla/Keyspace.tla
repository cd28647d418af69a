------------------------------ MODULE Keyspace ------------------------------
(***************************************************************************)
(* The commands of the cache as functions of its contents: the methods of  *)
(* shard for keys of each type, and above them the methods of Cache with   *)
(* their validation and their errors.                                      *)
(*                                                                         *)
(* A keyspace ks is a record:                                              *)
(*   str                   string keys, with value v and expiry exp        *)
(*   sets, hashes, lists   the typed maps of the shards                    *)
(*   now                   the clock, with Milli ticks to a millisecond     *)
(*   closed                Cache.closed                                    *)
(* A call c is a record with the command's name in c.cmd and a field per   *)
(* argument; c.draw stands for the random number generator.  The result of *)
(* a call is the new keyspace and the answer, [ok |-> x] or [err |-> text].*)
(* Capacity, eviction and rehashing are in Shard and Cache; here a cache   *)
(* has room for every key and all shards are one map.                      *)
(***************************************************************************)
EXTENDS DataTypes

CONSTANTS
    Milli,        \* ticks in a millisecond (1000000 in the code)
    Second,       \* milliseconds in a second (1000 in the code)
    DefaultTTL    \* Options.defaultTTL in ticks, 0 when entries do not expire

ASSUME KeyspaceAssumption ==
    /\ Milli \in Nat \ {0} /\ Second \in Nat \ {0}
    /\ DefaultTTL \in Nat

ErrCacheClosed == <<201>>
ErrKeyEmpty    == <<202>>
ErrValueNil    == <<203>>
ErrKeyNotFound == <<204>>

\* A nil []byte, which is not the empty one.
Nil == <<-2>>

\* A ttl that the caller of the variadic Set leaves out.
NoTTL == -1000000

Ok(x) == [ok |-> x]
Err(text) == [err |-> text]

\* nil for "no error" in methods that return nothing else.
Done == Ok(<<>>)

\* The answer of a method whose result may be missing.
Found(r) == IF r = Absent THEN Err(ErrKeyNotFound) ELSE Ok(r)

\* The container of a key, an empty one when the key has none.
At(m, key, empty) == IF key \in DOMAIN m THEN m[key] ELSE empty

\* The containers that the reading methods of shard look at.
SetAt(ks, key) == At(ks.sets, key, {})
HashAt(ks, key) == At(ks.hashes, key, <<>>)
ListAt(ks, key) == At(ks.lists, key, <<>>)

\* The typed map m after a method on the container of key, whose result is x.
Stored(m, key, x) == [m |-> Put(m, key, x.v), r |-> x.r]

\* The same for the methods that delete a container they leave empty.
StoredOrDeleted(m, key, x, empty) ==
    [m |-> IF x.v = empty THEN Without(m, {key}) ELSE Put(m, key, x.v), r |-> x.r]

Unchanged(m, r) == [m |-> m, r |-> r]

-----------------------------------------------------------------------------
(* shard: string keys and key management. *)

isExpired(ks, e) == e.exp # 0 /\ ks.now >= e.exp
Live(ks, key) == key \in DOMAIN ks.str /\ ~isExpired(ks, ks.str[key])
Expired(ks) == {k \in DOMAIN ks.str : isExpired(ks, ks.str[k])}

newEntry(ks, value, ttl) == [v |-> value, exp |-> IF ttl > 0 THEN ks.now + ttl ELSE 0]

\* An expired entry is deleted by the read that meets it.
get(ks, key) ==
    IF Live(ks, key)
    THEN [ks |-> ks, ans |-> Ok(ks.str[key].v)]
    ELSE [ks |-> [ks EXCEPT !.str = Without(@, Expired(ks) \cap {key})],
          ans |-> Err(ErrKeyNotFound)]

keyExists(ks, key) ==
    Live(ks, key) \/ key \in DOMAIN ks.sets \cup DOMAIN ks.hashes \cup DOMAIN ks.lists

\* The first of the types that the key holds.
keyType(ks, key) ==
    IF Live(ks, key) THEN 1
    ELSE IF key \in DOMAIN ks.sets THEN 2
    ELSE IF key \in DOMAIN ks.hashes THEN 3
    ELSE IF key \in DOMAIN ks.lists THEN 4
    ELSE 0

expire(ks, key, ttl) ==
    [ks  |-> IF Live(ks, key) THEN [ks EXCEPT !.str[key].exp = ks.now + ttl] ELSE ks,
     ans |-> Ok(Live(ks, key))]

persist(ks, key) ==
    [ks  |-> IF Live(ks, key) THEN [ks EXCEPT !.str[key].exp = 0] ELSE ks,
     ans |-> Ok(Live(ks, key))]

\* The remaining time in units of unit ticks.
Remaining(ks, key, unit) ==
    IF ~Live(ks, key) THEN -2
    ELSE IF ks.str[key].exp = 0 THEN -1
    ELSE (ks.str[key].exp - ks.now) \div unit

ttlSeconds(ks, key) == Remaining(ks, key, Second * Milli)
ttlMillis(ks, key) == Remaining(ks, key, Milli)

\* filepath.Match, for the pattern * and for patterns without wildcards.
Match(pattern, key) == pattern = <<42>> \/ pattern = key

Matching(keys, pattern) == SetToSeq({k \in keys : Match(pattern, k)})

Mut_matchKeys(ks, pattern) ==
    Matching(DOMAIN ks.str, pattern) \o Matching(DOMAIN ks.sets, pattern)
    \o Matching(DOMAIN ks.hashes, pattern) \o Matching(DOMAIN ks.lists, pattern)

\* A key that holds several types is listed once for each.
matchKeys(ks, pattern) ==
    Matching(DOMAIN ks.str \ Expired(ks), pattern) \o Matching(DOMAIN ks.sets, pattern)
    \o Matching(DOMAIN ks.hashes, pattern) \o Matching(DOMAIN ks.lists, pattern)

Del(ks, key) ==
    [ks EXCEPT !.str = Without(@, {key}), !.sets = Without(@, {key}),
               !.hashes = Without(@, {key}), !.lists = Without(@, {key})]

-----------------------------------------------------------------------------
(* shard: sets.  m is the map sets. *)

sAdd(m, key, elems) == Stored(m, key, Add(At(m, key, {}), elems))

sRem(m, key, elems) ==
    IF key \in DOMAIN m
    THEN StoredOrDeleted(m, key, Rem(m[key], elems), {})
    ELSE Unchanged(m, 0)

sPop(m, key, draw) ==
    IF key \in DOMAIN m /\ m[key] # {}
    THEN StoredOrDeleted(m, key, Pop(m[key], draw), {})
    ELSE Unchanged(m, Absent)

sMembers(m, key) == SetToSeq(At(m, key, {}))
sRandMember(m, key, count, draw) == RandMember(At(m, key, {}), count, draw)

-----------------------------------------------------------------------------
(* shard: hashes.  m is the map hashes. *)

hSet(m, key, field, value) == Stored(m, key, HSet(At(m, key, <<>>), field, value))
hSetNX(m, key, field, value) == Stored(m, key, HSetNX(At(m, key, <<>>), field, value))

hDel(m, key, fields) ==
    IF key \in DOMAIN m
    THEN StoredOrDeleted(m, key, HDel(m[key], fields), <<>>)
    ELSE Unchanged(m, 0)

\* The container is created even when the increment then fails.
hIncrBy(m, key, field, delta) == Stored(m, key, HIncrBy(At(m, key, <<>>), field, delta))

hIncrByFloat(m, key, field, delta) ==
    Stored(m, key, HIncrByFloat(At(m, key, <<>>), field, delta))

hmSet(m, key, fvPairs) == Put(m, key, HMSet(At(m, key, <<>>), fvPairs))

-----------------------------------------------------------------------------
(* shard: lists.  m is the map lists. *)

lPush(m, key, elems) == Stored(m, key, LPush(At(m, key, <<>>), elems))
rPush(m, key, elems) == Stored(m, key, RPush(At(m, key, <<>>), elems))

lPop(m, key) ==
    IF At(m, key, <<>>) # <<>>
    THEN StoredOrDeleted(m, key, LPop(m[key]), <<>>)
    ELSE Unchanged(m, Absent)

rPop(m, key) ==
    IF At(m, key, <<>>) # <<>>
    THEN StoredOrDeleted(m, key, RPop(m[key]), <<>>)
    ELSE Unchanged(m, Absent)

lSet(m, key, index, value) ==
    IF key \in DOMAIN m
    THEN Stored(m, key, LSet(m[key], index, value))
    ELSE Unchanged(m, FALSE)

lRem(m, key, count, value) ==
    IF key \in DOMAIN m
    THEN StoredOrDeleted(m, key, LRem(m[key], count, value), <<>>)
    ELSE Unchanged(m, 0)

lTrim(m, key, start, stop) ==
    IF key \in DOMAIN m
    THEN StoredOrDeleted(m, key, [v |-> LTrim(m[key], start, stop), r |-> <<>>], <<>>)
    ELSE Unchanged(m, <<>>)

lInsert(m, key, before, pivot, value) ==
    IF key \in DOMAIN m
    THEN Stored(m, key, LInsert(m[key], before, pivot, value))
    ELSE Unchanged(m, 0)

-----------------------------------------------------------------------------
(* Cache: the checks made before every command, and the answers. *)

\* validateOpen, for the commands that take no single key.
Open(ks, res) == IF ks.closed THEN [ks |-> ks, ans |-> Err(ErrCacheClosed)] ELSE res

\* validateOpen and the test for the empty key.
Valid(ks, key, res) ==
    Open(ks, IF key = <<>> THEN [ks |-> ks, ans |-> Err(ErrKeyEmpty)] ELSE res)

Reads(ks, ans) == [ks |-> ks, ans |-> ans]
Sets(ks, x) == [ks |-> [ks EXCEPT !.sets = x.m], ans |-> Ok(x.r)]
Hashes(ks, x) == [ks |-> [ks EXCEPT !.hashes = x.m], ans |-> Ok(x.r)]
Lists(ks, x) == [ks |-> [ks EXCEPT !.lists = x.m], ans |-> Ok(x.r)]

\* Cache.Set: without a ttl argument the default applies.
CacheSet(ks, c) ==
    LET ttl == IF c.ttl = NoTTL THEN DefaultTTL ELSE Max({c.ttl, 0})
    IN  Valid(ks, c.key,
              IF c.value = Nil
              THEN Reads(ks, Err(ErrValueNil))
              ELSE [ks  |-> [ks EXCEPT !.str = Put(@, c.key, newEntry(ks, c.value, ttl))],
                    ans |-> Done])

CacheLen(ks) ==
    Reads(ks, Ok(IF ks.closed THEN 0 ELSE Cardinality(DOMAIN ks.str \ Expired(ks))))

CacheCleanup(ks) ==
    IF ks.closed
    THEN Reads(ks, Ok(0))
    ELSE [ks  |-> [ks EXCEPT !.str = Without(@, Expired(ks))],
          ans |-> Ok(Cardinality(Expired(ks)))]

\* Close drops the shard table, and with it every key.
CacheClose(ks) ==
    [ks EXCEPT !.closed = TRUE, !.str = <<>>, !.sets = <<>>, !.hashes = <<>>, !.lists = <<>>]

CacheKV(ks, c) ==
    CASE c.cmd = "Get"     -> Valid(ks, c.key, get(ks, c.key))
      [] c.cmd = "Set"     -> CacheSet(ks, c)
      [] c.cmd = "Del"     -> Valid(ks, c.key, [ks |-> Del(ks, c.key), ans |-> Done])
      [] c.cmd = "Len"     -> CacheLen(ks)
      [] c.cmd = "Cleanup" -> CacheCleanup(ks)

\* A deadline: not set when it has passed.
Until(ks, key, t) == IF t <= ks.now THEN Reads(ks, Ok(FALSE)) ELSE expire(ks, key, t - ks.now)

CacheKeys(ks, c) ==
    CASE c.cmd = "Exists"    -> Valid(ks, c.key, Reads(ks, Ok(keyExists(ks, c.key))))
      [] c.cmd = "Type"      -> Valid(ks, c.key, Reads(ks, Ok(keyType(ks, c.key))))
      [] c.cmd = "Expire"    -> Valid(ks, c.key, expire(ks, c.key, c.ttl * Second * Milli))
      [] c.cmd = "ExpireAt"  -> Valid(ks, c.key, Until(ks, c.key, c.ttl * Second * Milli))
      [] c.cmd = "PExpire"   -> Valid(ks, c.key, expire(ks, c.key, c.ttl * Milli))
      [] c.cmd = "PExpireAt" -> Valid(ks, c.key, Until(ks, c.key, c.ttl * Milli))
      [] c.cmd = "TTL"       -> Valid(ks, c.key, Reads(ks, Ok(ttlSeconds(ks, c.key))))
      [] c.cmd = "PTTL"      -> Valid(ks, c.key, Reads(ks, Ok(ttlMillis(ks, c.key))))
      [] c.cmd = "Persist"   -> Valid(ks, c.key, persist(ks, c.key))
      [] c.cmd = "Keys"      -> Open(ks, Reads(ks, Ok(matchKeys(ks, c.key))))

\* SUnion and SInter leave out, or stop at, the keys that have no set.
SetsOf(ks, keys) == SelectSeq(keys, LAMBDA k : k \in DOMAIN ks.sets)
Held(ks, keys) == LET ks1 == SetsOf(ks, keys) IN [i \in DOMAIN ks1 |-> ks.sets[ks1[i]]]

CacheSets(ks, c) ==
    CASE c.cmd = "SAdd"  -> Valid(ks, c.key, Sets(ks, sAdd(ks.sets, c.key, c.elems)))
      [] c.cmd = "SRem"  -> Valid(ks, c.key, Sets(ks, sRem(ks.sets, c.key, c.elems)))
      [] c.cmd = "SIsMember" ->
            Valid(ks, c.key, Reads(ks, Ok(c.elem \in SetAt(ks, c.key))))
      [] c.cmd = "SMembers"  -> Valid(ks, c.key, Reads(ks, Ok(sMembers(ks.sets, c.key))))
      [] c.cmd = "SCard"     -> Valid(ks, c.key, Reads(ks, Ok(Cardinality(SetAt(ks, c.key)))))
      [] c.cmd = "SPop"      ->
            LET x == sPop(ks.sets, c.key, c.draw)
            IN  Valid(ks, c.key, [ks |-> [ks EXCEPT !.sets = x.m], ans |-> Found(x.r)])
      [] c.cmd = "SRandMember" ->
            Valid(ks, c.key, Reads(ks, Ok(sRandMember(ks.sets, c.key, c.count, c.draw))))
      [] c.cmd = "SUnion" -> Open(ks, Reads(ks, Ok(SetToSeq(Union(Held(ks, c.keys))))))
      [] c.cmd = "SInter" ->
            Open(ks, Reads(ks, Ok(IF SetsOf(ks, c.keys) = c.keys
                                  THEN SetToSeq(Inter(Held(ks, c.keys)))
                                  ELSE <<>>)))
      [] c.cmd = "SDiff" ->
            LET all == [i \in DOMAIN c.keys |-> SetAt(ks, c.keys[i])]
            IN  Open(ks, Reads(ks, Ok(SetToSeq(Diff(all)))))

\* The answer r of a read of the whole hash, which a missing key does not have.
WholeHash(ks, key, r) ==
    Reads(ks, IF key \in DOMAIN ks.hashes THEN Ok(r) ELSE Err(ErrKeyNotFound))

Increment(ks, x) == [ks |-> [ks EXCEPT !.hashes = x.m], ans |-> x.r]

CacheHashes(ks, c) ==
    LET h   == HashAt(ks, c.key)
        res == CASE c.cmd = "HSet"    -> Hashes(ks, hSet(ks.hashes, c.key, c.field, c.value))
                 [] c.cmd = "HSetNX"  -> Hashes(ks, hSetNX(ks.hashes, c.key, c.field, c.value))
                 [] c.cmd = "HGet"    -> Reads(ks, Found(HGet(h, c.field)))
                 [] c.cmd = "HDel"    -> Hashes(ks, hDel(ks.hashes, c.key, c.fields))
                 [] c.cmd = "HExists" -> Reads(ks, Ok(HExists(h, c.field)))
                 [] c.cmd = "HGetAll" -> WholeHash(ks, c.key, h)
                 [] c.cmd = "HKeys"   -> WholeHash(ks, c.key, HKeys(h))
                 [] c.cmd = "HVals"   -> WholeHash(ks, c.key, HVals(h))
                 [] c.cmd = "HLen"    -> Reads(ks, Ok(HLen(h)))
                 [] c.cmd = "HStrLen" -> Reads(ks, Ok(HStrLen(h, c.field)))
                 [] c.cmd = "HIncrBy" -> Increment(ks, hIncrBy(ks.hashes, c.key, c.field, c.delta))
                 [] c.cmd = "HIncrByFloat" ->
                       Increment(ks, hIncrByFloat(ks.hashes, c.key, c.field, c.delta))
                 [] c.cmd = "HMGet"   -> Reads(ks, Ok(HMGet(h, c.fields)))
                 [] c.cmd = "HMSet"   ->
                       [ks  |-> [ks EXCEPT !.hashes = hmSet(@, c.key, c.fvPairs)], ans |-> Done]
    IN  Valid(ks, c.key, res)

Popped(ks, x) == [ks |-> [ks EXCEPT !.lists = x.m], ans |-> Found(x.r)]

CacheLists(ks, c) ==
    LET m   == ks.lists
        l   == ListAt(ks, c.key)
        res == CASE c.cmd = "LPush"   -> Lists(ks, lPush(m, c.key, c.elems))
                 [] c.cmd = "RPush"   -> Lists(ks, rPush(m, c.key, c.elems))
                 [] c.cmd = "LPop"    -> Popped(ks, lPop(m, c.key))
                 [] c.cmd = "RPop"    -> Popped(ks, rPop(m, c.key))
                 [] c.cmd = "LLen"    -> Reads(ks, Ok(Len(l)))
                 [] c.cmd = "LRange"  ->
                       LET r == LRange(l, c.start, c.stop)
                       IN  Reads(ks, IF r = <<>> THEN Err(ErrKeyNotFound) ELSE Ok(r))
                 [] c.cmd = "LIndex"  -> Reads(ks, Found(LIndex(l, c.index)))
                 [] c.cmd = "LSet"    ->
                       LET x == lSet(m, c.key, c.index, c.value)
                       IN  [ks  |-> [ks EXCEPT !.lists = x.m],
                            ans |-> IF x.r THEN Done ELSE Err(ErrKeyNotFound)]
                 [] c.cmd = "LRem"    -> Lists(ks, lRem(m, c.key, c.count, c.value))
                 [] c.cmd = "LTrim"   -> Lists(ks, lTrim(m, c.key, c.start, c.stop))
                 [] c.cmd = "LInsert" -> Lists(ks, lInsert(m, c.key, c.before, c.pivot, c.value))
                 [] c.cmd = "LPos"    ->
                       Reads(ks, Ok(LPos(l, c.value, c.rank, c.count, c.maxLen)))
    IN  Valid(ks, c.key, res)
=============================================================================
