----------------------------- MODULE CacheAlone -----------------------------
(***************************************************************************)
(* One caller sees a map: while one goroutine calls Get, Set, Del and      *)
(* Resize, every call of it takes effect on the map of KVMap once, and no  *)
(* step of a migration shows.                                              *)
(*                                                                         *)
(* The first part is about the values that a call and a Step go by (Goes), *)
(* the second about the tables, the third about the actions, each of which *)
(* keeps AloneInv and is a step of the map or none (Refined).              *)
(***************************************************************************)
EXTENDS CacheProofs

-----------------------------------------------------------------------------
(* The values that a call and a Step go by *)

Early == {"load", "apply"}
Between == {"check", "old", "oldApply"}
Late == {"stepping", "table", "begin", "extract", "move", "end"}
KeyCall == {"get", "set", "del"}

\* What is seen of the entries n of the table in force, o of the table that is
\* left and c on their way.
Seen(n, o, c) ==
    [k \in Key |-> IF n[k] # None THEN n[k] ELSE IF o[k] # None THEN o[k] ELSE c[k]]

\* The call of p has taken effect on the map v.
Answered(v, p) ==
    /\ p.pc \notin Early
    /\ p.call = "del" => v[p.key] = None
    /\ p.call = "get" => p.pc \notin Between

\* A goroutine is in no call, in a Resize, or in a call on a key.
Formed(p) ==
    /\ p \in Proc
    /\ \/ p = Idle
       \/ p.pc = "swap" /\ p.call = "resize"
       \/ p.pc \in Early \cup Between \cup Late /\ p.call \in KeyCall /\ p.key \in Key

(* A key is in one place only: in the table in force, in the one that is     *)
(* left or on its way; in both tables just while a Set replaces it.  What a  *)
(* Get or a Del has not found in the table in force is not there, and        *)
(* nothing is left of a key that is deleted.                                 *)
Entries(n, o, p) ==
    /\ p.pc # "move" => \A k \in Key : p.items[k] = None
    /\ \A k \in Key : p.items[k] # None => n[k] = None /\ o[k] = None
    /\ IF p.pc = "swap"
       THEN o = n
       ELSE \A k \in Key : \/ n[k] = None \/ o[k] = None
                           \/ p.pc \in Between /\ p.call = "set" /\ p.key = k
    /\ p.call = "set" => p.val \in Value
    /\ p.call = "del" => p.val = None
    /\ p.call = "get" /\ p.pc \in Early \cup Between => p.val = None
    /\ p.pc \in Between => (n[p.key] # None <=> p.call = "set")
    /\ p.call = "del" /\ p.pc \in Late =>
           n[p.key] = None /\ o[p.key] = None /\ p.items[p.key] = None

\* The call goes on, of a caller p that becomes q.
Same(p, q) == q.call = p.call /\ q.key = p.key

(* What a caller sees of a step: nothing, or a step of the map.              *)
Nothing(v, p, w, q) ==
    /\ w = v
    /\ \/ p.call \notin KeyCall /\ q.call \notin KeyCall
       \/ /\ p.call \in KeyCall /\ Same(p, q) /\ q.val = p.val
          /\ Answered(w, q) <=> Answered(v, p)
Invoked(v, p, w, q) ==
    /\ w = v /\ p.call \notin KeyCall /\ q.call \in KeyCall /\ q.key \in Key /\ ~Answered(w, q)
    /\ IF q.call = "set" THEN q.val \in Value ELSE q.val = None
Updated(w, v, key, val) == w = [v EXCEPT ![key] = val]
Written(v, p, w, q) ==
    /\ p.call \in {"set", "del"} /\ Same(p, q) /\ q.val = p.val
    /\ ~Answered(v, p) /\ Answered(w, q)
    /\ Updated(w, v, p.key, p.val)
Read(v, p, w, q) ==
    /\ w = v /\ p.call = "get" /\ Same(p, q) /\ ~Answered(v, p) /\ Answered(w, q)
    /\ q.val = v[p.key]
Returned(v, p, w, q) ==
    w = v /\ p.call \in KeyCall /\ Answered(v, p) /\ q.call \notin KeyCall
Does(v, p, w, q) ==
    \/ Nothing(v, p, w, q) \/ Invoked(v, p, w, q) \/ Written(v, p, w, q)
    \/ Read(v, p, w, q) \/ Returned(v, p, w, q)

\* The invariant, and the step, of the entries and of the caller.
Goes(n, o, p, m, u, q) ==
    Entries(m, u, q) /\ Does(Seen(n, o, p.items), p, Seen(m, u, q.items), q)

\* What is seen of a key, and when two caches look the same or differ in a key.
Shows(n, o, c, k) == IF n[k] # None THEN n[k] ELSE IF o[k] # None THEN o[k] ELSE c[k]

\* Seen, key by key.
LEMMA SeenSame ==
    ASSUME NEW n, NEW o, NEW c, NEW m, NEW u, NEW d,
           \A k \in Key : Shows(m, u, d, k) = Shows(n, o, c, k)
    PROVE  Seen(m, u, d) = Seen(n, o, c)
  BY Zenon DEF Seen, Shows

\* The same with another value for one key.
Puts(n, o, c, m, u, d, key, val) ==
    \A k \in Key : Shows(m, u, d, k) = IF k = key THEN val ELSE Shows(n, o, c, k)

\* So does Seen.
LEMMA SeenStored ==
    ASSUME NEW n, NEW o, NEW c, NEW m, NEW u, NEW d, NEW key \in Key, NEW val,
           Puts(n, o, c, m, u, d, key, val)
    PROVE  Updated(Seen(m, u, d), Seen(n, o, c), key, val)
<1> DEFINE v == Seen(n, o, c)
           w == Seen(m, u, d)
<1>1. /\ v = [k \in Key |-> Shows(n, o, c, k)] /\ w = [k \in Key |-> Shows(m, u, d, k)]
  BY Zenon DEF Seen, Shows
<1> HIDE DEF v, w
<1>2. w = [v EXCEPT ![key] = val]
  BY <1>1, Zenon DEF Puts
<1> QED
  BY <1>2, Zenon DEF v, w, Updated

\* Seen of one key.
LEMMA SeenAt ==
    ASSUME NEW n, NEW o, NEW c, NEW k \in Key
    PROVE  Seen(n, o, c)[k] = Shows(n, o, c, k)
  BY Zenon DEF Seen, Shows

\* The same call at a place where its caller sees the same.
LEMMA SameStage ==
    ASSUME NEW n, NEW o, NEW p, NEW q, Formed(p), Entries(n, o, p), Same(p, q), q.val = p.val,
           q.items = p.items, p.pc # "move", q.pc # "move",
           \/ p.pc \in Early /\ q.pc \in Early
           \/ p.pc \in Between /\ q.pc \in Between
           \/ p.pc \in Late /\ q.pc \in Late
    PROVE  Goes(n, o, p, n, o, q)
<1>1. /\ p.call \in KeyCall /\ p.pc # "swap" /\ q.pc # "swap"
      /\ p.pc \in Early <=> q.pc \in Early
      /\ p.pc \in Between <=> q.pc \in Between
      /\ p.pc \in Late <=> q.pc \in Late
  BY DEF Formed, Early, Between, Late, Idle
<1>2. Entries(n, o, q)
  BY <1>1, Zenon DEF Entries, Same
<1>3. Nothing(Seen(n, o, p.items), p, Seen(n, o, q.items), q)
  BY <1>1, Zenon DEF Nothing, Answered, Same
<1> QED
  BY <1>2, <1>3, Zenon DEF Goes, Does

\* A call begins.
LEMMA CallGoes ==
    ASSUME NEW n, NEW o, NEW q, Entries(n, o, Idle), q.pc = "load", q.call \in KeyCall,
           q.key \in Key, q.items = NoEntries,
           IF q.call = "set" THEN q.val \in Value ELSE q.val = None
    PROVE  Goes(n, o, Idle, n, o, q)
<1>1. /\ Idle.pc = "idle" /\ Idle.items = NoEntries /\ Idle.call \notin KeyCall
      /\ \A k \in Key : NoEntries[k] = None
  BY Zenon DEF Idle, NoEntries, KeyCall
<1>2. q.pc \in Early /\ q.pc \notin Between /\ q.pc \notin Late /\ Idle.pc \notin Between
  BY <1>1, Zenon DEF Early, Between, Late
<1>3. Entries(n, o, q)
  BY <1>1, <1>2, Zenon DEF Entries, KeyCall
<1>4. Invoked(Seen(n, o, Idle.items), Idle, Seen(n, o, q.items), q)
  BY <1>1, <1>2, Zenon DEF Invoked, Answered
<1> QED
  BY <1>3, <1>4, Zenon DEF Goes, Does

\* A Set stores its value, a Del removes the one in the table in force.
LEMMA ApplyGoes ==
    ASSUME NEW n \in Content, NEW o \in Content, NEW m, NEW p, NEW q,
           Formed(p), Entries(n, o, p), Same(p, q), q.val = p.val,
           q.items = p.items, p.pc = "apply", q.pc = "check", p.call \in {"set", "del"},
           \A k \in Key : m[k] = IF k = p.key THEN p.val ELSE n[k]
    PROVE  Goes(n, o, p, m, o, q)
<1> DEFINE v == Seen(n, o, p.items)
           w == Seen(m, o, p.items)
<1>1. /\ p.key \in Key /\ p.pc \in Early /\ q.pc \in Between /\ q.pc \notin Early /\ q.pc \notin Late
      /\ p.pc \notin Between
  BY DEF Formed, Early, Between, Late, Idle
<1>2. /\ \A k \in Key : p.items[k] = None
      /\ \A k \in Key : n[k] = None \/ o[k] = None
      /\ p.call = "set" => p.val \in Value /\ p.val # None
      /\ p.call = "del" => p.val = None
  BY <1>1, CacheAssumption, Zenon DEF Entries
<1>3. \A k \in Key : m[k] = IF k = p.key THEN p.val ELSE n[k]
  BY Zenon
<1>4. Entries(m, o, q)
  BY <1>1, <1>2, <1>3, Zenon DEF Entries, Same
<1>5. CASE p.call = "set" \/ o[p.key] = None
  <2>1. \A k \in Key : Shows(m, o, p.items, k)
                         = IF k = p.key THEN p.val ELSE Shows(n, o, p.items, k)
    BY <1>2, <1>3, <1>5, Zenon DEF Shows
  <2>2. Updated(w, v, p.key, p.val)
    <3>1. Puts(n, o, p.items, m, o, p.items, p.key, p.val)
      BY <2>1, Zenon DEF Puts
    <3> QED
      BY <1>1, <3>1, SeenStored, Zenon
  <2>3. w[p.key] = Shows(m, o, p.items, p.key)
    BY <1>1, SeenAt
  <2>4. w[p.key] = p.val
    BY <1>1, <2>1, <2>3, Zenon
  <2> HIDE DEF v, w
  <2>5. ~Answered(v, p) /\ Answered(w, q)
    BY <1>1, <1>2, <2>4, Zenon DEF Answered, Same
  <2>6. Written(v, p, w, q)
    BY <2>2, <2>5, Zenon DEF Written
  <2> QED
    BY <1>4, <2>6, Zenon DEF Goes, Does, v, w
<1>6. CASE p.call = "del" /\ o[p.key] # None
  <2>1. n[p.key] = None
    BY <1>1, <1>2, <1>6, Zenon
  <2>2. \A k \in Key : Shows(m, o, p.items, k) = Shows(n, o, p.items, k)
    BY <1>2, <1>3, <1>6, <2>1, Zenon DEF Shows
  <2>3. w = v
    BY <2>2, SeenSame
  <2>4. w[p.key] = Shows(m, o, p.items, p.key)
    BY <1>1, SeenAt
  <2>5. w[p.key] # None
    BY <1>1, <1>2, <1>3, <1>6, <2>4, Zenon DEF Shows
  <2> HIDE DEF v, w
  <2>6. ~Answered(v, p) /\ ~Answered(w, q)
    BY <1>1, <1>6, <2>5, Zenon DEF Answered, Same
  <2>7. Nothing(v, p, w, q)
    BY <1>6, <2>3, <2>6, Zenon DEF Nothing, KeyCall
  <2> QED
    BY <1>4, <2>7, Zenon DEF Goes, Does, v, w
<1> QED
  BY <1>5, <1>6, Zenon

\* A Get looks in the table in force.
LEMMA GetGoes ==
    ASSUME NEW n \in Content, NEW o \in Content, NEW p, NEW q,
           Formed(p), Entries(n, o, p), Same(p, q), q.items = p.items,
           p.pc = "apply", p.call = "get",
           IF n[p.key] # None THEN q.pc = "stepping" /\ q.val = n[p.key]
                              ELSE q.pc = "check" /\ q.val = p.val
    PROVE  Goes(n, o, p, n, o, q)
<1> DEFINE v == Seen(n, o, p.items)
<1>1. /\ p.key \in Key /\ p.pc \in Early /\ q.pc \notin Early /\ p.pc \notin Between
      /\ n[p.key] # None => q.pc \notin Between /\ q.pc \in Late
      /\ n[p.key] = None => q.pc \in Between
      /\ q.pc \notin {"move", "swap"}
  BY DEF Formed, Early, Between, Late, Idle
<1>2. Entries(n, o, q)
  BY <1>1, Zenon DEF Entries, Same
<1>3. v[p.key] = Shows(n, o, p.items, p.key)
  BY <1>1, SeenAt, Zenon
<1> HIDE DEF v
<1>4. ~Answered(v, p) /\ (Answered(v, q) <=> n[p.key] # None)
  BY <1>1, Zenon DEF Answered, Same
<1>5. n[p.key] # None => Read(v, p, v, q)
  BY <1>3, <1>4, Zenon DEF Read, Shows
<1>6. n[p.key] = None => Nothing(v, p, v, q)
  BY <1>4, Zenon DEF Nothing, KeyCall
<1> QED
  BY <1>2, <1>5, <1>6, Zenon DEF Goes, Does, v

\* A call that finds no migration under way goes on to its Step.
LEMMA LeaveGoes ==
    ASSUME NEW n \in Content, NEW o \in Content, NEW p, NEW q,
           Formed(p), Entries(n, o, p), Same(p, q), q.val = p.val, q.items = p.items,
           p.pc \in Between, q.pc \in Late, q.pc # "move", \A k \in Key : o[k] = None
    PROVE  Goes(n, o, p, n, o, q)
<1> DEFINE v == Seen(n, o, p.items)
<1>1. /\ p.key \in Key /\ p.pc \notin Early /\ q.pc \notin Early /\ q.pc \notin Between
      /\ q.pc # "swap" /\ p.pc # "swap" /\ p.pc # "move" /\ p.call \in KeyCall
  BY DEF Formed, Early, Between, Late, Idle
<1>2. Entries(n, o, q)
  BY <1>1, Zenon DEF Entries, Same, KeyCall
<1>3. v[p.key] = Shows(n, o, p.items, p.key)
  BY <1>1, SeenAt, Zenon
<1>4. p.call # "set" => v[p.key] = None
  BY <1>1, <1>3, Zenon DEF Shows, Entries
<1> HIDE DEF v
<1>5. CASE p.call = "get"
  <2>1. Read(v, p, v, q)
    BY <1>1, <1>4, <1>5, Zenon DEF Read, Answered, Entries, Same
  <2> QED
    BY <1>2, <2>1, Zenon DEF Goes, Does, v
<1>6. CASE p.call # "get"
  <2>1. Nothing(v, p, v, q)
    BY <1>1, <1>4, <1>6, Zenon DEF Nothing, Answered, Same
  <2> QED
    BY <1>2, <2>1, Zenon DEF Goes, Does, v
<1> QED
  BY <1>5, <1>6, Zenon

\* A Set and a Del remove the old copy.
LEMMA OldDelGoes ==
    ASSUME NEW n \in Content, NEW o \in Content, NEW u, NEW p, NEW q,
           Formed(p), Entries(n, o, p), Same(p, q), q.val = p.val, q.items = p.items,
           p.pc \in Between, q.pc \in Late, q.pc # "move", p.call \in {"set", "del"},
           \A k \in Key : u[k] = IF k = p.key THEN None ELSE o[k]
    PROVE  Goes(n, o, p, n, u, q)
<1> DEFINE v == Seen(n, o, p.items)
           w == Seen(n, u, p.items)
<1>1. /\ p.key \in Key /\ p.pc \notin Early /\ q.pc \notin Early /\ q.pc \notin Between
      /\ q.pc # "swap" /\ p.pc # "swap" /\ p.pc # "move" /\ p.call \in KeyCall
  BY DEF Formed, Early, Between, Late, Idle, KeyCall
<1>2. \A k \in Key : u[k] = IF k = p.key THEN None ELSE o[k]
  BY Zenon
<1>3. \A k \in Key : p.items[k] = None
  BY <1>1, Zenon DEF Entries
<1>4. Entries(n, u, q)
  BY <1>1, <1>2, Zenon DEF Entries, Same
<1>5. /\ v[p.key] = Shows(n, o, p.items, p.key) /\ w[p.key] = Shows(n, u, p.items, p.key)
  BY <1>1, SeenAt
<1>6. CASE p.call = "set" \/ o[p.key] = None
  <2>1. \A k \in Key : Shows(n, u, p.items, k) = Shows(n, o, p.items, k)
    BY <1>1, <1>2, <1>6, Zenon DEF Entries, Shows
  <2>2. w = v
    BY <2>1, SeenSame
  <2>3. p.call = "del" => v[p.key] = None
    BY <1>1, <1>3, <1>5, <1>6, Zenon DEF Entries, Shows
  <2> HIDE DEF v, w
  <2>4. Nothing(v, p, w, q)
    BY <1>1, <2>2, <2>3, Zenon DEF Nothing, Answered, Same
  <2> QED
    BY <1>4, <2>4, Zenon DEF Goes, Does, v, w
<1>7. CASE p.call = "del" /\ o[p.key] # None
  <2>1. n[p.key] = None /\ p.val = None
    BY <1>1, <1>7, Zenon DEF Entries
  <2>2. \A k \in Key : Shows(n, u, p.items, k)
                         = IF k = p.key THEN None ELSE Shows(n, o, p.items, k)
    BY <1>2, <1>3, <2>1, Zenon DEF Shows
  <2>3. Updated(w, v, p.key, p.val)
    <3>1. Puts(n, o, p.items, n, u, p.items, p.key, p.val)
      BY <2>1, <2>2, Zenon DEF Puts
    <3> QED
      BY <1>1, <3>1, SeenStored, Zenon
  <2>4. v[p.key] # None /\ w[p.key] = None
    BY <1>1, <1>2, <1>3, <1>5, <1>7, <2>1, Zenon DEF Shows
  <2> HIDE DEF v, w
  <2>5. Written(v, p, w, q)
    BY <1>1, <1>7, <2>3, <2>4, Zenon DEF Written, Answered, Same
  <2> QED
    BY <1>4, <2>5, Zenon DEF Goes, Does, v, w
<1> QED
  BY <1>6, <1>7, Zenon

\* A Get looks in the table that is left.
LEMMA OldGetGoes ==
    ASSUME NEW n \in Content, NEW o \in Content, NEW p, NEW q,
           Formed(p), Entries(n, o, p), Same(p, q), q.val = o[p.key], q.items = p.items,
           p.pc \in Between, q.pc \in Late, q.pc # "move", p.call = "get"
    PROVE  Goes(n, o, p, n, o, q)
<1> DEFINE v == Seen(n, o, p.items)
<1>1. /\ p.key \in Key /\ p.pc \notin Early /\ q.pc \notin Early /\ q.pc \notin Between
      /\ q.pc # "swap" /\ p.pc # "swap" /\ p.pc # "move"
  BY DEF Formed, Early, Between, Late, Idle
<1>2. Entries(n, o, q)
  BY <1>1, Zenon DEF Entries, Same
<1>3. v[p.key] = Shows(n, o, p.items, p.key)
  BY <1>1, SeenAt, Zenon
<1>4. v[p.key] = o[p.key]
  BY <1>1, <1>3, Zenon DEF Shows, Entries
<1> HIDE DEF v
<1>5. Read(v, p, v, q)
  BY <1>1, <1>4, Zenon DEF Read, Answered, Same
<1> QED
  BY <1>2, <1>5, Zenon DEF Goes, Does, v

\* A call returns, from its Step or because no migration is under way.
LEMMA ReturnGoes ==
    ASSUME NEW n \in Content, NEW o \in Content, NEW p,
           Formed(p), Entries(n, o, p), p.pc # "move",
           \/ p.pc \in Late
           \/ p.pc \in Between /\ p.call # "get" /\ \A k \in Key : o[k] = None
    PROVE  Goes(n, o, p, n, o, Idle)
<1> DEFINE v == Seen(n, o, p.items)
           w == Seen(n, o, Idle.items)
<1>1. /\ p.key \in Key /\ p.pc \notin Early /\ p.pc # "swap" /\ p.call \in KeyCall
      /\ p.pc \in Late => p.pc \notin Between
  BY DEF Formed, Early, Between, Late, Idle
<1>2. /\ Idle.pc = "idle" /\ Idle.call = "none" /\ \A k \in Key : Idle.items[k] = None
  BY Zenon DEF Idle, NoEntries
<1>3. /\ Idle.pc \notin Early \cup Between \cup Late /\ Idle.call \notin KeyCall
  BY <1>2, Zenon DEF Early, Between, Late, KeyCall
<1>4. \A k \in Key : p.items[k] = None /\ (n[k] = None \/ o[k] = None)
  BY <1>1, Zenon DEF Entries
<1>5. Entries(n, o, Idle)
  BY <1>2, <1>3, <1>4, Zenon DEF Entries
<1>6. \A k \in Key : Shows(n, o, Idle.items, k) = Shows(n, o, p.items, k)
  BY <1>2, <1>4, Zenon DEF Shows
<1>7. w = v
  BY <1>6, SeenSame
<1>8. v[p.key] = Shows(n, o, p.items, p.key)
  BY <1>1, SeenAt, Zenon
<1>9. p.call = "del" => v[p.key] = None
  BY <1>1, <1>4, <1>8, Zenon DEF Shows, Entries
<1> HIDE DEF v, w
<1>10. Returned(v, p, w, Idle)
  BY <1>1, <1>3, <1>7, <1>9, Zenon DEF Returned, Answered
<1> QED
  BY <1>5, <1>10, Zenon DEF Goes, Does, v, w

\* A Step takes entries from the table that is left.
LEMMA ExtractGoes ==
    ASSUME NEW n \in Content, NEW o \in Content, NEW u, NEW p, NEW q, NEW out \in SUBSET Key,
           Formed(p), Entries(n, o, p), Same(p, q), q.val = p.val,
           p.pc = "extract", q.pc \in Late, q.pc # "move" => out = {},
           \A k \in out : o[k] # None,
           \A k \in Key : u[k] = IF k \in out THEN None ELSE o[k],
           \A k \in Key : q.items[k] = IF k \in out THEN o[k] ELSE None
    PROVE  Goes(n, o, p, n, u, q)
<1> DEFINE v == Seen(n, o, p.items)
           w == Seen(n, u, q.items)
<1>1. /\ p.key \in Key /\ p.call \in KeyCall
      /\ p.pc \in Late /\ p.pc \notin Early /\ q.pc \notin Early /\ q.pc \notin Between
      /\ q.pc # "swap" /\ p.pc # "swap" /\ p.pc # "move" /\ p.pc \notin Between
  BY DEF Formed, Early, Between, Late, Idle, KeyCall
<1>2. \A k \in Key : p.items[k] = None /\ (n[k] = None \/ o[k] = None)
  BY <1>1, Zenon DEF Entries
<1>3. Entries(n, u, q)
  BY <1>1, <1>2, Zenon DEF Entries, Same
<1>4. \A k \in Key : Shows(n, u, q.items, k) = Shows(n, o, p.items, k)
  BY <1>2, Zenon DEF Shows
<1>5. w = v
  BY <1>4, SeenSame
<1> HIDE DEF v, w
<1>6. Nothing(v, p, w, q)
  BY <1>1, <1>5, Zenon DEF Nothing, Answered, Same
<1> QED
  BY <1>3, <1>6, Zenon DEF Goes, Does, v, w

\* A Step stores an item in the table in force.
LEMMA MoveGoes ==
    ASSUME NEW n \in Content, NEW o \in Content, NEW m, NEW p, NEW q, NEW key \in Key,
           Formed(p), Entries(n, o, p), Same(p, q), q.val = p.val,
           p.pc = "move", p.items[key] # None, q.pc \in Late,
           q.pc # "move" => \A k \in Key : q.items[k] = None,
           \A k \in Key : /\ m[k] = IF k = key THEN p.items[key] ELSE n[k]
                          /\ q.items[k] = IF k = key THEN None ELSE p.items[k]
    PROVE  Goes(n, o, p, m, o, q)
<1> DEFINE v == Seen(n, o, p.items)
           w == Seen(m, o, q.items)
<1>1. /\ p.key \in Key /\ p.call \in KeyCall /\ p.items \in Content
      /\ p.pc \in Late /\ p.pc \notin Early /\ q.pc \notin Early /\ q.pc \notin Between
      /\ q.pc # "swap" /\ p.pc # "swap" /\ p.pc \notin Between
  BY DEF Formed, Early, Between, Late, Idle, KeyCall, Proc
<1>2. \A k \in Key : /\ m[k] = IF k = key THEN p.items[key] ELSE n[k]
                     /\ q.items[k] = IF k = key THEN None ELSE p.items[k]
  BY Zenon
<1>3. n[key] = None /\ o[key] = None
  BY Zenon DEF Entries
<1>4. Entries(m, o, q)
  BY <1>1, <1>2, <1>3, Zenon DEF Entries, Same
<1>5. \A k \in Key : Shows(m, o, q.items, k) = Shows(n, o, p.items, k)
  BY <1>2, <1>3, Zenon DEF Shows
<1>6. w = v
  BY <1>5, SeenSame
<1> HIDE DEF v, w
<1>7. Nothing(v, p, w, q)
  BY <1>1, <1>6, Zenon DEF Nothing, Answered, Same
<1> QED
  BY <1>4, <1>7, Zenon DEF Goes, Does, v, w

\* Resize hands the table in force to the rehasher.
LEMMA ResizeGoes ==
    ASSUME NEW n \in Content, NEW o \in Content, NEW q, Entries(n, o, Idle),
           \A k \in Key : o[k] = None, q.pc = "swap", q.call = "resize", q.items = NoEntries
    PROVE  Goes(n, o, Idle, n, n, q)
<1> DEFINE v == Seen(n, o, Idle.items)
           w == Seen(n, n, q.items)
<1>1. /\ Idle.items = NoEntries /\ Idle.call \notin KeyCall /\ q.call \notin KeyCall
      /\ \A k \in Key : NoEntries[k] = None
      /\ q.pc \notin Early \cup Between \cup Late
  BY Zenon DEF Idle, NoEntries, KeyCall, Early, Between, Late
<1>2. Entries(n, n, q)
  BY <1>1, Zenon DEF Entries
<1>3. \A k \in Key : Shows(n, n, q.items, k) = Shows(n, o, Idle.items, k)
  BY <1>1, Zenon DEF Shows
<1>4. w = v
  BY <1>3, SeenSame
<1> HIDE DEF v, w
<1>5. Nothing(v, Idle, w, q)
  BY <1>1, <1>4, Zenon DEF Nothing
<1> QED
  BY <1>2, <1>5, Zenon DEF Goes, Does, v, w

\* Resize stores an empty table.
LEMMA StoreGoes ==
    ASSUME NEW n \in Content, NEW o \in Content, NEW p, Entries(n, o, p), p.pc = "swap",
           p.call = "resize"
    PROVE  Goes(n, o, p, NoEntries, o, Idle)
<1> DEFINE v == Seen(n, o, p.items)
           w == Seen(NoEntries, o, Idle.items)
<1>1. /\ Idle.pc = "idle" /\ Idle.call = "none" /\ Idle.items = NoEntries
      /\ \A k \in Key : NoEntries[k] = None
  BY Zenon DEF Idle, NoEntries
<1>2. /\ Idle.pc \notin Early \cup Between \cup Late /\ Idle.call \notin KeyCall
      /\ p.call \notin KeyCall
  BY <1>1, Zenon DEF Early, Between, Late, KeyCall
<1>3. o = n /\ \A k \in Key : p.items[k] = None
  BY Zenon DEF Entries
<1>4. Entries(NoEntries, o, Idle)
  BY <1>1, <1>2, Zenon DEF Entries
<1>5. \A k \in Key : Shows(NoEntries, o, Idle.items, k) = Shows(n, o, p.items, k)
  BY <1>1, <1>3, Zenon DEF Shows
<1>6. w = v
  BY <1>5, SeenSame
<1> HIDE DEF v, w
<1>7. Nothing(v, p, w, Idle)
  BY <1>2, <1>6, Zenon DEF Nothing
<1> QED
  BY <1>4, <1>7, Zenon DEF Goes, Does, v, w

-----------------------------------------------------------------------------
(* The tables that one caller works on *)

Size(ts, t) == Cardinality(DOMAIN ts[t])

\* The entry of a key in one of the tables ts.
Stored(ts, t, k) == ts[t][Index(k, Size(ts, t))][k]

\* The entries of the table in force, and of the one that is left.
Cur(ts, cur) == [k \in Key |-> Stored(ts, cur, k)]
Rest(ts, r) == [k \in Key |-> IF r.rehashing THEN Stored(ts, r.old, k) ELSE None]

\* An entry is in the shard of its key.
Placed(ts) ==
    \A t \in 1 .. Len(ts) : \A i \in DOMAIN ts[t] : \A k \in Key :
        ts[t][i][k] # None => i = Index(k, Size(ts, t))

\* A table has an entry, or none, for each key.
LEMMA StoredType ==
    ASSUME NEW ts \in Seq(Shards), NEW t \in 1 .. Len(ts)
    PROVE  /\ Size(ts, t) \in Nat \ {0} /\ DOMAIN ts[t] = 0 .. Size(ts, t) - 1
           /\ \A k \in Key : /\ Index(k, Size(ts, t)) \in DOMAIN ts[t]
                             /\ Index(k, Size(ts, t)) \in 0 .. Size(ts, t) - 1
                             /\ Stored(ts, t, k) \in Value \cup {None}
<1>1. ts[t] \in Shards
  OBVIOUS
<1>2. PICK n \in Nat \ {0} : ts[t] \in [0 .. n - 1 -> Content] /\ DOMAIN ts[t] = 0 .. n - 1
                             /\ Cardinality(DOMAIN ts[t]) = n
  BY <1>1, ShardsOf, Zenon
<1>3. Size(ts, t) = n
  BY <1>2, Zenon DEF Size
<1>4. \A k \in Key : Index(k, n) \in 0 .. n - 1
  BY CacheAssumption DEF Index
<1>5. \A i \in 0 .. n - 1 : \A k \in Key : ts[t][i][k] \in Value \cup {None}
  BY <1>2, Zenon DEF Content
<1> QED
  BY <1>2, <1>3, <1>4, <1>5, Zenon DEF Stored

\* So have the table in force and the one that is left.
LEMMA CurType ==
    ASSUME NEW ts \in Seq(Shards), NEW cur \in 1 .. Len(ts), NEW r, GoodRehasher(r, ts)
    PROVE  Cur(ts, cur) \in Content /\ Rest(ts, r) \in Content
<1>1. \A k \in Key : Stored(ts, cur, k) \in Value \cup {None}
  BY StoredType, Zenon
<1>2. r.rehashing => r.old \in 1 .. Len(ts)
  BY Zenon DEF GoodRehasher, Within
<1>3. r.rehashing => \A k \in Key : Stored(ts, r.old, k) \in Value \cup {None}
  BY <1>2, StoredType, Zenon
<1> QED
  BY <1>1, <1>3, Zenon DEF Cur, Rest, Content

\* Table t has the value val for the key, or no longer the keys in out.
EntryAt(us, ts, t, key, val) ==
    \A x \in 1 .. Len(ts) :
        /\ Size(us, x) = Size(ts, x)
        /\ \A k \in Key : Stored(us, x, k) = IF x = t /\ k = key THEN val ELSE Stored(ts, x, k)
EntriesOut(us, ts, t, out) ==
    \A x \in 1 .. Len(ts) :
        /\ Size(us, x) = Size(ts, x)
        /\ \A k \in Key : Stored(us, x, k) = IF x = t /\ k \in out THEN None ELSE Stored(ts, x, k)

\* The keys in out belong to the shard i of table t, whose entries are c.
OfShard(ts, t, i, c, out) ==
    /\ \A k \in Key : Index(k, Size(ts, t)) = i => Stored(ts, t, k) = c[k]
    /\ \A k \in out : Index(k, Size(ts, t)) = i

\* One entry is stored in the shard of its key.
LEMMA EntryPut ==
    ASSUME NEW ts \in Seq(Shards), NEW us, NEW t \in 1 .. Len(ts), NEW key \in Key,
           NEW val \in Value \cup {None},
           StoredEntry(us, ts, t, Index(key, Size(ts, t)), key, val), Placed(ts)
    PROVE  SameSize(us, ts) /\ Placed(us) /\ EntryAt(us, ts, t, key, val)
<1> DEFINE i == Index(key, Size(ts, t))
<1>1. SameSize(us, ts) /\ OtherEntry(us, ts, t, i, key, val)
  <2> HIDE DEF i
  <2>1. StoredEntry(us, ts, t, i, key, val)
    BY Zenon DEF i
  <2> QED
    BY <2>1, EntryStored, Zenon
<1>2. Len(us) = Len(ts) /\ \A x \in 1 .. Len(ts) : DOMAIN us[x] = DOMAIN ts[x] /\ Size(us, x) = Size(ts, x)
  BY <1>1, Zenon DEF SameSize, Size
<1>3. \A x \in 1 .. Len(ts) : \A k \in Key : Index(k, Size(ts, x)) \in DOMAIN ts[x]
  BY StoredType, Zenon
<1>4. \A x \in 1 .. Len(ts) : \A k \in Key :
          Stored(us, x, k) = IF x = t /\ k = key THEN val ELSE Stored(ts, x, k)
  <2> SUFFICES ASSUME NEW x \in 1 .. Len(ts), NEW k \in Key
               PROVE  Stored(us, x, k) = IF x = t /\ k = key THEN val ELSE Stored(ts, x, k)
    BY Zenon
  <2> DEFINE j == Index(k, Size(ts, x))
  <2>1. us[x][j][k] = IF x = t /\ j = i /\ k = key THEN val ELSE ts[x][j][k]
    BY <1>1, <1>3, Zenon DEF OtherEntry
  <2>2. x = t /\ k = key => j = i
    BY Zenon
  <2>3. Stored(us, x, k) = us[x][j][k] /\ Stored(ts, x, k) = ts[x][j][k]
    <3>1. Size(us, x) = Size(ts, x)
      BY <1>2, Zenon
    <3> QED
      BY <3>1, Zenon DEF Stored
  <2> HIDE DEF i, j
  <2> QED
    BY <2>1, <2>2, <2>3, Zenon
<1>5. Placed(us)
  <2> SUFFICES ASSUME NEW x \in 1 .. Len(ts), NEW j \in DOMAIN ts[x], NEW k \in Key,
                      us[x][j][k] # None
               PROVE  j = Index(k, Size(ts, x))
    BY <1>2 DEF Placed
  <2>1. us[x][j][k] = IF x = t /\ j = i /\ k = key THEN val ELSE ts[x][j][k]
    BY <1>1, Zenon DEF OtherEntry
  <2>2. CASE x = t /\ j = i /\ k = key
    BY <2>2, Zenon
  <2>3. CASE ~(x = t /\ j = i /\ k = key)
    <3>1. ts[x][j][k] # None
      BY <2>1, <2>3, Zenon
    <3> QED
      BY <3>1, Zenon DEF Placed
  <2> QED
    BY <2>2, <2>3, Zenon
<1> QED
  BY <1>1, <1>2, <1>4, <1>5, Zenon DEF EntryAt

\* Entries are taken from one shard.
LEMMA ShardTaken ==
    ASSUME NEW ts \in Seq(Shards), NEW us, NEW t \in 1 .. Len(ts), NEW i \in DOMAIN ts[t],
           NEW out \in SUBSET Key, SameSize(us, ts), OtherShard(us, ts, t, i, Left(ts[t][i], out)),
           \A k \in out : ts[t][i][k] # None, Placed(ts)
    PROVE  Placed(us) /\ EntriesOut(us, ts, t, out) /\ OfShard(ts, t, i, ts[t][i], out)
<1>1. Len(us) = Len(ts) /\ \A x \in 1 .. Len(ts) : DOMAIN us[x] = DOMAIN ts[x] /\ Size(us, x) = Size(ts, x)
  BY Zenon DEF SameSize, Size
<1>2. \A x \in 1 .. Len(ts) : \A k \in Key : Index(k, Size(ts, x)) \in DOMAIN ts[x]
  BY StoredType, Zenon
<1>3. \A k \in out : Index(k, Size(ts, t)) = i
  BY Zenon DEF Placed
<1>4. \A x \in 1 .. Len(ts) : \A j \in DOMAIN ts[x] : \A k \in Key :
          us[x][j][k] = IF x = t /\ j = i /\ k \in out THEN None ELSE ts[x][j][k]
  <2> SUFFICES ASSUME NEW x \in 1 .. Len(ts), NEW j \in DOMAIN ts[x], NEW k \in Key
               PROVE  us[x][j][k] = IF x = t /\ j = i /\ k \in out THEN None ELSE ts[x][j][k]
    BY Zenon
  <2>1. CASE x # t
    BY <2>1, Zenon DEF OtherShard
  <2>2. CASE x = t /\ j # i
    BY <2>2, Zenon DEF OtherShard
  <2>3. CASE x = t /\ j = i
    <3>1. us[t][i] = Left(ts[t][i], out)
      BY Zenon DEF OtherShard
    <3>2. us[t][i][k] = IF k \in out THEN None ELSE ts[t][i][k]
      BY <3>1, Zenon DEF Left
    <3> QED
      BY <2>3, <3>2, Zenon
  <2> QED
    BY <2>1, <2>2, <2>3, Zenon
<1>5. \A x \in 1 .. Len(ts) : \A k \in Key :
          Stored(us, x, k) = IF x = t /\ k \in out THEN None ELSE Stored(ts, x, k)
  <2> SUFFICES ASSUME NEW x \in 1 .. Len(ts), NEW k \in Key
               PROVE  Stored(us, x, k) = IF x = t /\ k \in out THEN None ELSE Stored(ts, x, k)
    BY Zenon
  <2> DEFINE j == Index(k, Size(ts, x))
  <2>1. us[x][j][k] = IF x = t /\ j = i /\ k \in out THEN None ELSE ts[x][j][k]
    BY <1>2, <1>4, Zenon
  <2>2. x = t /\ k \in out => j = i
    BY <1>3, Zenon
  <2>3. Stored(us, x, k) = us[x][j][k] /\ Stored(ts, x, k) = ts[x][j][k]
    <3>1. Size(us, x) = Size(ts, x)
      BY <1>1, Zenon
    <3> QED
      BY <3>1, Zenon DEF Stored
  <2> HIDE DEF j
  <2> QED
    BY <2>1, <2>2, <2>3, Zenon
<1>6. Placed(us)
  <2> SUFFICES ASSUME NEW x \in 1 .. Len(ts), NEW j \in DOMAIN ts[x], NEW k \in Key,
                      us[x][j][k] # None
               PROVE  j = Index(k, Size(ts, x))
    BY <1>1 DEF Placed
  <2>1. ts[x][j][k] # None
    BY <1>4, Zenon
  <2> QED
    BY <2>1, Zenon DEF Placed
<1>7. \A k \in Key : Index(k, Size(ts, t)) = i => Stored(ts, t, k) = ts[t][i][k]
  BY Zenon DEF Stored
<1> QED
  BY <1>1, <1>3, <1>5, <1>6, <1>7, Zenon DEF EntriesOut, OfShard

Taking == {"extract", "move", "end"}

\* Where a lone caller is: at the table in force, and with the migration under way.
Settled(p, r, cur, ts) ==
    /\ cur = Len(ts)
    /\ r.name # "noop"
    /\ IF p.pc = "swap" THEN r.rehashing /\ r.old = cur ELSE r.rehashing => r.old # cur
    /\ p.pc \in {"apply"} \cup Stepping => p.table = cur
    /\ p.pc \in {"oldApply"} \cup Taking => r.rehashing /\ p.old = r.old
    /\ p.pc = "oldApply" => p.idx = Index(p.key, Size(ts, r.old))
    /\ p.pc \in Taking => p.name = r.name /\ p.gen = r.gen /\ (p.name # "batch" => p.idx = r.idx)
    /\ p.pc = "move" => p.moved

\* The shard x of the table that is left has been emptied.
Behind(p, r, x) ==
    \/ x < r.idx
    \/ p.pc = "end" /\ p.name # "batch" /\ ~p.moved /\ x = p.idx
    \/ p.pc \in {"extract", "move"} /\ p.name = "batch" /\ x < p.idx
    \/ p.pc = "end" /\ p.name = "batch"

\* So nothing is in it.
Cleared(p, r, ts) ==
    r.rehashing => \A k \in Key : Behind(p, r, Index(k, Size(ts, r.old))) => Stored(ts, r.old, k) = None

(* The invariant of a lone caller.                                           *)
AloneInv(g) ==
    /\ ~closed
    /\ Formed(proc[g])
    /\ Entries(Cur(tables, current), Rest(tables, rehasher), proc[g])
    /\ Settled(proc[g], rehasher, current, tables)
    /\ Placed(tables)
    /\ Cleared(proc[g], rehasher, tables)

\* The map that a lone caller sees.
LEMMA ViewIs ==
    ASSUME NEW g, Goroutine = {g}, Types, Sound, current # 0
    PROVE  View = Seen(Cur(tables, current), Rest(tables, rehasher), proc[g].items)
<1>1. rehasher.rehashing => rehasher.old # 0
  BY DEF Sound, GoodRehasher, Within
<1>2. \A k \in Key : New(k) = Cur(tables, current)[k] /\ Old(k) = Rest(tables, rehasher)[k]
  BY <1>1, Zenon DEF New, Old, Lookup, Count, Cur, Rest, Stored, Size
<1>3. \A k \in Key : InFlight(k) = {proc[g].items[k]} \ {None}
  BY Zenon DEF InFlight
<1>4. \A k \in Key : (IF InFlight(k) = {} THEN None ELSE CHOOSE v \in InFlight(k) : TRUE) = proc[g].items[k]
  <2> SUFFICES ASSUME NEW k \in Key
               PROVE  (IF InFlight(k) = {} THEN None ELSE CHOOSE v \in InFlight(k) : TRUE) = proc[g].items[k]
    BY Zenon
  <2>1. CASE proc[g].items[k] = None
    <3>1. InFlight(k) = {}
      BY <1>3, <2>1, Zenon
    <3> QED
      BY <2>1, <3>1, Zenon
  <2>2. CASE proc[g].items[k] # None
    <3>1. InFlight(k) = {proc[g].items[k]} /\ InFlight(k) # {}
      BY <1>3, <2>2, Zenon
    <3>2. (CHOOSE v \in InFlight(k) : TRUE) \in InFlight(k)
      BY <3>1, Zenon
    <3> QED
      BY <3>1, <3>2, Zenon
  <2> QED
    BY <2>1, <2>2, Zenon
<1> QED
  BY <1>2, <1>4, Zenon DEF View, Seen

\* The same after a step.
LEMMA ViewNext ==
    ASSUME NEW g, Goroutine = {g}, Types', Sound', current' # 0
    PROVE  View' = Seen(Cur(tables', current'), Rest(tables', rehasher'), proc'[g].items)
<1>1. rehasher'.rehashing => rehasher'.old # 0
  BY DEF Sound, GoodRehasher, Within
<1>2. \A k \in Key : New(k)' = Cur(tables', current')[k] /\ Old(k)' = Rest(tables', rehasher')[k]
  BY <1>1, Zenon DEF New, Old, Lookup, Count, Cur, Rest, Stored, Size
<1>3. \A k \in Key : InFlight(k)' = {proc'[g].items[k]} \ {None}
  BY Zenon DEF InFlight
<1>4. \A k \in Key : (IF InFlight(k)' = {} THEN None ELSE CHOOSE v \in InFlight(k)' : TRUE) = proc'[g].items[k]
  <2> SUFFICES ASSUME NEW k \in Key
               PROVE  (IF InFlight(k)' = {} THEN None ELSE CHOOSE v \in InFlight(k)' : TRUE) = proc'[g].items[k]
    BY Zenon
  <2>1. CASE proc'[g].items[k] = None
    <3>1. InFlight(k)' = {}
      BY <1>3, <2>1, Zenon
    <3> QED
      BY <2>1, <3>1, Zenon
  <2>2. CASE proc'[g].items[k] # None
    <3>1. InFlight(k)' = {proc'[g].items[k]} /\ InFlight(k)' # {}
      BY <1>3, <2>2, Zenon
    <3>2. (CHOOSE v \in InFlight(k)' : TRUE) \in InFlight(k)'
      BY <3>1, Zenon
    <3> QED
      BY <3>1, <3>2, Zenon
  <2> QED
    BY <2>1, <2>2, Zenon
<1> QED
  BY <1>2, <1>4, Zenon DEF View, Seen

\* What is to be shown of each step.
Refined(g) == AloneInv(g)' /\ Does(View, proc[g], View', proc'[g])

\* It follows from what the step does to the entries and to the caller.
LEMMA Concludes ==
    ASSUME NEW g, Goroutine = {g}, Types, Sound, Types', Sound', AloneInv(g), ~closed',
           Formed(proc'[g]),
           Goes(Cur(tables, current), Rest(tables, rehasher), proc[g],
                Cur(tables', current'), Rest(tables', rehasher'), proc'[g]),
           Settled(proc'[g], rehasher', current', tables'), Placed(tables'),
           Cleared(proc'[g], rehasher', tables')
    PROVE  Refined(g)
<1>1. current # 0 /\ current' # 0
  BY Zenon DEF Sound, AloneInv
<1>2. View = Seen(Cur(tables, current), Rest(tables, rehasher), proc[g].items)
  BY <1>1, ViewIs, Zenon
<1>3. View' = Seen(Cur(tables', current'), Rest(tables', rehasher'), proc'[g].items)
  BY <1>1, ViewNext, Zenon
<1>4. Entries(Cur(tables', current'), Rest(tables', rehasher'), proc'[g])
  BY Zenon DEF Goes
<1>5. AloneInv(g)'
  BY <1>4, Zenon DEF AloneInv
<1>6. Does(View, proc[g], View', proc'[g])
  BY <1>2, <1>3, Zenon DEF Goes
<1> QED
  BY <1>5, <1>6, Zenon DEF Refined

\* Places that say nothing of the tables.
Plain == {"idle", "load", "check", "old", "stepping", "table"}

\* A step that leaves the tables and the rehasher alone.
LEMMA LocalRefines ==
    ASSUME NEW g, Goroutine = {g}, Types, Sound, Types', Sound', AloneInv(g),
           UNCHANGED <<tables, current, rehasher, closed>>, Formed(proc'[g]),
           Goes(Cur(tables, current), Rest(tables, rehasher), proc[g],
                Cur(tables, current), Rest(tables, rehasher), proc'[g]),
           Settled(proc'[g], rehasher, current, tables),
           \A x \in Nat : Behind(proc'[g], rehasher, x) => x < rehasher.idx
    PROVE  Refined(g)
<1>1. tables' = tables /\ current' = current /\ rehasher' = rehasher /\ ~closed'
  BY Zenon DEF AloneInv
<1>2. /\ Placed(tables) /\ Cleared(proc[g], rehasher, tables)
      /\ tables \in Seq(Shards) /\ GoodRehasher(rehasher, tables)
  BY Zenon DEF AloneInv, Types, Sound
<1>3. Cleared(proc'[g], rehasher, tables)
  <2> SUFFICES ASSUME rehasher.rehashing, NEW k \in Key,
                      Behind(proc'[g], rehasher, Index(k, Size(tables, rehasher.old)))
               PROVE  Stored(tables, rehasher.old, k) = None
    BY Zenon DEF Cleared
  <2> DEFINE x == Index(k, Size(tables, rehasher.old))
  <2>1. rehasher.old \in 1 .. Len(tables)
    BY <1>2, Zenon DEF GoodRehasher, Within
  <2>2. x \in 0 .. Size(tables, rehasher.old) - 1 /\ Size(tables, rehasher.old) \in Nat
    BY <1>2, <2>1, StoredType, Zenon
  <2>3. x \in Nat
    BY <2>2
  <2>4. x < rehasher.idx
    BY <2>3, Zenon
  <2>5. Behind(proc[g], rehasher, x)
    BY <2>4, Zenon DEF Behind
  <2> QED
    BY <1>2, <2>5, Zenon DEF Cleared
<1>4. /\ Goes(Cur(tables, current), Rest(tables, rehasher), proc[g],
              Cur(tables', current'), Rest(tables', rehasher'), proc'[g])
      /\ Settled(proc'[g], rehasher', current', tables') /\ Placed(tables')
      /\ Cleared(proc'[g], rehasher', tables')
  BY <1>1, <1>2, <1>3, Zenon
<1> QED
  BY <1>1, <1>4, Concludes, Zenon

\* The same when the caller comes to a plain place.
LEMMA PlainRefines ==
    ASSUME NEW g, Goroutine = {g}, Types, Sound, Types', Sound', AloneInv(g),
           UNCHANGED <<tables, current, rehasher, closed>>, Formed(proc'[g]),
           Goes(Cur(tables, current), Rest(tables, rehasher), proc[g],
                Cur(tables, current), Rest(tables, rehasher), proc'[g]),
           proc[g].pc # "swap", proc'[g].pc \in Plain
    PROVE  Refined(g)
<1> DEFINE p == proc[g]
           q == proc'[g]
<1>1. Settled(p, rehasher, current, tables)
  BY Zenon DEF AloneInv
<1>2. Settled(q, rehasher, current, tables)
  BY <1>1, Zenon DEF Settled, Plain, Stepping, Taking
<1>3. \A x \in Nat : Behind(q, rehasher, x) => x < rehasher.idx
  BY Zenon DEF Behind, Plain
<1> QED
  BY <1>2, <1>3, LocalRefines, Zenon

\* One goroutine, before a step that keeps the types.
Lone(g) == Goroutine = {g} /\ Types /\ Sound /\ Types' /\ Sound' /\ AloneInv(g)

\* What is known of it.
LEMMA LoneFacts ==
    ASSUME NEW g, Lone(g)
    PROVE  /\ g \in Goroutine /\ ~closed /\ rehasher \in Rehasher
           /\ proc \in [Goroutine -> Proc] /\ proc[g] \in Proc /\ proc'[g] \in Proc
           /\ Formed(proc[g]) /\ Entries(Cur(tables, current), Rest(tables, rehasher), proc[g])
           /\ Settled(proc[g], rehasher, current, tables)
           /\ Placed(tables) /\ Cleared(proc[g], rehasher, tables)
           /\ Cur(tables, current) \in Content /\ Rest(tables, rehasher) \in Content
           /\ tables \in Seq(Shards) /\ current \in 1 .. Len(tables) /\ current # 0
           /\ GoodRehasher(rehasher, tables)
           /\ rehasher.rehashing => rehasher.old \in 1 .. Len(tables)
<1>1. g \in Goroutine /\ Types /\ Sound /\ Types' /\ AloneInv(g)
  BY Zenon DEF Lone
<1>2. /\ proc \in [Goroutine -> Proc] /\ proc' \in [Goroutine -> Proc]
      /\ tables \in Seq(Shards) /\ rehasher \in Rehasher /\ GoodRehasher(rehasher, tables)
      /\ ~closed /\ current # 0 /\ current \in 0 .. Len(tables)
  BY <1>1, Zenon DEF Types, Sound, AloneInv
<1>3. current \in 1 .. Len(tables)
  BY <1>2
<1>4. proc[g] \in Proc /\ proc'[g] \in Proc
  BY <1>1, <1>2, Zenon
<1>5. Cur(tables, current) \in Content /\ Rest(tables, rehasher) \in Content
  BY <1>2, <1>3, CurType, Zenon
<1>6. rehasher.rehashing => rehasher.old \in 1 .. Len(tables)
  BY <1>2, Zenon DEF GoodRehasher, Within
<1> QED
  BY <1>1, <1>2, <1>3, <1>4, <1>5, <1>6, Zenon DEF AloneInv

\* A call that goes on is one still.
LEMMA StaysFormed ==
    ASSUME NEW p, NEW q \in Proc, Formed(p), Same(p, q), p.pc \in Early \cup Between \cup Late,
           q.pc \in Early \cup Between \cup Late
    PROVE  Formed(q)
  BY DEF Formed, Same, Early, Between, Late, Idle

\* What is left when no migration is under way.
LEMMA NothingLeft ==
    ASSUME ~rehasher.rehashing
    PROVE  \A k \in Key : Rest(tables, rehasher)[k] = None
  BY Zenon DEF Rest

\* A call begins.
LEMMA CallRefines ==
    ASSUME NEW g, Lone(g), NEW call \in KeyCall, NEW key \in Key, NEW val, Call(g, call, key, val),
           IF call = "set" THEN val \in Value ELSE val = None
    PROVE  Refined(g)
<1> DEFINE p == proc[g]
           q == proc'[g]
           n == Cur(tables, current)
           o == Rest(tables, rehasher)
<1>1. /\ g \in Goroutine /\ proc \in [Goroutine -> Proc] /\ Formed(p) /\ Entries(n, o, p) /\ q \in Proc
  BY LoneFacts, Zenon
<1>2. /\ p.pc = "idle" /\ proc' = [proc EXCEPT ![g].pc = "load", ![g].call = call, ![g].key = key, ![g].val = val]
      /\ UNCHANGED <<tables, current, rehasher, closed>>
  BY Zenon DEF Call, At
<1>3. p = Idle
  BY <1>1, <1>2, Zenon DEF Formed, Early, Between, Late
<1>4. q.pc = "load" /\ q.call = call /\ q.key = key /\ q.val = val /\ q.items = NoEntries
  BY <1>1, <1>2, <1>3 DEF Proc, Idle
<1>5. Goes(n, o, Idle, n, o, q)
  BY <1>1, <1>3, <1>4, CallGoes, Zenon
<1>6. Formed(q)
  BY <1>1, <1>4, Zenon DEF Formed, Early
<1>7. p.pc # "swap" /\ q.pc \in Plain
  BY <1>2, <1>4, Zenon DEF Plain
<1> QED
  BY <1>2, <1>3, <1>5, <1>6, <1>7, PlainRefines, Zenon DEF Lone

\* getShard: the table in force is not the empty one.
LEMMA ShardRefines ==
    ASSUME NEW g, Lone(g), getShard(g)
    PROVE  Refined(g)
<1> DEFINE p == proc[g]
           q == proc'[g]
           n == Cur(tables, current)
           o == Rest(tables, rehasher)
<1>1. /\ g \in Goroutine /\ proc \in [Goroutine -> Proc] /\ Formed(p) /\ Entries(n, o, p) /\ q \in Proc
      /\ current # 0 /\ Settled(p, rehasher, current, tables)
  BY LoneFacts, Zenon
<1>2. /\ p.pc = "load" /\ proc' = [proc EXCEPT ![g].pc = "apply", ![g].table = current]
      /\ UNCHANGED <<tables, current, rehasher, closed>>
  BY <1>1, Zenon DEF getShard, At
<1>3. q.pc = "apply" /\ Same(p, q) /\ q.val = p.val /\ q.items = p.items /\ q.table = current
  BY <1>1, <1>2, Zenon DEF Proc, Same
<1>4. /\ p.pc \in Early \cup Between \cup Late /\ q.pc \in Early \cup Between \cup Late
      /\ p.pc \in Early /\ q.pc \in Early /\ p.pc # "move" /\ q.pc # "move"
  BY <1>2, <1>3, Zenon DEF Early
<1>5. Goes(n, o, p, n, o, q) /\ Formed(q)
  BY <1>1, <1>3, <1>4, SameStage, StaysFormed, Zenon
<1>6. Settled(q, rehasher, current, tables)
  BY <1>1, <1>2, <1>3, Zenon DEF Settled, Stepping, Taking
<1>7. \A x \in Nat : Behind(q, rehasher, x) => x < rehasher.idx
  BY <1>3, Zenon DEF Behind
<1> QED
  BY <1>2, <1>5, <1>6, <1>7, LocalRefines, Zenon DEF Lone

\* The shard's get.
LEMMA GetRefines ==
    ASSUME NEW g, Lone(g), ApplyGet(g)
    PROVE  Refined(g)
<1> DEFINE p == proc[g]
           q == proc'[g]
           n == Cur(tables, current)
           o == Rest(tables, rehasher)
           v == Lookup(p.table, p.key)
<1>1. /\ g \in Goroutine /\ proc \in [Goroutine -> Proc] /\ Formed(p) /\ Entries(n, o, p) /\ q \in Proc
      /\ current # 0 /\ Settled(p, rehasher, current, tables) /\ n \in Content /\ o \in Content
  BY LoneFacts, Zenon
<1>2. /\ p.pc = "apply" /\ p.call = "get" /\ UNCHANGED <<tables, current, rehasher, closed>>
      /\ IF v # None THEN proc' = [proc EXCEPT ![g].pc = "stepping", ![g].val = v]
                     ELSE proc' = [proc EXCEPT ![g].pc = "check"]
  BY Zenon DEF ApplyGet, At, Found, Continue, Goto
<1>3. p.table = current /\ p.key \in Key
  BY <1>1, <1>2 DEF Settled, Formed, Early, Idle
<1>4. v = n[p.key]
  BY <1>1, <1>3, Zenon DEF Lookup, Count, Cur, Stored, Size
<1> HIDE DEF v
<1>5. Same(p, q) /\ q.items = p.items /\ q.pc \in {"stepping", "check"}
  BY <1>1, <1>2 DEF Proc, Same
<1>6. IF n[p.key] # None THEN q.pc = "stepping" /\ q.val = n[p.key] ELSE q.pc = "check" /\ q.val = p.val
  BY <1>1, <1>2, <1>4 DEF Proc
<1>7. /\ p.pc \in Early \cup Between \cup Late /\ q.pc \in Early \cup Between \cup Late
      /\ p.pc # "swap" /\ q.pc \in Plain
  BY <1>2, <1>5, Zenon DEF Early, Between, Late, Plain
<1>8. Goes(n, o, p, n, o, q)
  BY <1>1, <1>2, <1>5, <1>6, GetGoes, Zenon
<1>9. Formed(q)
  BY <1>1, <1>5, <1>7, StaysFormed, Zenon
<1> QED
  BY <1>2, <1>7, <1>8, <1>9, PlainRefines, Zenon DEF Lone

\* A call returns and leaves all as it is.
LEMMA ReturnRefines ==
    ASSUME NEW g, Lone(g), UNCHANGED <<tables, current, rehasher, closed>>, Return(g),
           \/ proc[g].pc \in Late /\ proc[g].pc # "move"
           \/ proc[g].pc \in Between /\ proc[g].call # "get" /\ ~rehasher.rehashing
    PROVE  Refined(g)
<1> DEFINE p == proc[g]
           q == proc'[g]
           n == Cur(tables, current)
           o == Rest(tables, rehasher)
<1>1. /\ g \in Goroutine /\ proc \in [Goroutine -> Proc] /\ Formed(p) /\ Entries(n, o, p) /\ q \in Proc
      /\ current # 0 /\ Settled(p, rehasher, current, tables) /\ n \in Content /\ o \in Content
  BY LoneFacts, Zenon
<1>2. q = Idle
  BY <1>1, Zenon DEF Return
<1>3. p.pc # "move" /\ p.pc # "swap"
  BY Zenon DEF Between, Late
<1>4. ~rehasher.rehashing => \A k \in Key : o[k] = None
  BY NothingLeft, Zenon
<1>5. Goes(n, o, p, n, o, Idle)
  BY <1>1, <1>3, <1>4, ReturnGoes, Zenon
<1>6. Formed(q) /\ q.pc \in Plain
  BY <1>1, <1>2 DEF Formed, Plain, Idle
<1> QED
  BY <1>2, <1>3, <1>5, <1>6, PlainRefines, Zenon DEF Lone

\* A call goes on at a plain place and leaves all as it is.
LEMMA GotoRefines ==
    ASSUME NEW g, Lone(g), UNCHANGED <<tables, current, rehasher, closed>>,
           NEW pc \in Plain, Goto(g, pc),
           \/ proc[g].pc \in Between /\ pc \in Between
           \/ proc[g].pc \in Late /\ pc \in Late /\ proc[g].pc # "move"
           \/ proc[g].pc \in Between /\ pc \in Late /\ ~rehasher.rehashing
    PROVE  Refined(g)
<1> DEFINE p == proc[g]
           q == proc'[g]
           n == Cur(tables, current)
           o == Rest(tables, rehasher)
<1>1. /\ g \in Goroutine /\ proc \in [Goroutine -> Proc] /\ Formed(p) /\ Entries(n, o, p) /\ q \in Proc
      /\ current # 0 /\ Settled(p, rehasher, current, tables) /\ n \in Content /\ o \in Content
  BY LoneFacts, Zenon
<1>2. q.pc = pc /\ Same(p, q) /\ q.val = p.val /\ q.items = p.items
  BY <1>1, Zenon DEF Goto, Proc, Same
<1>3. /\ p.pc \in Early \cup Between \cup Late /\ q.pc \in Early \cup Between \cup Late
      /\ p.pc # "move" /\ q.pc # "move" /\ p.pc # "swap" /\ q.pc \in Plain
  BY <1>2, Zenon DEF Early, Between, Late, Plain
<1>4. ~rehasher.rehashing => \A k \in Key : o[k] = None
  BY NothingLeft, Zenon
<1>5. Goes(n, o, p, n, o, q)
  BY <1>1, <1>2, <1>3, <1>4, SameStage, LeaveGoes, Zenon
<1>6. Formed(q)
  BY <1>1, <1>2, <1>3, StaysFormed, Zenon
<1> QED
  BY <1>3, <1>5, <1>6, PlainRefines, Zenon DEF Lone

\* IsRehashing, before OldShard and before a Step.
LEMMA CheckRefines ==
    ASSUME NEW g, Lone(g), CheckRehashing(g) \/ CheckStep(g)
    PROVE  Refined(g)
<1>1. UNCHANGED <<tables, current, rehasher, closed>>
  BY Zenon DEF CheckRehashing, CheckStep
<1>2. CASE CheckRehashing(g)
  <2>1. /\ proc[g].pc = "check"
        /\ \/ rehasher.rehashing /\ Goto(g, "old")
           \/ ~rehasher.rehashing /\ Goto(g, "stepping")
           \/ ~rehasher.rehashing /\ proc[g].call # "get" /\ Return(g)
    BY <1>2, Zenon DEF CheckRehashing, At, Continue
  <2>2. /\ "check" \in Between /\ "old" \in Between /\ "stepping" \in Late
        /\ "old" \in Plain /\ "stepping" \in Plain
    BY Zenon DEF Between, Late, Plain
  <2> QED
    BY <1>1, <2>1, <2>2, GotoRefines, ReturnRefines, Zenon
<1>3. CASE CheckStep(g)
  <2>1. proc[g].pc = "stepping" /\ (Goto(g, "table") \/ Return(g))
    BY <1>3, Zenon DEF CheckStep, At, Continue
  <2>2. "stepping" \in Late /\ "table" \in Late /\ "table" \in Plain /\ "stepping" # "move"
    BY Zenon DEF Late, Plain
  <2> QED
    BY <1>1, <2>1, <2>2, GotoRefines, ReturnRefines, Zenon
<1> QED
  BY <1>2, <1>3, Zenon

\* OldShard, of the migration under way.
LEMMA OldShardRefines ==
    ASSUME NEW g, Lone(g), OldShard(g)
    PROVE  Refined(g)
<1> DEFINE p == proc[g]
           q == proc'[g]
           n == Cur(tables, current)
           o == Rest(tables, rehasher)
<1>1. /\ g \in Goroutine /\ proc \in [Goroutine -> Proc] /\ Formed(p) /\ Entries(n, o, p) /\ q \in Proc
      /\ current # 0 /\ Settled(p, rehasher, current, tables) /\ n \in Content /\ o \in Content
  BY LoneFacts, Zenon
<1>2. p.pc = "old" /\ UNCHANGED <<tables, current, rehasher, closed>>
  BY Zenon DEF OldShard, At
<1>3. CASE ~rehasher.rehashing
  <2>1. Goto(g, "stepping") \/ Goto(g, "table")
    BY <1>3, Zenon DEF OldShard, Continue
  <2>2. "old" \in Between /\ "stepping" \in Late /\ "stepping" \in Plain /\ "table" \in Late /\ "table" \in Plain
    BY Zenon DEF Between, Late, Plain
  <2> QED
    BY <1>2, <1>3, <2>1, <2>2, GotoRefines, Zenon
<1>4. CASE rehasher.rehashing
  <2>1. rehasher.old \in 1 .. Len(tables) /\ Len(tables) \in Nat
    BY <1>4, LoneFacts DEF Lone
  <2>2. rehasher.old # 0
    BY <2>1
  <2>3. proc' = [proc EXCEPT ![g].pc = "oldApply", ![g].old = rehasher.old,
                             ![g].idx = Index(proc[g].key, Count(rehasher.old))]
    BY <1>4, <2>2, Zenon DEF OldShard
  <2>4. Count(rehasher.old) = Size(tables, rehasher.old)
    BY <2>2, Zenon DEF Count, Size
  <2>5. /\ q.pc = "oldApply" /\ Same(p, q) /\ q.val = p.val /\ q.items = p.items
        /\ q.old = rehasher.old /\ q.idx = Index(q.key, Size(tables, rehasher.old))
    BY <1>1, <2>3, <2>4, Zenon DEF Proc, Same
  <2>6. /\ p.pc \in Early \cup Between \cup Late /\ q.pc \in Early \cup Between \cup Late
        /\ p.pc \in Between /\ q.pc \in Between /\ p.pc # "move" /\ q.pc # "move"
    BY <1>2, <2>5, Zenon DEF Between
  <2>7. Goes(n, o, p, n, o, q) /\ Formed(q)
    BY <1>1, <2>5, <2>6, SameStage, StaysFormed, Zenon
  <2>8. Settled(q, rehasher, current, tables)
    BY <1>1, <1>2, <1>4, <2>5, Zenon DEF Settled, Stepping, Taking
  <2>9. \A x \in Nat : Behind(q, rehasher, x) => x < rehasher.idx
    BY <2>5, Zenon DEF Behind
  <2> QED
    BY <1>2, <2>7, <2>8, <2>9, LocalRefines, Zenon DEF Lone
<1> QED
  BY <1>3, <1>4, Zenon

\* The old shard's get.
LEMMA OldGetRefines ==
    ASSUME NEW g, Lone(g), OldGet(g)
    PROVE  Refined(g)
<1> DEFINE p == proc[g]
           q == proc'[g]
           n == Cur(tables, current)
           o == Rest(tables, rehasher)
<1>1. /\ g \in Goroutine /\ proc \in [Goroutine -> Proc] /\ Formed(p) /\ Entries(n, o, p) /\ q \in Proc
      /\ current # 0 /\ Settled(p, rehasher, current, tables) /\ n \in Content /\ o \in Content
  BY LoneFacts, Zenon
<1> DEFINE v == tables[p.old][p.idx][p.key]
<1>2. /\ p.pc = "oldApply" /\ p.call = "get" /\ UNCHANGED <<tables, current, rehasher, closed>>
      /\ \/ proc' = [proc EXCEPT ![g].pc = "table", ![g].val = v]
         \/ proc' = [proc EXCEPT ![g].pc = "stepping", ![g].val = v]
  BY Zenon DEF OldGet, At, Found
<1>3. p.key \in Key /\ rehasher.rehashing /\ p.old = rehasher.old /\ p.idx = Index(p.key, Size(tables, rehasher.old))
  BY <1>1, <1>2 DEF Settled, Formed, Idle
<1>4. v = o[p.key]
  BY <1>3, Zenon DEF Rest, Stored
<1> HIDE DEF v
<1>5. Same(p, q) /\ q.items = p.items /\ q.pc \in {"stepping", "table"} /\ q.val = o[p.key]
  BY <1>1, <1>2, <1>4 DEF Proc, Same
<1>6. /\ p.pc \in Early \cup Between \cup Late /\ q.pc \in Early \cup Between \cup Late
      /\ p.pc \in Between /\ q.pc \in Late /\ q.pc # "move" /\ p.pc # "swap" /\ q.pc \in Plain
  BY <1>2, <1>5, Zenon DEF Early, Between, Late, Plain
<1>7. Goes(n, o, p, n, o, q) /\ Formed(q)
  BY <1>1, <1>2, <1>5, <1>6, OldGetGoes, StaysFormed, Zenon
<1> QED
  BY <1>2, <1>6, <1>7, PlainRefines, Zenon DEF Lone

\* A Step loads the table and sees where to begin.
LEMMA BeginRefines ==
    ASSUME NEW g, Lone(g), LoadTable(g) \/ StepBegin(g)
    PROVE  Refined(g)
<1> DEFINE p == proc[g]
           q == proc'[g]
           n == Cur(tables, current)
           o == Rest(tables, rehasher)
<1>1. /\ g \in Goroutine /\ proc \in [Goroutine -> Proc] /\ Formed(p) /\ Entries(n, o, p) /\ q \in Proc
      /\ current # 0 /\ Settled(p, rehasher, current, tables) /\ n \in Content /\ o \in Content
  BY LoneFacts, Zenon
<1>2. UNCHANGED <<tables, current, rehasher, closed>>
  BY Zenon DEF LoadTable, StepBegin
<1>3. ASSUME p.pc \in {"table", "begin"}, q.pc \in {"begin", "extract"}, Same(p, q), q.val = p.val, q.items = p.items
      PROVE  Goes(n, o, p, n, o, q) /\ Formed(q)
  <2>1. /\ p.pc \in Early \cup Between \cup Late /\ q.pc \in Early \cup Between \cup Late
        /\ p.pc \in Late /\ q.pc \in Late /\ p.pc # "move" /\ q.pc # "move"
    BY <1>3, Zenon DEF Late
  <2> QED
    BY <1>1, <1>3, <2>1, SameStage, StaysFormed, Zenon
<1>4. CASE LoadTable(g)
  <2>1. p.pc = "table" /\ proc' = [proc EXCEPT ![g].pc = "begin", ![g].table = current]
    BY <1>4, Zenon DEF LoadTable, At
  <2>2. q.pc = "begin" /\ Same(p, q) /\ q.val = p.val /\ q.items = p.items /\ q.table = current
    BY <1>1, <2>1, Zenon DEF Proc, Same
  <2>3. Goes(n, o, p, n, o, q) /\ Formed(q)
    BY <1>3, <2>1, <2>2, Zenon
  <2>4. Settled(q, rehasher, current, tables)
    BY <1>1, <2>1, <2>2, Zenon DEF Settled, Stepping, Taking
  <2>5. \A x \in Nat : Behind(q, rehasher, x) => x < rehasher.idx
    BY <2>2, Zenon DEF Behind
  <2> QED
    BY <1>2, <2>3, <2>4, <2>5, LocalRefines, Zenon DEF Lone
<1>5. CASE StepBegin(g) /\ ~rehasher.rehashing
  <2>1. p.pc = "begin" /\ Return(g)
    BY <1>5, Zenon DEF StepBegin, At
  <2>2. "begin" \in Late /\ "begin" # "move"
    BY Zenon DEF Late
  <2> QED
    BY <1>2, <2>1, <2>2, ReturnRefines, Zenon
<1>6. CASE StepBegin(g) /\ rehasher.rehashing
  <2> DEFINE i == IF rehasher.name = "batch" THEN 0 ELSE rehasher.idx
  <2>1. /\ p.pc = "begin"
        /\ proc' = [proc EXCEPT ![g].pc = "extract", ![g].old = rehasher.old, ![g].idx = i,
                                ![g].name = rehasher.name, ![g].gen = rehasher.gen]
    BY <1>6, Zenon DEF StepBegin, At
  <2> HIDE DEF i
  <2>2. /\ q.pc = "extract" /\ Same(p, q) /\ q.val = p.val /\ q.items = p.items /\ q.table = p.table
        /\ q.old = rehasher.old /\ q.idx = i /\ q.name = rehasher.name /\ q.gen = rehasher.gen
    BY <1>1, <2>1, Zenon DEF Proc, Same
  <2>3. Goes(n, o, p, n, o, q) /\ Formed(q)
    BY <1>3, <2>1, <2>2, Zenon
  <2>4. Settled(q, rehasher, current, tables)
    BY <1>1, <1>6, <2>1, <2>2, Zenon DEF Settled, Stepping, Taking, i
  <2>5. \A x \in Nat : Behind(q, rehasher, x) => x < rehasher.idx
    BY <2>2 DEF Behind, i
  <2> QED
    BY <1>2, <2>3, <2>4, <2>5, LocalRefines, Zenon DEF Lone
<1> QED
  BY <1>4, <1>5, <1>6, Zenon

\* A step that changes the entries of a table.
LEMMA TablesRefine ==
    ASSUME NEW g, Lone(g), SameSize(tables', tables), UNCHANGED <<current, rehasher, closed>>,
           Formed(proc'[g]),
           Goes(Cur(tables, current), Rest(tables, rehasher), proc[g],
                Cur(tables', current), Rest(tables', rehasher), proc'[g]),
           Settled(proc'[g], rehasher, current, tables), Placed(tables'),
           Cleared(proc'[g], rehasher, tables')
    PROVE  Refined(g)
<1>1. ~closed /\ (rehasher.rehashing => rehasher.old \in 1 .. Len(tables))
  BY LoneFacts, Zenon
<1>2. ~closed' /\ current' = current /\ rehasher' = rehasher
  BY <1>1, Zenon
<1>3. rehasher.rehashing => Size(tables', rehasher.old) = Size(tables, rehasher.old)
  BY <1>1, Zenon DEF SameSize, Size
<1>4. Len(tables') = Len(tables)
  BY Zenon DEF SameSize
<1>5. Settled(proc'[g], rehasher, current, tables')
  BY <1>3, <1>4, Zenon DEF Settled
<1>6. /\ Goes(Cur(tables, current), Rest(tables, rehasher), proc[g],
              Cur(tables', current'), Rest(tables', rehasher'), proc'[g])
      /\ Settled(proc'[g], rehasher', current', tables')
      /\ Cleared(proc'[g], rehasher', tables')
  BY <1>2, <1>5, Zenon
<1> QED
  BY <1>2, <1>6, Concludes, Zenon DEF Lone

\* The shard's Set or Del.
LEMMA ApplyRefines ==
    ASSUME NEW g, Lone(g), Apply(g)
    PROVE  Refined(g)
<1> DEFINE p == proc[g]
           q == proc'[g]
           n == Cur(tables, current)
           o == Rest(tables, rehasher)
           m == Cur(tables', current)
           u == Rest(tables', rehasher)
<1>1. /\ g \in Goroutine /\ proc \in [Goroutine -> Proc] /\ Formed(p) /\ Entries(n, o, p) /\ q \in Proc
      /\ p \in Proc /\ current # 0 /\ Settled(p, rehasher, current, tables) /\ n \in Content /\ o \in Content
      /\ Placed(tables) /\ Cleared(p, rehasher, tables) /\ tables \in Seq(Shards) /\ current \in 1 .. Len(tables)
      /\ rehasher.rehashing => rehasher.old \in 1 .. Len(tables)
  BY LoneFacts, Zenon
<1>2. /\ p.pc = "apply" /\ p.call \in {"set", "del"} /\ UNCHANGED <<current, rehasher, closed>>
      /\ tables' = [tables EXCEPT ![p.table][Index(p.key, Count(p.table))][p.key] = p.val]
      /\ Goto(g, "check")
  BY Zenon DEF Apply, At, Write, Continue
<1>3. p.table = current /\ p.key \in Key /\ p.val \in Value \cup {None} /\ Count(current) = Size(tables, current)
  BY <1>1, <1>2 DEF Settled, Formed, Early, Idle, Proc, Count, Size
<1>4. StoredEntry(tables', tables, current, Index(p.key, Size(tables, current)), p.key, p.val)
  BY <1>2, <1>3, Zenon DEF StoredEntry
<1>5. SameSize(tables', tables) /\ Placed(tables') /\ EntryAt(tables', tables, current, p.key, p.val)
  BY <1>1, <1>3, <1>4, EntryPut, Zenon
<1>6. q.pc = "check" /\ Same(p, q) /\ q.val = p.val /\ q.items = p.items
  BY <1>1, <1>2, Zenon DEF Goto, Proc, Same
<1>7. rehasher.rehashing => rehasher.old # current
  BY <1>1, <1>2, Zenon DEF Settled
<1>8. \A k \in Key : m[k] = IF k = p.key THEN p.val ELSE n[k]
  BY <1>1, <1>5, Zenon DEF Cur, EntryAt
<1>9. u = o
  BY <1>1, <1>5, <1>7, Zenon DEF Rest, EntryAt
<1>10. Goes(n, o, p, m, o, q)
  BY <1>1, <1>2, <1>6, <1>8, ApplyGoes, Zenon
<1>11. Formed(q)
  <2>1. p.pc \in Early \cup Between \cup Late /\ q.pc \in Early \cup Between \cup Late
    BY <1>2, <1>6, Zenon DEF Early, Between
  <2> QED
    BY <1>1, <1>6, <2>1, StaysFormed, Zenon
<1>12. Settled(q, rehasher, current, tables)
  BY <1>1, <1>2, <1>6, Zenon DEF Settled, Stepping, Taking
<1>13. Cleared(q, rehasher, tables')
  BY <1>1, <1>2, <1>5, <1>6, <1>7, Zenon DEF Cleared, Behind, EntryAt
<1> QED
  BY <1>2, <1>5, <1>9, <1>10, <1>11, <1>12, <1>13, TablesRefine, Zenon

\* A Set and a Del delete the key in the old shard.
LEMMA OldDelRefines ==
    ASSUME NEW g, Lone(g), OldDel(g)
    PROVE  Refined(g)
<1> DEFINE p == proc[g]
           q == proc'[g]
           n == Cur(tables, current)
           o == Rest(tables, rehasher)
           m == Cur(tables', current)
           u == Rest(tables', rehasher)
<1>1. /\ g \in Goroutine /\ proc \in [Goroutine -> Proc] /\ Formed(p) /\ Entries(n, o, p) /\ q \in Proc
      /\ p \in Proc /\ current # 0 /\ Settled(p, rehasher, current, tables) /\ n \in Content /\ o \in Content
      /\ Placed(tables) /\ Cleared(p, rehasher, tables) /\ tables \in Seq(Shards) /\ current \in 1 .. Len(tables)
      /\ rehasher.rehashing => rehasher.old \in 1 .. Len(tables)
  BY LoneFacts, Zenon
<1>2. /\ p.pc = "oldApply" /\ p.call \in {"set", "del"} /\ UNCHANGED <<current, rehasher, closed>>
      /\ tables' = [tables EXCEPT ![p.old][p.idx][p.key] = None]
      /\ Goto(g, "table")
  BY Zenon DEF OldDel, At, Write, Continue
<1>3. /\ rehasher.rehashing /\ p.old = rehasher.old /\ p.idx = Index(p.key, Size(tables, rehasher.old))
      /\ p.key \in Key /\ rehasher.old # current /\ rehasher.old \in 1 .. Len(tables)
  BY <1>1, <1>2 DEF Settled, Formed, Idle
<1>4. StoredEntry(tables', tables, rehasher.old, Index(p.key, Size(tables, rehasher.old)), p.key, None)
  BY <1>2, <1>3, Zenon DEF StoredEntry
<1>5. SameSize(tables', tables) /\ Placed(tables') /\ EntryAt(tables', tables, rehasher.old, p.key, None)
  <2>1. None \in Value \cup {None}
    BY Zenon
  <2> QED
    BY <1>1, <1>3, <1>4, <2>1, EntryPut, Zenon
<1>6. q.pc = "table" /\ Same(p, q) /\ q.val = p.val /\ q.items = p.items
  BY <1>1, <1>2, Zenon DEF Goto, Proc, Same
<1>7. m = n
  BY <1>1, <1>3, <1>5, Zenon DEF Cur, EntryAt
<1>8. \A k \in Key : u[k] = IF k = p.key THEN None ELSE o[k]
  BY <1>3, <1>5, Zenon DEF Rest, EntryAt
<1>9. p.pc \in Between /\ q.pc \in Late /\ q.pc # "move"
  BY <1>2, <1>6, Zenon DEF Between, Late
<1>10. Goes(n, o, p, n, u, q)
  BY <1>1, <1>2, <1>6, <1>8, <1>9, OldDelGoes, Zenon
<1>11. Formed(q)
  <2>1. p.pc \in Early \cup Between \cup Late /\ q.pc \in Early \cup Between \cup Late
    BY <1>9, Zenon
  <2> QED
    BY <1>1, <1>6, <2>1, StaysFormed, Zenon
<1>12. Settled(q, rehasher, current, tables)
  BY <1>1, <1>2, <1>6, Zenon DEF Settled, Stepping, Taking
<1>13. Cleared(q, rehasher, tables')
  BY <1>1, <1>2, <1>3, <1>5, <1>6, Zenon DEF Cleared, Behind, EntryAt
<1> QED
  BY <1>2, <1>5, <1>7, <1>10, <1>11, <1>12, <1>13, TablesRefine, Zenon

\* A Step takes entries from the shard it has come to.
LEMMA ExtractRefines ==
    ASSUME NEW g, Lone(g), Extract(g)
    PROVE  Refined(g)
<1> DEFINE p == proc[g]
           q == proc'[g]
           n == Cur(tables, current)
           o == Rest(tables, rehasher)
           m == Cur(tables', current)
           u == Rest(tables', rehasher)
<1>1. /\ g \in Goroutine /\ proc \in [Goroutine -> Proc] /\ Formed(p) /\ Entries(n, o, p) /\ q \in Proc
      /\ p \in Proc /\ current # 0 /\ Settled(p, rehasher, current, tables) /\ n \in Content /\ o \in Content
      /\ Placed(tables) /\ Cleared(p, rehasher, tables) /\ tables \in Seq(Shards) /\ current \in 1 .. Len(tables)
      /\ rehasher.rehashing => rehasher.old \in 1 .. Len(tables)
  BY LoneFacts, Zenon
<1>2. p.pc = "extract"
  BY Zenon DEF Extract, At
<1>3. PICK out \in SUBSET Key : Extracted(g, out)
  BY <1>1, Extracts, Zenon DEF Lone
<1> DEFINE c == tables[p.old][p.idx]
<1>4. /\ SameSize(tables', tables) /\ OtherShard(tables', tables, p.old, p.idx, Left(c, out))
      /\ out = {} => \A k \in Key : c[k] = None
      /\ \A k \in out : c[k] # None
      /\ q.items = Taken(c, out) /\ q.moved = (out # {})
      /\ UNCHANGED <<current, rehasher, closed>>
  BY <1>3, Zenon DEF Extracted
<1>5. /\ \/ q.pc = "move" /\ q.idx = p.idx /\ out # {}
         \/ q.pc = "extract" /\ q.idx = p.idx + 1 /\ out = {} /\ p.name = "batch"
         \/ /\ q.pc = "end" /\ q.idx = p.idx /\ out = {}
            /\ ~(p.name = "batch" /\ p.idx + 1 < Count(p.old))
      /\ Same(p, q) /\ q.val = p.val /\ q.table = p.table
      /\ q.old = p.old /\ q.name = p.name /\ q.gen = p.gen
  BY <1>3, Zenon DEF Extracted, Same
<1>6. rehasher.rehashing /\ p.old = rehasher.old /\ rehasher.old # current /\ rehasher.old \in 1 .. Len(tables)
  BY <1>1, <1>2, Zenon DEF Settled, Taking
<1>7. p.idx \in DOMAIN tables[rehasher.old] /\ p.idx \in Nat
  <2>1. proc[g].pc \in {"oldApply", "extract", "move"}
    BY <1>2, Zenon
  <2>2. p.idx \in DOMAIN tables[p.old]
    BY <1>1, <2>1, ShardOfStep, Zenon DEF Lone
  <2> QED
    BY <1>1, <1>6, <2>2, Zenon DEF Proc
<1>8. /\ Placed(tables') /\ EntriesOut(tables', tables, rehasher.old, out)
      /\ OfShard(tables, rehasher.old, p.idx, c, out)
  BY <1>1, <1>4, <1>6, <1>7, ShardTaken, Zenon
<1>9. m = n
  BY <1>1, <1>6, <1>8, Zenon DEF Cur, EntriesOut
<1>10. \A k \in out : o[k] = c[k] /\ k \in Key
  BY <1>6, <1>8, Zenon DEF Rest, OfShard
<1>11. /\ \A k \in out : o[k] # None
       /\ \A k \in Key : u[k] = IF k \in out THEN None ELSE o[k]
       /\ \A k \in Key : q.items[k] = IF k \in out THEN o[k] ELSE None
  <2>1. \A k \in Key : u[k] = IF k \in out THEN None ELSE o[k]
    BY <1>6, <1>8, Zenon DEF Rest, EntriesOut
  <2>2. \A k \in Key : q.items[k] = IF k \in out THEN o[k] ELSE None
    BY <1>4, <1>10, Zenon DEF Taken
  <2> QED
    BY <1>4, <1>10, <2>1, <2>2, Zenon
<1>12. q.pc \in Late /\ (q.pc # "move" => out = {})
  BY <1>5, Zenon DEF Late
<1>13. Goes(n, o, p, n, u, q)
  BY <1>1, <1>2, <1>5, <1>11, <1>12, ExtractGoes, Zenon
<1>14. Formed(q)
  <2>1. p.pc \in Early \cup Between \cup Late /\ q.pc \in Early \cup Between \cup Late
    BY <1>2, <1>12, Zenon DEF Late
  <2> QED
    BY <1>1, <1>5, <2>1, StaysFormed, Zenon
<1>15. Settled(q, rehasher, current, tables)
  BY <1>1, <1>2, <1>4, <1>5, Zenon DEF Settled, Stepping, Taking
<1>16. Cleared(q, rehasher, tables')
  <2> SUFFICES ASSUME NEW k \in Key, Behind(q, rehasher, Index(k, Size(tables, rehasher.old)))
               PROVE  Stored(tables, rehasher.old, k) = None
    BY <1>6, <1>8, Zenon DEF Cleared, EntriesOut
  <2> DEFINE x == Index(k, Size(tables, rehasher.old))
             size == Size(tables, rehasher.old)
  <2>1. Behind(p, rehasher, x) => Stored(tables, rehasher.old, k) = None
    BY <1>1, <1>6, Zenon DEF Cleared
  <2>2. out = {} /\ x = p.idx => Stored(tables, rehasher.old, k) = None
    BY <1>4, <1>8, Zenon DEF OfShard
  <2>3. x \in 0 .. size - 1 /\ size \in Nat
    BY <1>1, <1>6, StoredType, Zenon
  <2>4. Count(p.old) = size
    BY <1>6 DEF Count, Size
  <2>5. Behind(q, rehasher, x)
    BY Zenon
  <2> HIDE DEF x, size
  <2>6. x < rehasher.idx \/ out # {} \/ x < p.idx \/ x = p.idx
    BY <1>5, <1>7, <2>3, <2>4, <2>5 DEF Behind
  <2>7. out = {} /\ x < p.idx => Behind(p, rehasher, x)
    <3>1. CASE p.name = "batch"
      BY <1>2, <3>1, Zenon DEF Behind
    <3>2. CASE p.name # "batch"
      <4>1. x < rehasher.idx \/ out # {} \/ x = p.idx
        BY <1>5, <2>5, <3>2, Zenon DEF Behind
      <4>2. x \in Int /\ p.idx \in Int
        BY <1>7, <2>3
      <4> QED
        BY <4>1, <4>2 DEF Behind
    <3> QED
      BY <3>1, <3>2, Zenon
  <2>8. out # {} => Behind(p, rehasher, x)
    BY <1>2, <1>4, <1>5, <2>5, Zenon DEF Behind
  <2>9. x < rehasher.idx => Behind(p, rehasher, x)
    BY Zenon DEF Behind
  <2> QED
    BY <2>1, <2>2, <2>6, <2>7, <2>8, <2>9, Zenon
<1> QED
  BY <1>4, <1>8, <1>9, <1>13, <1>14, <1>15, <1>16, TablesRefine, Zenon

\* A Step stores an entry in the table in force.
LEMMA MoveRefines ==
    ASSUME NEW g, Lone(g), Move(g)
    PROVE  Refined(g)
<1> DEFINE p == proc[g]
           q == proc'[g]
           n == Cur(tables, current)
           o == Rest(tables, rehasher)
           m == Cur(tables', current)
           u == Rest(tables', rehasher)
<1>1. /\ g \in Goroutine /\ proc \in [Goroutine -> Proc] /\ Formed(p) /\ Entries(n, o, p) /\ q \in Proc
      /\ p \in Proc /\ current # 0 /\ Settled(p, rehasher, current, tables) /\ n \in Content /\ o \in Content
      /\ Placed(tables) /\ Cleared(p, rehasher, tables) /\ tables \in Seq(Shards) /\ current \in 1 .. Len(tables)
      /\ rehasher.rehashing => rehasher.old \in 1 .. Len(tables)
  BY LoneFacts, Zenon
<1>2. p.pc = "move"
  BY Zenon DEF Move, At
<1>3. /\ p.table = current /\ rehasher.rehashing /\ rehasher.old # current
      /\ rehasher.old \in 1 .. Len(tables) /\ p.moved
  BY <1>1, <1>2, Zenon DEF Settled, Taking, Stepping
<1>4. PICK key \in Key : Carried(g, key) \/ OutOfRange(g, key)
  BY <1>1, Moves, Zenon DEF Lone
<1>5. Index(key, Count(current)) \in DOMAIN tables[current]
  BY <1>1, <1>4, IndexInTable, Zenon DEF Lone
<1>6. Carried(g, key)
  BY <1>1, <1>3, <1>4, <1>5, Zenon DEF OutOfRange
<1>7. /\ p.items[key] # None
      /\ StoredEntry(tables', tables, current, Index(key, Count(current)), key, p.items[key])
      /\ q.items = [p.items EXCEPT ![key] = None]
      /\ UNCHANGED <<current, rehasher, closed>>
  BY <1>3, <1>6, Zenon DEF Carried
<1>8. /\ \/ q.pc = "move"
         \/ q.pc = "extract" /\ q.items = NoEntries /\ p.name = "batch"
         \/ q.pc = "end" /\ q.items = NoEntries /\ p.name # "batch"
      /\ Same(p, q) /\ q.val = p.val /\ q.table = p.table /\ q.idx = p.idx
      /\ q.old = p.old /\ q.name = p.name /\ q.gen = p.gen /\ q.moved = p.moved
  BY <1>6, Zenon DEF Carried, Same
<1>9. Count(current) = Size(tables, current) /\ p.items \in Content
  BY <1>1, Zenon DEF Count, Size, Proc
<1>10. p.items[key] \in Value \cup {None}
  BY <1>4, <1>9, Zenon DEF Content
<1>11. SameSize(tables', tables) /\ Placed(tables') /\ EntryAt(tables', tables, current, key, p.items[key])
  BY <1>1, <1>4, <1>7, <1>9, <1>10, EntryPut, Zenon
<1>12. u = o
  BY <1>3, <1>11, Zenon DEF Rest, EntryAt
<1>13. \A k \in Key : /\ m[k] = IF k = key THEN p.items[key] ELSE n[k]
                      /\ q.items[k] = IF k = key THEN None ELSE p.items[k]
  <2>1. \A k \in Key : m[k] = IF k = key THEN p.items[key] ELSE n[k]
    BY <1>1, <1>11, Zenon DEF Cur, EntryAt
  <2>2. \A k \in Key : q.items[k] = IF k = key THEN None ELSE p.items[k]
    BY <1>7, <1>9, Zenon DEF Content
  <2> QED
    BY <2>1, <2>2, Zenon
<1>14. q.pc \in Late /\ (q.pc # "move" => \A k \in Key : q.items[k] = None)
  BY <1>8, Zenon DEF Late, NoEntries
<1>15. Goes(n, o, p, m, o, q)
  BY <1>1, <1>2, <1>4, <1>7, <1>8, <1>13, <1>14, MoveGoes, Zenon
<1>16. Formed(q)
  <2>1. p.pc \in Early \cup Between \cup Late /\ q.pc \in Early \cup Between \cup Late
    BY <1>2, <1>14, Zenon DEF Late
  <2> QED
    BY <1>1, <1>8, <2>1, StaysFormed, Zenon
<1>17. Settled(q, rehasher, current, tables)
  BY <1>1, <1>2, <1>8, Zenon DEF Settled, Stepping, Taking
<1>18. \A x : Behind(q, rehasher, x) => Behind(p, rehasher, x)
  BY <1>2, <1>3, <1>8, Zenon DEF Behind
<1>19. Cleared(q, rehasher, tables')
  BY <1>1, <1>3, <1>11, <1>18, Zenon DEF Cleared, EntryAt
<1> QED
  BY <1>7, <1>11, <1>12, <1>15, <1>16, <1>17, <1>19, TablesRefine, Zenon

\* The end of a Step: a migration ends when its table is empty.
LEMMA EndRefines ==
    ASSUME NEW g, Lone(g), StepEnd(g) \/ BatchEnd(g)
    PROVE  Refined(g)
<1> DEFINE p == proc[g]
           q == proc'[g]
           n == Cur(tables, current)
           o == Rest(tables, rehasher)
           m == Cur(tables', current)
           u == Rest(tables', rehasher)
<1>1. /\ g \in Goroutine /\ proc \in [Goroutine -> Proc] /\ Formed(p) /\ Entries(n, o, p) /\ q \in Proc
      /\ p \in Proc /\ current # 0 /\ Settled(p, rehasher, current, tables) /\ n \in Content /\ o \in Content
      /\ Placed(tables) /\ Cleared(p, rehasher, tables) /\ tables \in Seq(Shards) /\ current \in 1 .. Len(tables)
      /\ rehasher.rehashing => rehasher.old \in 1 .. Len(tables)
  BY LoneFacts, Zenon
<1>2. p.pc = "end" /\ Return(g) /\ UNCHANGED <<tables, current, closed>>
  BY Zenon DEF StepEnd, BatchEnd, At
<1>3. q = Idle
  BY <1>1, <1>2, Zenon DEF Return
<1>4. rehasher.rehashing /\ rehasher.old \in 1 .. Len(tables) /\ rehasher.old # current
  BY <1>1, <1>2, Zenon DEF Settled, Taking
<1>5. "end" \in Late /\ "end" # "move"
  BY Zenon DEF Late
<1>6. CASE rehasher' = rehasher
  BY <1>2, <1>5, <1>6, ReturnRefines, Zenon
<1> DEFINE size == Size(tables, rehasher.old)
<1>7. Count(rehasher.old) = size
  BY <1>4 DEF Count, Size
<1>8. size \in Nat /\ \A k \in Key : Index(k, size) \in 0 .. size - 1
  BY <1>1, <1>4, StoredType, Zenon
<1>9. rehasher.idx \in Nat /\ p.idx \in Nat
  BY <1>1, LoneFacts, Zenon DEF Rehasher, Proc
<1>10. ASSUME NEW r, rehasher' = r, r.name = rehasher.name, r.gen = rehasher.gen,
              r.rehashing => r.old = rehasher.old, Rest(tables, r) = o, Cleared(Idle, r, tables)
       PROVE  Refined(g)
  <2>1. Goes(n, o, p, n, o, Idle)
    BY <1>1, <1>2, <1>5, ReturnGoes, Zenon
  <2>2. Formed(Idle)
    BY <1>1, <1>3, Zenon DEF Formed
  <2>3. Settled(Idle, r, current, tables)
    BY <1>1, <1>2, <1>4, <1>10, Zenon DEF Settled, Idle, Stepping, Taking
  <2>4. /\ Goes(n, o, p, Cur(tables', current'), Rest(tables', rehasher'), proc'[g])
        /\ Settled(proc'[g], rehasher', current', tables') /\ Placed(tables')
        /\ Cleared(proc'[g], rehasher', tables') /\ ~closed' /\ Formed(proc'[g])
    BY <1>1, <1>2, <1>3, <1>10, <2>1, <2>2, <2>3, LoneFacts, Zenon
  <2> QED
    BY <2>4, Concludes, Zenon DEF Lone
<1>11. ASSUME SameRehasher(rehasher', rehasher), ~rehasher'.rehashing,
              \A k \in Key : Behind(p, rehasher, Index(k, size))
       PROVE  Refined(g)
  <2>1. \A k \in Key : o[k] = None
    BY <1>1, <1>4, <1>11, Zenon DEF Rest, Cleared
  <2>2. Rest(tables, rehasher') = o
    BY <1>11, <2>1, Zenon DEF Rest
  <2>3. Cleared(Idle, rehasher', tables)
    BY <1>11, Zenon DEF Cleared
  <2> QED
    BY <1>10, <1>11, <2>2, <2>3, Zenon DEF SameRehasher
<1>12. CASE StepEnd(g)
  <2>1. p.name # "batch"
    BY <1>12, Zenon DEF StepEnd
  <2>2. Kept \/ Advanced(p) \/ Ended(p)
    BY <1>1, <1>12, StepEnds, Zenon DEF Lone
  <2>3. CASE Kept
    BY <1>6, <2>3, Zenon DEF Kept
  <2>4. CASE Advanced(p)
    <3>1. /\ SameRehasher(rehasher', rehasher) /\ rehasher'.rehashing /\ rehasher'.old = rehasher.old
          /\ rehasher'.idx = rehasher.idx + 1 /\ rehasher.idx = p.idx /\ ~p.moved
      BY <2>4, Zenon DEF Advanced
    <3>2. Rest(tables, rehasher') = o
      BY <1>4, <3>1, Zenon DEF Rest
    <3>3. \A x \in Nat : Behind(Idle, rehasher', x) => Behind(p, rehasher, x)
      BY <1>2, <1>9, <2>1, <3>1 DEF Behind, Idle
    <3>4. \A k \in Key : Index(k, size) \in Nat
      BY <1>8
    <3>5. Cleared(Idle, rehasher', tables)
      BY <1>1, <1>4, <3>1, <3>3, <3>4, Zenon DEF Cleared
    <3> QED
      BY <1>10, <3>1, <3>2, <3>5, Zenon DEF SameRehasher
  <2>5. CASE Ended(p)
    <3>1. /\ SameRehasher(rehasher', rehasher) /\ ~rehasher'.rehashing
          /\ rehasher.idx = p.idx /\ ~p.moved /\ ~(rehasher.idx + 1 < size)
      BY <1>7, <2>5, Zenon DEF Ended
    <3>2. \A x \in 0 .. size - 1 : Behind(p, rehasher, x)
      <4> HIDE DEF size
      <4> QED
        BY <1>2, <1>8, <1>9, <2>1, <3>1 DEF Behind
    <3>3. \A k \in Key : Behind(p, rehasher, Index(k, size))
      BY <1>8, <3>2, Zenon
    <3> QED
      BY <1>11, <3>1, <3>3, Zenon
  <2> QED
    BY <2>2, <2>3, <2>4, <2>5, Zenon
<1>13. CASE BatchEnd(g)
  <2>1. p.name = "batch" /\ (rehasher' = Over \/ rehasher' = rehasher)
    BY <1>13, Zenon DEF BatchEnd
  <2>2. SameRehasher(Over, rehasher) /\ ~Over.rehashing
    BY <1>1, RehasherOver, Zenon DEF Lone
  <2>3. \A k \in Key : Behind(p, rehasher, Index(k, size))
    BY <1>2, <2>1, Zenon DEF Behind
  <2> QED
    BY <1>6, <1>11, <2>1, <2>2, <2>3, Zenon
<1> QED
  BY <1>12, <1>13, Zenon

\* A Resize starts the migration.
LEMMA ResizeRefines ==
    ASSUME NEW g, Lone(g), NEW count \in ShardCounts, Resize(g, count)
    PROVE  Refined(g)
<1> DEFINE p == proc[g]
           q == proc'[g]
           n == Cur(tables, current)
           o == Rest(tables, rehasher)
<1>1. /\ g \in Goroutine /\ proc \in [Goroutine -> Proc] /\ Formed(p) /\ Entries(n, o, p) /\ q \in Proc
      /\ p \in Proc /\ current # 0 /\ Settled(p, rehasher, current, tables) /\ n \in Content /\ o \in Content
      /\ Placed(tables) /\ Cleared(p, rehasher, tables) /\ tables \in Seq(Shards) /\ current \in 1 .. Len(tables)
      /\ (rehasher.rehashing => rehasher.old \in 1 .. Len(tables)) /\ ~closed
  BY LoneFacts, Zenon
<1>2. /\ p.pc = "idle" /\ ~rehasher.rehashing /\ UNCHANGED <<tables, current, closed>>
      /\ rehasher.name # "noop" => rehasher' = [rehasher EXCEPT !.rehashing = TRUE, !.old = current, !.idx = 0]
      /\ proc' = [proc EXCEPT ![g].pc = "swap", ![g].call = "resize", ![g].idx = count]
  BY Zenon DEF Resize, At
<1>3. p = Idle
  BY <1>1, <1>2, Zenon DEF Formed, Early, Between, Late
<1>4. q.pc = "swap" /\ q.call = "resize" /\ q.items = NoEntries
  BY <1>1, <1>2, <1>3 DEF Proc, Idle
<1>5. current \in Nat
  BY <1>1
<1>6. /\ rehasher'.name = rehasher.name /\ rehasher'.gen = rehasher.gen /\ rehasher'.rehashing
      /\ rehasher'.old = current /\ rehasher'.idx = 0
  <2>1. rehasher' = [rehasher EXCEPT !.rehashing = TRUE, !.old = current, !.idx = 0]
    BY <1>1, <1>2, Zenon DEF Settled
  <2> QED
    BY <1>5, <2>1, RehasherStarted, Zenon DEF Lone, SameRehasher
<1>7. Rest(tables, rehasher') = n
  BY <1>6, Zenon DEF Rest, Cur
<1>8. \A k \in Key : o[k] = None
  BY <1>2, NothingLeft, Zenon
<1>9. Goes(n, o, Idle, n, n, q)
  BY <1>1, <1>3, <1>4, <1>8, ResizeGoes, Zenon
<1>10. Formed(q)
  BY <1>1, <1>4, Zenon DEF Formed
<1>11. Settled(q, rehasher', current, tables)
  BY <1>1, <1>4, <1>6, Zenon DEF Settled, Stepping, Taking
<1>12. Cleared(q, rehasher', tables)
  <2>1. \A x \in Nat : ~Behind(q, rehasher', x)
    BY <1>4, <1>6 DEF Behind
  <2>2. /\ \A k \in Key : Index(k, Size(tables, current)) \in 0 .. Size(tables, current) - 1
        /\ Size(tables, current) \in Nat
    BY <1>1, StoredType, Zenon
  <2>3. \A k \in Key : Index(k, Size(tables, current)) \in Nat
    BY <2>2
  <2> QED
    BY <1>6, <2>1, <2>3, Zenon DEF Cleared
<1>13. /\ Goes(n, o, p, Cur(tables', current'), Rest(tables', rehasher'), proc'[g])
       /\ Settled(proc'[g], rehasher', current', tables') /\ Placed(tables')
       /\ Cleared(proc'[g], rehasher', tables') /\ ~closed' /\ Formed(proc'[g])
  BY <1>1, <1>2, <1>3, <1>7, <1>9, <1>10, <1>11, <1>12, Zenon
<1> QED
  BY <1>13, Concludes, Zenon DEF Lone

\* The new table is empty, and what was in force is what is left.
LEMMA StoreRefines ==
    ASSUME NEW g, Lone(g), ResizeStore(g)
    PROVE  Refined(g)
<1> DEFINE p == proc[g]
           q == proc'[g]
           n == Cur(tables, current)
           o == Rest(tables, rehasher)
<1>1. /\ g \in Goroutine /\ proc \in [Goroutine -> Proc] /\ Formed(p) /\ Entries(n, o, p) /\ q \in Proc
      /\ p \in Proc /\ current # 0 /\ Settled(p, rehasher, current, tables) /\ n \in Content /\ o \in Content
      /\ Placed(tables) /\ Cleared(p, rehasher, tables) /\ tables \in Seq(Shards) /\ current \in 1 .. Len(tables)
      /\ (rehasher.rehashing => rehasher.old \in 1 .. Len(tables)) /\ ~closed
  BY LoneFacts, Zenon
<1> DEFINE l == Len(tables) + 1
<1>2. /\ p.pc = "swap" /\ tables' = Append(tables, NewTable(p.idx)) /\ current' = l
      /\ Return(g) /\ UNCHANGED <<rehasher, closed>>
  BY Zenon DEF ResizeStore, At
<1>3. q = Idle
  BY <1>1, <1>2, Zenon DEF Return
<1>4. p.idx \in Nat \ {0} /\ p.call = "resize"
  <2>1. GoodProc(p, tables)
    BY <1>1, Zenon DEF Lone, Sound
  <2> QED
    BY <1>1, <1>2, <2>1 DEF GoodProc, Proc, Formed, Early, Between, Late, Idle
<1>5. rehasher.rehashing /\ rehasher.old = current /\ current = Len(tables) /\ rehasher.name # "noop"
  BY <1>1, <1>2, Zenon DEF Settled
<1>6. NewTable(p.idx) \in Shards
  BY <1>4, NewShards, Zenon DEF Types, Lone
<1>7. /\ tables' \in Seq(Shards) /\ Len(tables') = l /\ Len(tables) \in Nat /\ l \in 1 .. Len(tables')
      /\ tables'[l] = NewTable(p.idx) /\ \A x \in 1 .. Len(tables) : tables'[x] = tables[x]
  BY <1>1, <1>2, <1>6
<1>8. \A x \in 1 .. Len(tables) :
          /\ Size(tables', x) = Size(tables, x)
          /\ \A k \in Key : Stored(tables', x, k) = Stored(tables, x, k)
  BY <1>7, Zenon DEF Stored, Size
<1>9. \A i \in DOMAIN NewTable(p.idx) : \A k \in Key : NewTable(p.idx)[i][k] = None
  BY Zenon DEF NewTable, NoEntries
<1>10. \A k \in Key : Stored(tables', l, k) = None
  <2>1. \A k \in Key : Index(k, Size(tables', l)) \in DOMAIN tables'[l]
    BY <1>7, StoredType, Zenon
  <2> HIDE DEF l
  <2> QED
    BY <1>7, <1>9, <2>1, Zenon DEF Stored
<1>11. Cur(tables', l) = NoEntries
  BY <1>10, Zenon DEF Cur, NoEntries
<1>12. Rest(tables', rehasher) = o
  BY <1>1, <1>8, Zenon DEF Rest
<1>13. Goes(n, o, p, NoEntries, o, Idle)
  BY <1>1, <1>2, <1>4, StoreGoes, Zenon
<1>14. Formed(Idle)
  BY <1>1, <1>3, Zenon DEF Formed
<1>15. Settled(Idle, rehasher, l, tables')
  BY <1>5, <1>7 DEF Settled, Idle, Stepping, Taking
<1>16. Placed(tables')
  <2> SUFFICES ASSUME NEW x \in 1 .. Len(tables'), NEW i \in DOMAIN tables'[x], NEW k \in Key,
                      tables'[x][i][k] # None
               PROVE  i = Index(k, Size(tables', x))
    BY Zenon DEF Placed
  <2>1. x \in 1 .. Len(tables) \/ x = l
    BY <1>7
  <2>2. x # l
    BY <1>7, <1>9, Zenon
  <2>3. x \in 1 .. Len(tables) /\ tables'[x] = tables[x] /\ Size(tables', x) = Size(tables, x)
    BY <1>7, <1>8, <2>1, <2>2, Zenon
  <2> QED
    BY <1>1, <2>3 DEF Placed
<1>17. Cleared(Idle, rehasher, tables')
  <2>1. \A x : Behind(Idle, rehasher, x) => Behind(p, rehasher, x)
    BY Zenon DEF Behind, Idle
  <2> QED
    BY <1>1, <1>5, <1>8, <2>1, Zenon DEF Cleared
<1>18. /\ Goes(n, o, p, Cur(tables', current'), Rest(tables', rehasher'), proc'[g])
       /\ Settled(proc'[g], rehasher', current', tables')
       /\ Cleared(proc'[g], rehasher', tables') /\ ~closed' /\ Formed(proc'[g])
  BY <1>1, <1>2, <1>3, <1>11, <1>12, <1>13, <1>14, <1>15, <1>17, Zenon
<1> QED
  BY <1>16, <1>18, Concludes, Zenon DEF Lone

-----------------------------------------------------------------------------
(* The refinement *)

(* What a lone caller may do: it changes no rehasher and does not close, and *)
(* there is a rehasher that migrates.                                        *)
OneCaller(g) ==
    /\ Goroutine = {g}
    /\ Calls[g] \subseteq {"get", "set", "del", "resize"}
    /\ "noop" \notin FirstNames

\* Each step of a lone caller.
LEMMA AloneStep ==
    ASSUME NEW g, OneCaller(g), Types, Sound, Types', Sound', AloneInv(g), Next
    PROVE  Refined(g)
<1>1. Lone(g) /\ g \in Goroutine /\ Formed(proc[g])
  BY Zenon DEF Lone, OneCaller, AloneInv
<1>2. Operation(g) \/ Step(g) \/ Admin(g)
  BY Zenon DEF Next, OneCaller
<1>3. CASE Operation(g)
  <2>1. "get" \in KeyCall /\ "set" \in KeyCall /\ "del" \in KeyCall /\ "get" # "set" /\ "del" # "set"
    BY Zenon DEF KeyCall
  <2>2. ASSUME NEW key \in Key, Call(g, "get", key, None) PROVE Refined(g)
    BY <1>1, <2>1, <2>2, CallRefines, Zenon
  <2>3. ASSUME NEW key \in Key, Call(g, "del", key, None) PROVE Refined(g)
    BY <1>1, <2>1, <2>3, CallRefines, Zenon
  <2>4. ASSUME NEW key \in Key, NEW val \in Value, Call(g, "set", key, val) PROVE Refined(g)
    BY <1>1, <2>1, <2>4, CallRefines, Zenon
  <2> QED
    BY <1>1, <1>3, <2>2, <2>3, <2>4, ShardRefines, ApplyRefines, GetRefines, CheckRefines,
       OldShardRefines, OldDelRefines, OldGetRefines, Zenon DEF Operation
<1>4. CASE Step(g)
  BY <1>1, <1>4, CheckRefines, BeginRefines, ExtractRefines, MoveRefines, EndRefines, Zenon DEF Step
<1>5. CASE Admin(g)
  <2>1. ~(\E name \in SwapNames : SetRehasher(g, name)) /\ ~Close(g)
    BY Zenon DEF SetRehasher, Close, OneCaller
  <2>2. proc[g].pc # "install" /\ proc[g].pc # "stop"
    BY <1>1 DEF Formed, Early, Between, Late, Idle
  <2>3. ~Install(g) /\ ~CloseStop(g)
    BY <2>2, Zenon DEF Install, CloseStop, At
  <2> QED
    BY <1>1, <1>5, <2>1, <2>3, ResizeRefines, StoreRefines, Zenon DEF Admin
<1> QED
  BY <1>2, <1>3, <1>4, <1>5, Zenon

\* At first each entry is in the shard of its key, and no migration is under way.
LEMMA AloneInit ==
    ASSUME NEW g, OneCaller(g), Init, Types, Sound
    PROVE  AloneInv(g) /\ proc[g] = Idle /\ View = acked
<1>1. PICK m \in Content :
          /\ tables = <<[i \in 0 .. FirstCount - 1 |->
                            [k \in Key |-> IF Index(k, FirstCount) = i THEN m[k] ELSE None]]>>
          /\ acked = m
  BY Zenon DEF Init
<1>2. PICK name \in FirstNames : rehasher = newRehasher(name, 0)
  BY Zenon DEF Init
<1>3. /\ rehasher.name # "noop" /\ rehasher.rehashing = FALSE
  BY <1>2, Zenon DEF newRehasher, OneCaller
<1>4. current = 1 /\ ~closed /\ proc[g] = Idle
  BY Zenon DEF Init, OneCaller
<1>5. /\ tables \in Seq(Shards) /\ Len(tables) = 1 /\ current \in 1 .. Len(tables) /\ GoodRehasher(rehasher, tables)
      /\ DOMAIN tables[1] = 0 .. FirstCount - 1
      /\ \A i \in 0 .. FirstCount - 1 : \A k \in Key :
             tables[1][i][k] = IF Index(k, FirstCount) = i THEN m[k] ELSE None
  BY <1>1, <1>4 DEF Types, Sound
<1>6. Size(tables, 1) = FirstCount
  <2>1. Size(tables, 1) \in Nat \ {0} /\ DOMAIN tables[1] = 0 .. Size(tables, 1) - 1
    BY <1>4, <1>5, StoredType, Zenon
  <2>2. FirstCount \in Nat \ {0}
    BY CacheAssumption, Zenon
  <2> DEFINE size == Size(tables, 1)
  <2>3. size \in Nat \ {0} /\ 0 .. size - 1 = 0 .. FirstCount - 1
    BY <1>5, <2>1, Zenon
  <2> HIDE DEF size
  <2>4. size - 1 \in 0 .. FirstCount - 1 /\ FirstCount - 1 \in 0 .. size - 1
    BY <2>2, <2>3
  <2>5. size = FirstCount
    BY <2>2, <2>3, <2>4
  <2> QED
    BY <2>5, Zenon DEF size
<1>7. Placed(tables)
  <2>1. \A t \in 1 .. Len(tables) : t = 1
    <3>1. Len(tables) = 1
      BY <1>5, Zenon
    <3> QED
      BY <3>1
  <2>3. \A i \in DOMAIN tables[1] : \A k \in Key : tables[1][i][k] # None => i = Index(k, Size(tables, 1))
    BY <1>5, <1>6, Zenon
  <2> QED
    BY <2>1, <2>3, Zenon DEF Placed
<1>8. \A k \in Key : Stored(tables, 1, k) = m[k]
  <2>1. \A k \in Key : Index(k, FirstCount) \in 0 .. FirstCount - 1
    BY <1>4, <1>5, <1>6, StoredType, Zenon
  <2> QED
    BY <1>5, <1>6, <2>1, Zenon DEF Stored
<1>9. Cur(tables, current) = m
  BY <1>1, <1>4, <1>8, Zenon DEF Cur, Content
<1>10. \A k \in Key : Rest(tables, rehasher)[k] = None /\ Idle.items[k] = None
  BY <1>3, Zenon DEF Rest, Idle, NoEntries
<1>11. Entries(Cur(tables, current), Rest(tables, rehasher), Idle)
  BY <1>10, Zenon DEF Entries, Idle, Between, Early, Late
<1>12. Formed(Idle)
  BY Blank, Zenon DEF Formed
<1>13. Settled(Idle, rehasher, current, tables) /\ Cleared(Idle, rehasher, tables)
  BY <1>3, <1>4, <1>5, Zenon DEF Settled, Cleared, Idle, Stepping, Taking
<1>14. AloneInv(g)
  BY <1>4, <1>7, <1>11, <1>12, <1>13, Zenon DEF AloneInv
<1>15. View = Seen(m, Rest(tables, rehasher), Idle.items)
  <2>1. current # 0
    BY <1>4
  <2> QED
    BY <1>4, <1>9, <2>1, ViewIs, Zenon DEF OneCaller
<1>16. View = m
  BY <1>10, <1>15, Zenon DEF Seen, Content
<1> QED
  BY <1>1, <1>4, <1>14, <1>16, Zenon

\* The call that the map sees.
Done(v, p) == IF Answered(v, p) THEN TRUE ELSE FALSE
Asked(v, p) ==
    IF p.call \in KeyCall
    THEN [call |-> p.call, key |-> p.key, val |-> p.val, done |-> Done(v, p)]
    ELSE KV!NoRequest

\* Request, of the map v and the caller p.
Stated(v, p) ==
    LET undecided == p.pc \in {"load", "apply", "check", "old", "oldApply"}
        done == CASE p.call = "set" -> p.pc \notin {"load", "apply"}
                  [] p.call = "del" -> p.pc \notin {"load", "apply"} /\ v[p.key] = None
                  [] p.call = "get" -> ~undecided
    IN  IF p.call \in {"get", "set", "del"}
        THEN [call |-> p.call, key |-> p.key, val |-> p.val, done |-> done]
        ELSE [call |-> "none", key |-> None, val |-> None, done |-> FALSE]

\* The two are the same.
LEMMA AskedStated ==
    ASSUME NEW v, NEW p
    PROVE  Stated(v, p) = Asked(v, p)
<1> DEFINE undecided == p.pc \in {"load", "apply", "check", "old", "oldApply"}
           done == CASE p.call = "set" -> p.pc \notin {"load", "apply"}
                     [] p.call = "del" -> p.pc \notin {"load", "apply"} /\ v[p.key] = None
                     [] p.call = "get" -> ~undecided
<1>1. CASE p.call \in KeyCall
  <2>1. done = Answered(v, p)
    <3>1. CASE p.call = "set"
      BY <3>1, Zenon DEF Answered, Early
    <3>2. CASE p.call = "del"
      BY <3>2, Zenon DEF Answered, Early
    <3>3. CASE p.call = "get"
      BY <3>3, Zenon DEF Answered, Early, Between
    <3> QED
      BY <1>1, <3>1, <3>2, <3>3, Zenon DEF KeyCall
  <2>2. Answered(v, p) = Done(v, p)
    BY Zenon DEF Answered, Done
  <2>3. Stated(v, p) = [call |-> p.call, key |-> p.key, val |-> p.val, done |-> done]
    BY <1>1, Zenon DEF Stated, KeyCall
  <2> HIDE DEF done
  <2> QED
    BY <1>1, <2>1, <2>2, <2>3, Zenon DEF Asked
<1>2. CASE p.call \notin KeyCall
  BY <1>2, Zenon DEF Stated, Asked, KeyCall, KV!NoRequest
<1> QED
  BY <1>1, <1>2, Zenon

\* So Request is what is asked, before and after a step.
LEMMA RequestIs ==
    ASSUME NEW g
    PROVE  Request(g) = Asked(View, proc[g]) /\ Request(g)' = Asked(View', proc'[g])
<1>1. Request(g) = Stated(View, proc[g])
  BY Zenon DEF Request, Stated
<1>2. Request(g)' = Stated(View', proc'[g])
  BY Zenon DEF Request, Stated
<1> QED
  BY <1>1, <1>2, AskedStated, Zenon

\* What is asked, done or not.
LEMMA AskedIs ==
    ASSUME NEW v, NEW p
    PROVE  /\ p.call \notin KeyCall => Asked(v, p) = KV!NoRequest
           /\ p.call \in KeyCall /\ Answered(v, p) =>
                  Asked(v, p) = [call |-> p.call, key |-> p.key, val |-> p.val, done |-> TRUE]
           /\ p.call \in KeyCall /\ ~Answered(v, p) =>
                  Asked(v, p) = [call |-> p.call, key |-> p.key, val |-> p.val, done |-> FALSE]
<1>1. (Answered(v, p) => Done(v, p) = TRUE) /\ (~Answered(v, p) => Done(v, p) = FALSE)
  BY Zenon DEF Done
<1> QED
  BY <1>1, Zenon DEF Asked

\* An entry of a function that is a request, and two fields of it.
IsRequest(R, g, c, k, x, e) == R[g] = [call |-> c, key |-> k, val |-> x, done |-> e]
Fields(R, g, c, k, x, e) == R[g].call = c /\ R[g].key = k /\ R[g].val = x /\ R[g].done = e
Ends(R, g, c, k, x, f) ==
    [R EXCEPT ![g].done = f] = [R EXCEPT ![g] = [call |-> c, key |-> k, val |-> x, done |-> f]]
Answers(R, g, c, k, y, f) ==
    [R EXCEPT ![g].done = f, ![g].val = y]
        = [R EXCEPT ![g] = [call |-> c, key |-> k, val |-> y, done |-> f]]

\* The fields of a request, and how they change.
LEMMA FieldsIs ==
    ASSUME NEW R, NEW g \in DOMAIN R, NEW c, NEW k, NEW x, NEW e, IsRequest(R, g, c, k, x, e)
    PROVE  /\ Fields(R, g, c, k, x, e)
           /\ \A f : Ends(R, g, c, k, x, f)
           /\ \A y, f : Answers(R, g, c, k, y, f)
<1> SUFFICES ASSUME NEW y, NEW f
             PROVE  Fields(R, g, c, k, x, e) /\ Ends(R, g, c, k, x, f) /\ Answers(R, g, c, k, y, f)
  BY Zenon
<1>0. R[g] = [call |-> c, key |-> k, val |-> x, done |-> e]
  BY Zenon DEF IsRequest
<1>1. [R[g] EXCEPT !.done = f] = [call |-> c, key |-> k, val |-> x, done |-> f]
  BY <1>0
<1>2. [[call |-> c, key |-> k, val |-> x, done |-> f] EXCEPT !.val = y]
          = [call |-> c, key |-> k, val |-> y, done |-> f]
  OBVIOUS
<1>3. R[g].call = c /\ R[g].key = k /\ R[g].val = x /\ R[g].done = e
  BY <1>0
<1> DEFINE a == [call |-> c, key |-> k, val |-> x, done |-> f]
           b == [call |-> c, key |-> k, val |-> y, done |-> f]
<1>4. [a EXCEPT !.val = y] = b
  BY <1>2, Zenon
<1>5. [R EXCEPT ![g].done = f] = [R EXCEPT ![g] = a]
  BY <1>1, Zenon
<1> HIDE DEF a, b
<1>6. [[R EXCEPT ![g] = a] EXCEPT ![g].val = y] = [R EXCEPT ![g] = b]
  BY <1>4, Zenon
<1>7. [R EXCEPT ![g].done = f, ![g].val = y] = [R EXCEPT ![g] = b]
  BY <1>5, <1>6, Zenon
<1> QED
  BY <1>3, <1>5, <1>7, Zenon DEF a, b, Fields, Ends, Answers

\* What a lone caller sees of a step is a step of the map, or nothing.
LEMMA MapSteps ==
    ASSUME NEW g, Goroutine = {g}, Does(View, proc[g], View', proc'[g])
    PROVE  [KV!Next]_<<View, [h \in Goroutine |-> Request(h)]>>
<1> DEFINE R == [h \in Goroutine |-> Request(h)]
           p == proc[g]
           q == proc'[g]
<1>1. /\ g \in Goroutine /\ R[g] = Asked(View, p) /\ R' = [R EXCEPT ![g] = Asked(View', q)]
  <2>1. R[g] = Request(g) /\ R' = [R EXCEPT ![g] = Request(g)']
    BY Zenon
  <2> QED
    BY <2>1, RequestIs, Zenon
<1>2. CASE Nothing(View, p, View', q)
  <2>1. Asked(View', q) = Asked(View, p) /\ View' = View
    BY <1>2, AskedIs, Zenon DEF Nothing, Same
  <2>2. R' = R
    BY <1>1, <2>1, Zenon
  <2> QED
    BY <2>1, <2>2, Zenon
<1>3. CASE Invoked(View, p, View', q)
  <2>1. /\ R[g] = KV!NoRequest /\ View' = View /\ q.call \in KeyCall /\ q.key \in Key
        /\ Asked(View', q) = [call |-> q.call, key |-> q.key, val |-> q.val, done |-> FALSE]
        /\ IF q.call = "set" THEN q.val \in Value ELSE q.val = None
    BY <1>1, <1>3, AskedIs, Zenon DEF Invoked
  <2>2. KV!Invoke(g, q.call, q.key, q.val)
    BY <1>1, <2>1, Zenon DEF KV!Invoke
  <2> QED
    BY <1>1, <2>1, <2>2 DEF KV!Next, KeyCall
<1>4. CASE Written(View, p, View', q)
  <2>1. /\ R[g] = [call |-> p.call, key |-> p.key, val |-> p.val, done |-> FALSE]
        /\ Asked(View', q) = [call |-> p.call, key |-> p.key, val |-> p.val, done |-> TRUE]
        /\ p.call \in {"set", "del"} /\ View' = [View EXCEPT ![p.key] = p.val]
    <3>1. /\ Same(p, q) /\ q.val = p.val /\ p.call \in {"set", "del"}
          /\ ~Answered(View, p) /\ Answered(View', q) /\ View' = [View EXCEPT ![p.key] = p.val]
      BY <1>4, Zenon DEF Written, Updated
    <3>2. p.call \in KeyCall /\ q.call \in KeyCall /\ q.call = p.call /\ q.key = p.key
      BY <3>1, Zenon DEF Same, KeyCall
    <3>3. Asked(View, p) = [call |-> p.call, key |-> p.key, val |-> p.val, done |-> FALSE]
      BY <3>1, <3>2, AskedIs, Zenon
    <3>4. Asked(View', q) = [call |-> q.call, key |-> q.key, val |-> q.val, done |-> TRUE]
      BY <3>1, <3>2, AskedIs, Zenon
    <3> QED
      BY <1>1, <3>1, <3>2, <3>3, <3>4, Zenon
  <2>2. g \in DOMAIN R /\ R' = [R EXCEPT ![g] = [call |-> p.call, key |-> p.key, val |-> p.val, done |-> TRUE]]
    BY <1>1, <2>1, Zenon
  <2>3. /\ R[g].call = p.call /\ R[g].key = p.key /\ R[g].val = p.val /\ R[g].done = FALSE
        /\ R' = [R EXCEPT ![g].done = TRUE]
    <3> HIDE DEF R, p, q
    <3>1. IsRequest(R, g, p.call, p.key, p.val, FALSE)
      BY <2>1, Zenon DEF IsRequest
    <3>2. Fields(R, g, p.call, p.key, p.val, FALSE) /\ Ends(R, g, p.call, p.key, p.val, TRUE)
      BY <2>2, <3>1, FieldsIs, Zenon
    <3> QED
      BY <2>2, <3>2, Zenon DEF Fields, Ends
  <2>4. KV!Write(g)
    <3>1. KV!Pending(g, "set") \/ KV!Pending(g, "del")
      BY <2>1, <2>3, Zenon DEF KV!Pending
    <3>2. View' = [View EXCEPT ![R[g].key] = R[g].val]
      BY <2>1, <2>3, Zenon
    <3> QED
      BY <2>3, <3>1, <3>2, Zenon DEF KV!Write
  <2> QED
    BY <1>1, <2>4, Zenon DEF KV!Next
<1>5. CASE Read(View, p, View', q)
  <2>1. /\ R[g] = [call |-> "get", key |-> p.key, val |-> p.val, done |-> FALSE]
        /\ Asked(View', q) = [call |-> "get", key |-> p.key, val |-> View[p.key], done |-> TRUE]
        /\ View' = View
    <3>1. /\ Same(p, q) /\ q.val = View[p.key] /\ p.call = "get"
          /\ ~Answered(View, p) /\ Answered(View', q) /\ View' = View
      BY <1>5, Zenon DEF Read
    <3>2. p.call \in KeyCall /\ q.call \in KeyCall /\ q.call = p.call /\ q.key = p.key
      BY <3>1, Zenon DEF Same, KeyCall
    <3>3. Asked(View, p) = [call |-> p.call, key |-> p.key, val |-> p.val, done |-> FALSE]
      BY <3>1, <3>2, AskedIs, Zenon
    <3>4. Asked(View', q) = [call |-> q.call, key |-> q.key, val |-> q.val, done |-> TRUE]
      BY <3>1, <3>2, AskedIs, Zenon
    <3> QED
      BY <1>1, <3>1, <3>2, <3>3, <3>4, Zenon
  <2>2. g \in DOMAIN R /\ R' = [R EXCEPT ![g] = [call |-> "get", key |-> p.key, val |-> View[p.key], done |-> TRUE]]
    BY <1>1, <2>1, Zenon
  <2>3. /\ R[g].call = "get" /\ R[g].key = p.key /\ R[g].done = FALSE
        /\ R' = [R EXCEPT ![g].done = TRUE, ![g].val = View[p.key]]
    <3> HIDE DEF R, p, q
    <3>1. IsRequest(R, g, "get", p.key, p.val, FALSE)
      BY <2>1, Zenon DEF IsRequest
    <3>2. Fields(R, g, "get", p.key, p.val, FALSE) /\ Answers(R, g, "get", p.key, View[p.key], TRUE)
      BY <2>2, <3>1, FieldsIs, Zenon
    <3> QED
      BY <2>2, <3>2, Zenon DEF Fields, Answers
  <2>4. KV!Read(g)
    <3>1. KV!Pending(g, "get")
      BY <2>3, Zenon DEF KV!Pending
    <3>2. R' = [R EXCEPT ![g].done = TRUE, ![g].val = View[R[g].key]]
      BY <2>3, Zenon
    <3> QED
      BY <2>1, <3>1, <3>2, Zenon DEF KV!Read
  <2> QED
    BY <1>1, <2>4, Zenon DEF KV!Next
<1>6. CASE Returned(View, p, View', q)
  <2>1. R[g].done /\ Asked(View', q) = KV!NoRequest /\ View' = View
    BY <1>1, <1>6, AskedIs DEF Returned
  <2>2. KV!Return(g)
    BY <1>1, <2>1, Zenon DEF KV!Return
  <2> QED
    BY <1>1, <2>2, Zenon DEF KV!Next
<1> QED
  BY <1>2, <1>3, <1>4, <1>5, <1>6, Zenon DEF Does

-----------------------------------------------------------------------------
INSTANCE FiniteSetTheorems

\* None and the numbers up to n are finitely many.
LEMMA CountedFact == Counted
<1>1. Cardinality({}) = 0
  BY FS_EmptySet, Zenon
<1>2. ASSUME NEW n \in Nat \ {0} PROVE Counts(n)
  <2>1. 0 \in Int /\ n - 1 \in Int
    OBVIOUS
  <2>2. Cardinality(0 .. n - 1) = IF 0 > n - 1 THEN 0 ELSE (n - 1) - 0 + 1
    BY <2>1, FS_Interval, Zenon
  <2>3. Cardinality(0 .. n - 1) = n
    BY <2>2
  <2> QED
    BY <2>3, Zenon DEF Counts
<1> QED
  BY <1>1, <1>2, Zenon DEF Counted

(* One goroutine that calls Get, Set, Del and Resize sees a plain map,        *)
(* whatever the keys, the values, the hashes, the shard counts and the        *)
(* migrations: each call takes effect once, and no Step shows.                *)
THEOREM AloneRefinesMap ==
    ASSUME NEW CONSTANT me, Goroutine = {me}, Calls[me] \subseteq {"get", "set", "del", "resize"},
           "noop" \notin FirstNames
    PROVE  Spec => ImplementsKVMap
<1>1. OneCaller(me)
  BY Zenon DEF OneCaller
<1>2. Init => Types /\ Sound
  BY CountedFact, TypesInit, Zenon
<1>3. Init /\ Types /\ Sound => AloneInv(me)
  BY <1>1, AloneInit, Zenon
<1>4. Init /\ Types /\ Sound => KV!Init
  <2> SUFFICES ASSUME Init, Types, Sound PROVE KV!Init
    BY Zenon
  <2>1. View = acked /\ proc[me] = Idle
    BY <1>1, AloneInit, Zenon
  <2>2. Request(me) = KV!NoRequest
    BY <2>1, RequestIs DEF Asked, Idle, KeyCall
  <2> QED
    BY <2>1, <2>2, Zenon DEF KV!Init, Types, Content
<1>5. Types /\ Sound /\ [Next]_vars => Types' /\ Sound'
  BY TypesStep, Zenon
<1>6. Types /\ Sound /\ Types' /\ Sound' /\ AloneInv(me) /\ [Next]_vars
          => AloneInv(me)' /\ [KV!Next]_<<View, [g \in Goroutine |-> Request(g)]>>
  <2> SUFFICES ASSUME Types, Sound, Types', Sound', AloneInv(me), [Next]_vars
               PROVE  AloneInv(me)' /\ [KV!Next]_<<View, [g \in Goroutine |-> Request(g)]>>
    BY Zenon
  <2>1. CASE Next
    <3>1. Refined(me)
      BY <1>1, <2>1, AloneStep, Zenon
    <3> QED
      BY <3>1, MapSteps, Zenon DEF Refined
  <2>2. CASE UNCHANGED vars
    <3>1. tables' = tables /\ current' = current /\ rehasher' = rehasher /\ closed' = closed /\ proc' = proc
      BY <2>2, Zenon DEF vars
    <3>2. AloneInv(me)'
      BY <3>1, Zenon DEF AloneInv
    <3>3. View' = View /\ \A g \in Goroutine : Request(g)' = Request(g)
      BY <3>1 DEF View, Request, New, Old, InFlight, Lookup, Count
    <3> QED
      BY <3>2, <3>3, Zenon
  <2> QED
    BY <2>1, <2>2, Zenon
<1>7. Spec => [](Types /\ Sound)
  BY <1>2, <1>5, PTL DEF Spec
<1>8. Spec => [](AloneInv(me))
  BY <1>2, <1>3, <1>6, <1>7, PTL DEF Spec
<1>9. Spec => [][KV!Next]_<<View, [g \in Goroutine |-> Request(g)]>>
  BY <1>6, <1>7, <1>8, PTL DEF Spec
<1>10. Spec => KV!Init
  BY <1>2, <1>4, PTL DEF Spec
<1> QED
  BY <1>9, <1>10, PTL DEF ImplementsKVMap, KV!Spec
=============================================================================
