----------------------------- MODULE CacheProofs -----------------------------
(***************************************************************************)
(* What holds of a migration for every number of goroutines, of keys, of   *)
(* shards and of Resizes, and that every step keeps it: the types, that a  *)
(* Step finds its shard in the table it loaded (Sound and StepsInv), and   *)
(* the count of the ends that are reported (DoneInv).  The theorems that   *)
(* rest on it are in CacheMigration and CacheAlone.                        *)
(***************************************************************************)
EXTENDS Cache, TLAPS

\* How Cardinality counts no entry and n shards: CountedFact, in the modules with the theorems.
Counts(n) == Cardinality(0 .. n - 1) = n
Counted == Cardinality({}) = 0 /\ \A n \in Nat \ {0} : Counts(n)

Shards == UNION {{s \in [0 .. n - 1 -> Content] : Counts(n)} : n \in Nat \ {0}}

Place == {"idle", "load", "apply", "check", "old", "oldApply", "stepping", "table", "begin",
          "extract", "move", "end", "swap", "install", "stop"}

Proc ==
    [pc : Place, call : CallName \cup {"none"}, key : Key \cup {None}, val : Value \cup {None},
     table : Nat, old : Nat, idx : Nat, name : RehasherName, gen : Nat, items : Content,
     moved : BOOLEAN]

Rehasher == [name : RehasherName, rehashing : BOOLEAN, old : Nat, idx : Nat, gen : Nat]

(* The types, without the bounds of TypeOK. *)
Types ==
    /\ tables \in Seq(Shards)
    /\ current \in 0 .. Len(tables)
    /\ rehasher \in Rehasher
    /\ closed \in BOOLEAN
    /\ proc \in [Goroutine -> Proc]
    /\ acked \in Content
    /\ finished \in Nat
    /\ panicked \in BOOLEAN
    /\ Counted

\* ts[t][i] is a shard.
Within(ts, t, i) == t \in 1 .. Len(ts) /\ i \in DOMAIN ts[t]

(* Who is in a call on a key has one, Resize has a count, and what a call   *)
(* or a Step looks into exists.                                             *)
GoodProc(p, ts) ==
    /\ p.pc \notin {"idle", "swap", "install", "stop"} => p.key \in Key
    /\ p.pc = "swap" => p.idx # 0
    /\ p.pc = "apply" => p.table \in 1 .. Len(ts)
    /\ p.pc \in {"oldApply", "extract", "move"} => Within(ts, p.old, p.idx)

GoodRehasher(r, ts) ==
    /\ r.old \in 0 .. Len(ts)
    /\ r.rehashing => Within(ts, r.old, r.idx)

Sound ==
    /\ \A g \in Goroutine : GoodProc(proc[g], tables)
    /\ GoodRehasher(rehasher, tables)
    /\ ~closed => current # 0

-----------------------------------------------------------------------------
(* Tables *)

\* A table of n shards.
LEMMA IsShards ==
    ASSUME NEW n \in Nat \ {0}, Counts(n), NEW s \in [0 .. n - 1 -> Content]
    PROVE  s \in Shards
<1> DEFINE T == {x \in [0 .. n - 1 -> Content] : Counts(n)}
<1>1. s \in T
  BY Zenon
<1>2. T \in {{x \in [0 .. m - 1 -> Content] : Counts(m)} : m \in Nat \ {0}}
  BY Zenon
<1> HIDE DEF T
<1> QED
  BY <1>1, <1>2, Zenon DEF Shards

\* A table has n shards, numbered from 0.
LEMMA ShardsOf ==
    ASSUME NEW s \in Shards
    PROVE  \E n \in Nat \ {0} : s \in [0 .. n - 1 -> Content] /\ DOMAIN s = 0 .. n - 1
                                /\ Cardinality(DOMAIN s) = n
<1>1. PICK n \in Nat \ {0} : s \in [0 .. n - 1 -> Content] /\ Counts(n)
  BY Zenon DEF Shards
<1>2. DOMAIN s = 0 .. n - 1
  BY <1>1, Zenon
<1> QED
  BY <1>1, <1>2, Zenon DEF Counts

\* The index of a key is one of the shards of the table.
LEMMA IndexInTable ==
    ASSUME Types, NEW t \in 1 .. Len(tables), NEW key \in Key
    PROVE  Index(key, Count(t)) \in DOMAIN tables[t] /\ Index(key, Count(t)) \in Nat
<1>1. tables[t] \in Shards
  BY DEF Types
<1>2. PICK n \in Nat \ {0} : DOMAIN tables[t] = 0 .. n - 1 /\ Cardinality(DOMAIN tables[t]) = n
  BY <1>1, ShardsOf, Zenon
<1>3. Count(t) = n
  BY <1>2 DEF Count
<1>4. HashOf[key] \in Nat
  BY CacheAssumption, Zenon
<1>5. HashOf[key] % n \in 0 .. n - 1
  BY <1>4
<1> QED
  BY <1>2, <1>3, <1>5 DEF Index

\* What Index is for any table that may be asked for.
LEMMA IndexType ==
    ASSUME Types, NEW t \in 0 .. Len(tables), NEW key \in Key
    PROVE  Index(key, Count(t)) \in Nat
<1>1. CASE t = 0
  <2>1. Count(t) = 1 /\ HashOf[key] \in Nat
    BY <1>1, CacheAssumption, Zenon DEF Count
  <2> QED
    BY <2>1 DEF Index
<1>2. CASE t # 0
  BY <1>2, IndexInTable DEF Types
<1> QED
  BY <1>1, <1>2, Zenon

\* The tables u are s with another shard, or with another entry.
StoredShard(u, s, t, i, c) == u = [s EXCEPT ![t][i] = c]
StoredEntry(u, s, t, i, key, val) == u = [s EXCEPT ![t][i][key] = val]

\* What it means: as many tables as large, and the same but for that place.
SameSize(u, s) ==
    /\ u \in Seq(Shards) /\ Len(u) = Len(s)
    /\ \A x \in 1 .. Len(s) : DOMAIN u[x] = DOMAIN s[x]
OtherShard(u, s, t, i, c) ==
    /\ \A x \in 1 .. Len(s) : x # t => u[x] = s[x]
    /\ \A j \in DOMAIN s[t] : u[t][j] = IF j = i THEN c ELSE s[t][j]
OtherEntry(u, s, t, i, key, val) ==
    \A x \in 1 .. Len(s) : \A j \in DOMAIN s[x] : \A k \in Key :
        u[x][j][k] = IF x = t /\ j = i /\ k = key THEN val ELSE s[x][j][k]

\* One shard is stored.
LEMMA ShardStored ==
    ASSUME NEW s \in Seq(Shards), NEW t \in 1 .. Len(s), NEW i \in DOMAIN s[t], NEW c \in Content,
           NEW u, StoredShard(u, s, t, i, c)
    PROVE  SameSize(u, s) /\ OtherShard(u, s, t, i, c)
<1>1. s[t] \in Shards /\ Len(s) \in Nat /\ DOMAIN s = 1 .. Len(s)
  OBVIOUS
<1>2. PICK n \in Nat \ {0} : s[t] \in [0 .. n - 1 -> Content] /\ Counts(n)
  BY <1>1, Zenon DEF Shards
<1> DEFINE v == [s[t] EXCEPT ![i] = c]
<1>3. v \in [0 .. n - 1 -> Content] /\ DOMAIN v = DOMAIN s[t]
      /\ \A j \in DOMAIN s[t] : v[j] = IF j = i THEN c ELSE s[t][j]
  BY <1>2, Zenon
<1>4. v \in Shards
  BY <1>2, <1>3, IsShards, Zenon
<1> HIDE DEF v
<1>5. u = [s EXCEPT ![t] = v]
  BY Zenon DEF v, StoredShard
<1>6. u \in Seq(Shards) /\ Len(u) = Len(s)
  <2>1. [s EXCEPT ![t] = v] \in Seq(Shards) /\ Len([s EXCEPT ![t] = v]) = Len(s)
    BY <1>1, <1>4
  <2> QED
    BY <1>5, <2>1, Zenon
<1>7. u[t] = v /\ \A x \in 1 .. Len(s) : x # t => u[x] = s[x]
  BY <1>1, <1>5, Zenon
<1>8. SameSize(u, s)
  BY <1>3, <1>6, <1>7, Zenon DEF SameSize
<1>9. OtherShard(u, s, t, i, c)
  BY <1>3, <1>7, Zenon DEF OtherShard
<1> QED
  BY <1>8, <1>9, Zenon

\* One entry is stored, or nothing if the place does not exist.
LEMMA EntryStored ==
    ASSUME NEW s \in Seq(Shards), NEW t, NEW i, NEW key, NEW val \in Value \cup {None},
           NEW u, StoredEntry(u, s, t, i, key, val)
    PROVE  SameSize(u, s) /\ OtherEntry(u, s, t, i, key, val)
<1>1. Len(s) \in Nat /\ DOMAIN s = 1 .. Len(s) /\ \A x \in 1 .. Len(s) : s[x] \in Shards
  OBVIOUS
<1> DEFINE c == [s[t][i] EXCEPT ![key] = val]
<1>2. StoredShard(u, s, t, i, c)
  BY Zenon DEF StoredEntry, StoredShard
<1>3. CASE t \in 1 .. Len(s) /\ i \in DOMAIN s[t]
  <2>1. PICK n \in Nat \ {0} : s[t] \in [0 .. n - 1 -> Content] /\ DOMAIN s[t] = 0 .. n - 1
    BY <1>1, <1>3, ShardsOf, Zenon
  <2>2. s[t][i] \in Content
    BY <1>3, <2>1, Zenon
  <2>3. c \in Content /\ \A k \in Key : c[k] = IF k = key THEN val ELSE s[t][i][k]
    BY <2>2, Zenon DEF Content
  <2> HIDE DEF c
  <2>4. /\ u \in Seq(Shards) /\ Len(u) = Len(s)
        /\ \A x \in 1 .. Len(s) : DOMAIN u[x] = DOMAIN s[x]
        /\ \A x \in 1 .. Len(s) : x # t => u[x] = s[x]
        /\ \A j \in DOMAIN s[t] : u[t][j] = IF j = i THEN c ELSE s[t][j]
    <3>1. SameSize(u, s) /\ OtherShard(u, s, t, i, c)
      BY <1>2, <1>3, <2>3, ShardStored, Zenon
    <3> QED
      BY <3>1, Zenon DEF SameSize, OtherShard
  <2>5. ASSUME NEW x \in 1 .. Len(s), NEW j \in DOMAIN s[x], NEW k \in Key
        PROVE  u[x][j][k] = IF x = t /\ j = i /\ k = key THEN val ELSE s[x][j][k]
    <3>1. CASE x = t
      <4>1. u[x][j] = IF j = i THEN c ELSE s[x][j]
        BY <2>4, <2>5, <3>1, Zenon
      <4>2. CASE j = i
        BY <2>3, <2>5, <3>1, <4>1, <4>2, Zenon
      <4>3. CASE j # i
        BY <4>1, <4>3, Zenon
      <4> QED
        BY <4>2, <4>3, Zenon
    <3>2. CASE x # t
      BY <2>4, <2>5, <3>2, Zenon
    <3> QED
      BY <3>1, <3>2, Zenon
  <2> QED
    BY <2>4, <2>5, Zenon DEF SameSize, OtherEntry
<1> HIDE DEF c
<1>4. CASE t \notin 1 .. Len(s)
  <2>1. u = s
    BY <1>1, <1>2, <1>4 DEF StoredShard
  <2> QED
    BY <1>4, <2>1, Zenon DEF SameSize, OtherEntry
<1>5. CASE t \in 1 .. Len(s) /\ i \notin DOMAIN s[t]
  <2> DEFINE v == [s[t] EXCEPT ![i] = c]
  <2>1. PICK n \in Nat \ {0} : s[t] \in [0 .. n - 1 -> Content]
    BY <1>1, <1>5, ShardsOf, Zenon
  <2>2. v = s[t]
    BY <1>5, <2>1, Zenon
  <2>3. u = [s EXCEPT ![t] = v]
    BY <1>2, Zenon DEF StoredShard
  <2> HIDE DEF v
  <2>4. u = s
    BY <1>1, <2>2, <2>3
  <2> QED
    BY <1>5, <2>4, Zenon DEF SameSize, OtherEntry
<1> QED
  BY <1>3, <1>4, <1>5, Zenon

\* Tables are added, and none changes its shards.
Grows(ts, us) ==
    /\ us \in Seq(Shards) /\ Len(us) >= Len(ts)
    /\ \A x \in 1 .. Len(ts) : DOMAIN us[x] = DOMAIN ts[x]

\* Nothing and no place are what they should be.
LEMMA Blank == NoEntries \in Content /\ Idle \in Proc
<1>1. NoEntries \in Content
  BY Zenon DEF NoEntries, Content
<1> QED
  BY <1>1, Zenon DEF Idle, Proc, Place, RehasherName

\* The table of a Resize.
LEMMA NewShards == ASSUME Counted, NEW n \in Nat \ {0} PROVE NewTable(n) \in Shards
<1>1. NewTable(n) \in [0 .. n - 1 -> Content]
  BY Blank, Zenon DEF NewTable
<1> QED
  BY <1>1, IsShards, Zenon DEF Counted

\* The types hold initially.
LEMMA TypesInit == Counted /\ Init => Types /\ Sound
<1> SUFFICES ASSUME Counted, Init PROVE Types /\ Sound
  BY Zenon
<1>1. PICK m \in Content :
          /\ tables = <<[i \in 0 .. FirstCount - 1 |->
                           [k \in Key |-> IF Index(k, FirstCount) = i THEN m[k] ELSE None]]>>
          /\ acked = m
  BY Zenon DEF Init
<1> DEFINE s == [i \in 0 .. FirstCount - 1 |->
                    [k \in Key |-> IF Index(k, FirstCount) = i THEN m[k] ELSE None]]
<1>2. s \in Shards
  <2>1. s \in [0 .. FirstCount - 1 -> Content]
    BY Zenon DEF Content
  <2>2. FirstCount \in Nat \ {0}
    BY CacheAssumption, Zenon
  <2> HIDE DEF s
  <2> QED
    BY <2>1, <2>2, IsShards, Zenon DEF Counted
<1>3. tables = <<s>>
  BY <1>1, Zenon
<1> HIDE DEF s
<1>4. tables \in Seq(Shards) /\ Len(tables) = 1
  BY <1>2, <1>3
<1>5. rehasher \in Rehasher /\ rehasher.old = 0 /\ ~rehasher.rehashing
  <2>1. PICK name \in FirstNames : rehasher = newRehasher(name, 0)
    BY Zenon DEF Init
  <2>2. name \in RehasherName
    BY CacheAssumption, Zenon
  <2> QED
    BY <2>1, <2>2, Zenon DEF newRehasher, Rehasher
<1>6. proc \in [Goroutine -> Proc] /\ \A g \in Goroutine : proc[g] = Idle
  BY Blank, Zenon DEF Init
<1>7. \A g \in Goroutine : proc[g].pc = "idle"
  BY <1>6 DEF Idle
<1>8. current = 1 /\ closed = FALSE /\ finished = 0 /\ panicked = FALSE
  BY Zenon DEF Init
<1> QED
  <2>1. current \in 0 .. Len(tables) /\ rehasher.old \in 0 .. Len(tables) /\ finished \in Nat
    BY <1>4, <1>5, <1>8
  <2>2. \A g \in Goroutine : GoodProc(proc[g], tables)
    BY <1>7, Zenon DEF GoodProc
  <2>3. GoodRehasher(rehasher, tables)
    BY <1>5, <2>1, Zenon DEF GoodRehasher
  <2>4. current # 0
    BY <1>8
  <2> QED
    BY <1>1, <1>4, <1>5, <1>6, <1>8, <2>1, <2>2, <2>3, <2>4, Zenon DEF Types, Sound


-----------------------------------------------------------------------------
(* The types are kept *)

\* Tables that grow keep what was said of them.
LEMMA GoodKept ==
    ASSUME NEW ts \in Seq(Shards), NEW us, Grows(ts, us)
    PROVE  /\ \A p : GoodProc(p, ts) => GoodProc(p, us)
           /\ \A r : GoodRehasher(r, ts) => GoodRehasher(r, us)
<1>1. Len(ts) \in Nat /\ Len(us) \in Nat /\ Len(us) >= Len(ts)
  BY DEF Grows
<1>2. \A t, i : Within(ts, t, i) => Within(us, t, i)
  BY <1>1 DEF Within, Grows
<1>3. \A t : /\ t \in 0 .. Len(ts) => t \in 0 .. Len(us)
             /\ t \in 1 .. Len(ts) => t \in 1 .. Len(us)
  BY <1>1
<1> QED
  BY <1>2, <1>3, Zenon DEF GoodProc, GoodRehasher

\* Tables that stay as they are grow.
LEMMA GrowsSame == ASSUME Types, tables' = tables PROVE Grows(tables, tables')
  BY DEF Types, Grows

\* Only g moves.
OnlyMoves(g) ==
    /\ proc' \in [Goroutine -> Proc]
    /\ \A h \in Goroutine : h # g => proc'[h] = proc[h]

\* A step of one goroutine keeps the types if what it changes has its type.
LEMMA SoundMoves ==
    ASSUME Types, Sound, NEW g \in Goroutine, OnlyMoves(g), Grows(tables, tables'),
           GoodProc(proc'[g], tables'),
           rehasher' \in Rehasher, GoodRehasher(rehasher', tables'),
           current' \in 0 .. Len(tables'), closed' \in BOOLEAN, ~closed' => current' # 0,
           acked' \in Content, finished' \in Nat, panicked' \in BOOLEAN
    PROVE  Types' /\ Sound'
<1>1. \A h \in Goroutine : GoodProc(proc'[h], tables')
  <2> SUFFICES ASSUME NEW h \in Goroutine, h # g PROVE GoodProc(proc'[h], tables')
    BY Zenon
  <2>1. proc'[h] = proc[h] /\ GoodProc(proc[h], tables)
    BY Zenon DEF OnlyMoves, Sound
  <2>2. \A p : GoodProc(p, tables) => GoodProc(p, tables')
    BY GoodKept, Zenon DEF Types
  <2> QED
    BY <2>1, <2>2, Zenon
<1>2. tables' \in Seq(Shards) /\ proc' \in [Goroutine -> Proc]
  BY Zenon DEF Grows, OnlyMoves
<1> QED
  BY <1>1, <1>2, Zenon DEF Types, Sound

\* A step that only moves a goroutine, and may acknowledge or panic.
LEMMA LocalMoves ==
    ASSUME Types, Sound, NEW g \in Goroutine, OnlyMoves(g), GoodProc(proc'[g], tables),
           UNCHANGED <<tables, current, rehasher, closed, finished>>,
           acked' \in Content, panicked' \in BOOLEAN
    PROVE  Types' /\ Sound'
<1>1. Grows(tables, tables')
  BY GrowsSame, Zenon
<1>2. tables' = tables /\ current' = current /\ rehasher' = rehasher /\ closed' = closed
      /\ finished' = finished
  BY Zenon
<1>3. /\ rehasher' \in Rehasher /\ GoodRehasher(rehasher', tables')
      /\ current' \in 0 .. Len(tables') /\ closed' \in BOOLEAN /\ (~closed' => current' # 0)
      /\ finished' \in Nat
  <2>1. /\ rehasher \in Rehasher /\ GoodRehasher(rehasher, tables)
        /\ current \in 0 .. Len(tables) /\ closed \in BOOLEAN /\ (~closed => current # 0)
        /\ finished \in Nat
    BY Zenon DEF Types, Sound
  <2> QED
    BY <1>2, <2>1
<1>4. GoodProc(proc'[g], tables')
  BY <1>2, Zenon
<1> QED
  BY <1>1, <1>3, <1>4, SoundMoves, Zenon

\* A call that returns.
LEMMA Returns ==
    ASSUME Types, NEW g \in Goroutine, Return(g)
    PROVE  /\ OnlyMoves(g) /\ proc'[g] = Idle /\ acked' \in Content
           /\ \A ts : GoodProc(proc'[g], ts)
<1>1. proc' = [proc EXCEPT ![g] = Idle] /\ proc \in [Goroutine -> Proc]
  BY Zenon DEF Return, Types
<1>2. OnlyMoves(g) /\ proc'[g] = Idle
  BY <1>1, Blank, Zenon DEF OnlyMoves
<1>3. acked' \in Content
  <2>1. proc[g] \in Proc
    BY <1>1, Zenon
  <2>2. proc[g].val \in Value \cup {None}
    BY <2>1, Zenon DEF Proc
  <2>3. [acked EXCEPT ![proc[g].key] = proc[g].val] \in Content
    BY <2>2, Zenon DEF Types, Content
  <2> QED
    BY <2>3, Zenon DEF Return, Types
<1>4. \A ts : GoodProc(Idle, ts)
  BY Zenon DEF GoodProc, Idle
<1> QED
  BY <1>2, <1>3, <1>4, Zenon


\* A goroutine that goes on elsewhere keeps everything else.
LEMMA GoesOn ==
    ASSUME Types, NEW g \in Goroutine, NEW pc \in Place, Goto(g, pc)
    PROVE  /\ OnlyMoves(g)
           /\ proc'[g] = [proc[g] EXCEPT !.pc = pc] /\ proc'[g].pc = pc
           /\ proc'[g].key = proc[g].key /\ proc'[g].idx = proc[g].idx
           /\ proc'[g].old = proc[g].old /\ proc'[g].items = proc[g].items
           /\ proc'[g].call = proc[g].call /\ proc'[g].table = proc[g].table
<1>1. proc' = [proc EXCEPT ![g].pc = pc] /\ proc \in [Goroutine -> Proc]
  BY Zenon DEF Goto, Types
<1>2. proc[g] \in Proc /\ proc'[g] = [proc[g] EXCEPT !.pc = pc]
      /\ \A h \in Goroutine : h # g => proc'[h] = proc[h]
  BY <1>1, Zenon
<1>3. [proc[g] EXCEPT !.pc = pc] \in Proc
  BY <1>2, Zenon DEF Proc
<1>4. proc' \in [Goroutine -> Proc]
  BY <1>1, <1>3, Zenon
<1> QED
  BY <1>2, <1>4, Zenon DEF OnlyMoves, Proc

\* The steps of Set, Get and Del that store nothing keep the types.
LEMMA OperationTypes ==
    ASSUME Types, Sound, NEW g \in Goroutine,
           \/ \E key \in Key : \/ Call(g, "get", key, None)
                               \/ Call(g, "del", key, None)
                               \/ \E val \in Value : Call(g, "set", key, val)
           \/ getShard(g) \/ ApplyGet(g) \/ CheckRehashing(g) \/ OldShard(g) \/ OldGet(g)
    PROVE  Types' /\ Sound'
<1>1. /\ proc \in [Goroutine -> Proc] /\ proc[g] \in Proc /\ acked \in Content
      /\ panicked \in BOOLEAN /\ tables \in Seq(Shards) /\ current \in 0 .. Len(tables)
      /\ Len(tables) \in Nat
  BY DEF Types
<1>2. GoodProc(proc[g], tables)
  BY Zenon DEF Sound
<1>3. ASSUME NEW key \in Key, NEW val \in Value \cup {None}, NEW c \in CallName,
             Call(g, c, key, val)
      PROVE  Types' /\ Sound'
  <2>1. /\ proc' = [proc EXCEPT ![g].pc = "load", ![g].call = c, ![g].key = key, ![g].val = val]
        /\ UNCHANGED <<tables, current, rehasher, closed, acked, finished, panicked>>
    BY <1>3, Zenon DEF Call
  <2>2. /\ proc'[g] = [proc[g] EXCEPT !.pc = "load", !.call = c, !.key = key, !.val = val]
        /\ \A h \in Goroutine : h # g => proc'[h] = proc[h]
    BY <1>1, <2>1, Zenon
  <2>3. proc'[g] \in Proc /\ proc'[g].pc = "load" /\ proc'[g].key = key
    BY <1>1, <1>3, <2>2, ZenonT(40) DEF Proc, Place
  <2>4. proc' \in [Goroutine -> Proc]
    BY <1>1, <2>1, <2>3, Zenon
  <2>5. OnlyMoves(g)
    BY <2>2, <2>4, Zenon DEF OnlyMoves
  <2>6. GoodProc(proc'[g], tables)
    BY <1>3, <2>3, Zenon DEF GoodProc
  <2> QED
    BY <1>1, <2>1, <2>5, <2>6, LocalMoves, ZenonT(40)
<1>4. CASE getShard(g)
  <2>1. CASE current = 0
    <3>1. UNCHANGED <<tables, current, rehasher, closed, finished, proc, acked>>
          /\ panicked' = TRUE
      BY <1>4, <2>1, Zenon DEF getShard, Panic
    <3>2. OnlyMoves(g) /\ GoodProc(proc'[g], tables)
      BY <1>1, <1>2, <3>1, Zenon DEF OnlyMoves
    <3> QED
      BY <1>1, <3>1, <3>2, LocalMoves, Zenon
  <2>2. CASE current # 0
    <3>1. /\ proc' = [proc EXCEPT ![g].pc = "apply", ![g].table = current] /\ At(g, "load")
          /\ UNCHANGED <<tables, current, rehasher, closed, finished, acked, panicked>>
      BY <1>4, <2>2, Zenon DEF getShard
    <3>2. /\ proc'[g] = [proc[g] EXCEPT !.pc = "apply", !.table = current]
          /\ \A h \in Goroutine : h # g => proc'[h] = proc[h]
      BY <1>1, <3>1, Zenon
    <3>3. /\ proc'[g] \in Proc /\ proc'[g].pc = "apply" /\ proc'[g].key = proc[g].key
          /\ proc'[g].table = current
      <4>1. current \in Nat
        BY <1>1
      <4> QED
        BY <1>1, <3>2, <4>1, ZenonT(40) DEF Proc, Place
    <3>4. proc' \in [Goroutine -> Proc]
      BY <1>1, <3>1, <3>3, Zenon
    <3>5. OnlyMoves(g)
      BY <3>2, <3>4, Zenon DEF OnlyMoves
    <3>6. GoodProc(proc'[g], tables)
      <4>1. current \in 1 .. Len(tables)
        BY <1>1, <2>2
      <4>2. proc[g].key \in Key
        BY <1>2, <3>1, Zenon DEF GoodProc, At
      <4> QED
        BY <3>3, <4>1, <4>2, Zenon DEF GoodProc
    <3> QED
      BY <1>1, <3>1, <3>5, <3>6, LocalMoves, Zenon
  <2> QED
    BY <2>1, <2>2, Zenon

<1>5. ASSUME NEW v \in Value \cup {None}, NEW pc \in {"stepping", "table"}, Found(g, v, pc),
             proc[g].key \in Key,
             UNCHANGED <<tables, current, rehasher, closed, finished, panicked>>
      PROVE  Types' /\ Sound'
  <2>1. proc' = [proc EXCEPT ![g].pc = pc, ![g].val = v] /\ acked' = acked
    BY <1>5, Zenon DEF Found
  <2>2. /\ proc'[g] = [proc[g] EXCEPT !.pc = pc, !.val = v]
        /\ \A h \in Goroutine : h # g => proc'[h] = proc[h]
    BY <1>1, <2>1, Zenon
  <2>3. proc'[g] \in Proc /\ proc'[g].pc = pc /\ proc'[g].key = proc[g].key
    BY <1>1, <1>5, <2>2, ZenonT(40) DEF Proc, Place
  <2>4. proc' \in [Goroutine -> Proc]
    BY <1>1, <2>1, <2>3, Zenon
  <2>5. OnlyMoves(g)
    BY <2>2, <2>4, Zenon DEF OnlyMoves
  <2>6. GoodProc(proc'[g], tables)
    BY <1>5, <2>3, Zenon DEF GoodProc
  <2> QED
    BY <1>1, <1>5, <2>1, <2>5, <2>6, LocalMoves, Zenon
<1>6. ASSUME NEW pc \in {"check", "old", "stepping", "table"}, Continue(g, pc), proc[g].key \in Key,
             UNCHANGED <<tables, current, rehasher, closed, finished, panicked>>
      PROVE  Types' /\ Sound'
  <2>1. Goto(g, pc) /\ acked' = acked /\ pc \in Place
    BY <1>6, Zenon DEF Continue, Place
  <2>2. OnlyMoves(g) /\ proc'[g].pc = pc /\ proc'[g].key = proc[g].key
    BY <2>1, GoesOn, Zenon
  <2>3. GoodProc(proc'[g], tables)
    BY <1>6, <2>2, Zenon DEF GoodProc
  <2> QED
    BY <1>1, <1>6, <2>1, <2>2, <2>3, LocalMoves, Zenon
<1>7. ASSUME NEW t, NEW i, Within(tables, t, i), NEW k \in Key
      PROVE  tables[t][i][k] \in Value \cup {None}
  <2>1. tables[t] \in Shards
    BY <1>1, <1>7 DEF Within
  <2>2. PICK n \in Nat \ {0} : tables[t] \in [0 .. n - 1 -> Content] /\ DOMAIN tables[t] = 0 .. n - 1
    BY <2>1, ShardsOf, Zenon
  <2>3. tables[t][i] \in Content
    BY <1>7, <2>2, Zenon DEF Within
  <2> QED
    BY <2>3, Zenon DEF Content
<1>8. CASE ApplyGet(g)
  <2> DEFINE v == Lookup(proc[g].table, proc[g].key)
  <2>1. proc[g].key \in Key /\ proc[g].table \in 1 .. Len(tables)
    BY <1>2, <1>8, Zenon DEF GoodProc, At, ApplyGet
  <2>2. Within(tables, proc[g].table, Index(proc[g].key, Count(proc[g].table)))
    BY <2>1, IndexInTable, Zenon DEF Within
  <2>3. v \in Value \cup {None}
    BY <1>7, <2>1, <2>2, Zenon DEF Lookup
  <2>4. /\ Found(g, v, "stepping") \/ Continue(g, "check")
        /\ UNCHANGED <<tables, current, rehasher, closed, finished, panicked>>
    BY <1>8, Zenon DEF ApplyGet
  <2> HIDE DEF v
  <2> QED
    BY <1>5, <1>6, <2>1, <2>3, <2>4, Zenon
<1>9. CASE OldGet(g)
  <2> DEFINE v == tables[proc[g].old][proc[g].idx][proc[g].key]
  <2>1. proc[g].key \in Key /\ Within(tables, proc[g].old, proc[g].idx)
    BY <1>2, <1>9, Zenon DEF GoodProc, At, OldGet
  <2>2. v \in Value \cup {None}
    BY <1>7, <2>1, Zenon
  <2>3. /\ \E pc \in {"stepping", "table"} : Found(g, v, pc)
        /\ UNCHANGED <<tables, current, rehasher, closed, finished, panicked>>
    BY <1>9, Zenon DEF OldGet
  <2> HIDE DEF v
  <2> QED
    BY <1>5, <2>1, <2>2, <2>3, Zenon
<1>10. CASE CheckRehashing(g)
  <2>1. proc[g].key \in Key /\ UNCHANGED <<tables, current, rehasher, closed, finished, panicked>>
    BY <1>2, <1>10, Zenon DEF GoodProc, At, CheckRehashing
  <2>2. CASE Return(g)
    BY <1>1, <2>1, <2>2, Returns, LocalMoves, Zenon
  <2> QED
    BY <1>6, <1>10, <2>1, <2>2, Zenon DEF CheckRehashing
<1>11. CASE OldShard(g)
  <2>1. proc[g].key \in Key /\ UNCHANGED <<tables, current, rehasher, closed, finished, panicked>>
    BY <1>2, <1>11, Zenon DEF GoodProc, At, OldShard
  <2> DEFINE i == Index(proc[g].key, Count(rehasher.old))
  <2>2. CASE rehasher.rehashing /\ rehasher.old # 0
    <3>1. /\ proc' = [proc EXCEPT ![g].pc = "oldApply", ![g].old = rehasher.old, ![g].idx = i]
          /\ acked' = acked
      BY <1>11, <2>2, Zenon DEF OldShard
    <3>2. rehasher.old \in 1 .. Len(tables) /\ rehasher.old \in Nat
      BY <1>1, <2>2 DEF Sound, GoodRehasher, Types, Rehasher
    <3>3. i \in Nat /\ Within(tables, rehasher.old, i)
      BY <2>1, <3>2, IndexInTable, Zenon DEF Within
    <3> HIDE DEF i
    <3>4. /\ proc'[g] = [proc[g] EXCEPT !.pc = "oldApply", !.old = rehasher.old, !.idx = i]
          /\ \A h \in Goroutine : h # g => proc'[h] = proc[h]
      BY <1>1, <3>1, Zenon
    <3>5. /\ proc'[g] \in Proc /\ proc'[g].pc = "oldApply" /\ proc'[g].key = proc[g].key
          /\ proc'[g].old = rehasher.old /\ proc'[g].idx = i
      BY <1>1, <3>2, <3>3, <3>4, ZenonT(40) DEF Proc, Place
    <3>6. proc' \in [Goroutine -> Proc]
      BY <1>1, <3>1, <3>5, Zenon
    <3>7. OnlyMoves(g)
      BY <3>4, <3>6, Zenon DEF OnlyMoves
    <3>8. GoodProc(proc'[g], tables)
      BY <2>1, <3>3, <3>5, Zenon DEF GoodProc
    <3> QED
      BY <1>1, <2>1, <3>1, <3>7, <3>8, LocalMoves, Zenon
  <2>3. CASE ~(rehasher.rehashing /\ rehasher.old # 0)
    <3>1. \E pc \in {"stepping", "table"} : Continue(g, pc)
      BY <1>11, <2>3, Zenon DEF OldShard
    <3> QED
      BY <1>6, <2>1, <3>1, Zenon
  <2> QED
    BY <2>2, <2>3, Zenon
<1> QED
  BY <1>3, <1>4, <1>8, <1>9, <1>10, <1>11, Zenon DEF CallName

\* Set and Del store an entry and keep the types.
LEMMA WriteTypes ==
    ASSUME Types, Sound, NEW g \in Goroutine, Apply(g) \/ OldDel(g)
    PROVE  Types' /\ Sound'
<1>1. /\ proc[g] \in Proc /\ acked \in Content
      /\ panicked \in BOOLEAN /\ tables \in Seq(Shards) /\ current \in 0 .. Len(tables)
      /\ rehasher \in Rehasher /\ closed \in BOOLEAN /\ finished \in Nat
  BY Zenon DEF Types
<1>2. GoodProc(proc[g], tables) /\ GoodRehasher(rehasher, tables) /\ (~closed => current # 0)
  BY Zenon DEF Sound
<1> SUFFICES ASSUME NEW t, NEW i, NEW v \in Value \cup {None}, NEW pc \in {"check", "table"},
                    Write(t, i, proc[g].key, v), Continue(g, pc),
                    UNCHANGED <<current, rehasher, closed, finished, panicked>>
             PROVE  Types' /\ Sound'
  <2>1. proc[g].val \in Value \cup {None}
    BY <1>1, Zenon DEF Proc
  <2>2. CASE Apply(g)
    BY <2>1, <2>2, Zenon DEF Apply
  <2>3. CASE OldDel(g)
    BY <2>3, Zenon DEF OldDel
  <2> QED
    BY <2>2, <2>3, Zenon
<1>3. UNCHANGED <<current, rehasher, closed, finished, panicked>>
  BY Zenon
<1>4. Grows(tables, tables') /\ Len(tables') = Len(tables)
  <2> DEFINE k == proc[g].key
  <2>1. StoredEntry(tables', tables, t, i, k, v)
    BY Zenon DEF StoredEntry, Write
  <2> HIDE DEF k
  <2>2. /\ tables' \in Seq(Shards) /\ Len(tables') = Len(tables)
        /\ \A x \in 1 .. Len(tables) : DOMAIN tables'[x] = DOMAIN tables[x]
    <3>1. SameSize(tables', tables)
      BY <1>1, <2>1, EntryStored, Zenon
    <3> QED
      BY <3>1, Zenon DEF SameSize
  <2>3. Len(tables') \in Nat /\ Len(tables') >= Len(tables)
    BY <2>2
  <2> QED
    BY <2>2, <2>3, Zenon DEF Grows
<1>5. Goto(g, pc) /\ acked' = acked /\ pc \in Place
  BY Zenon DEF Continue, Place
<1>6. OnlyMoves(g) /\ proc'[g].pc = pc /\ proc'[g].key = proc[g].key
  BY <1>5, GoesOn, ZenonT(40)
<1>7. proc[g].key \in Key
  BY <1>2, Zenon DEF GoodProc, At, Apply, OldDel
<1>8. GoodProc(proc'[g], tables')
  BY <1>6, <1>7, Zenon DEF GoodProc
<1>9. GoodRehasher(rehasher', tables')
  BY <1>1, <1>2, <1>3, <1>4, GoodKept, Zenon
<1>10. /\ rehasher' \in Rehasher /\ current' \in 0 .. Len(tables') /\ closed' \in BOOLEAN
       /\ (~closed' => current' # 0) /\ acked' \in Content /\ finished' \in Nat
       /\ panicked' \in BOOLEAN
  BY <1>1, <1>2, <1>3, <1>4, <1>5, SMTT(30)
<1> QED
  BY <1>4, <1>6, <1>8, <1>9, <1>10, SoundMoves, Zenon

\* The beginning of a Step keeps the types.
LEMMA BeginTypes ==
    ASSUME Types, Sound, NEW g \in Goroutine, CheckStep(g) \/ LoadTable(g) \/ StepBegin(g)
    PROVE  Types' /\ Sound'
<1>1. /\ proc \in [Goroutine -> Proc] /\ proc[g] \in Proc /\ acked \in Content
      /\ panicked \in BOOLEAN /\ tables \in Seq(Shards) /\ current \in 0 .. Len(tables)
      /\ current \in Nat /\ rehasher \in Rehasher
  BY DEF Types
<1>2. GoodProc(proc[g], tables) /\ GoodRehasher(rehasher, tables)
  BY ZenonT(40) DEF Sound
<1>3. /\ proc[g].key \in Key
      /\ UNCHANGED <<tables, current, rehasher, closed, finished, panicked>>
  BY <1>2, Zenon DEF GoodProc, At, CheckStep, LoadTable, StepBegin
<1>4. CASE Return(g)
  BY <1>1, <1>3, <1>4, Returns, LocalMoves, Zenon
<1>5. CASE Continue(g, "table")
  <2>1. Goto(g, "table") /\ acked' = acked /\ "table" \in Place
    BY <1>5, Zenon DEF Continue, Place
  <2>2. OnlyMoves(g) /\ proc'[g].pc = "table" /\ proc'[g].key = proc[g].key
    BY <2>1, GoesOn, Zenon
  <2>3. GoodProc(proc'[g], tables)
    BY <1>3, <2>2, Zenon DEF GoodProc
  <2> QED
    BY <1>1, <1>3, <2>1, <2>2, <2>3, LocalMoves, Zenon
<1>6. CASE LoadTable(g)
  <2>1. proc' = [proc EXCEPT ![g].pc = "begin", ![g].table = current] /\ acked' = acked
    BY <1>6, Zenon DEF LoadTable
  <2>2. /\ proc'[g] = [proc[g] EXCEPT !.pc = "begin", !.table = current]
        /\ \A h \in Goroutine : h # g => proc'[h] = proc[h]
    BY <1>1, <2>1, Zenon
  <2>3. proc'[g] \in Proc /\ proc'[g].pc = "begin" /\ proc'[g].key = proc[g].key
    BY <1>1, <2>2, ZenonT(40) DEF Proc, Place
  <2>4. proc' \in [Goroutine -> Proc]
    BY <1>1, <2>1, <2>3, Zenon
  <2>5. OnlyMoves(g)
    BY <2>2, <2>4, Zenon DEF OnlyMoves
  <2>6. GoodProc(proc'[g], tables)
    BY <1>3, <2>3, Zenon DEF GoodProc
  <2> QED
    BY <1>1, <1>3, <2>1, <2>5, <2>6, LocalMoves, ZenonT(40)
<1>7. CASE StepBegin(g) /\ rehasher.rehashing
  <2> DEFINE i == IF rehasher.name = "batch" THEN 0 ELSE rehasher.idx
  <2>1. /\ proc' = [proc EXCEPT ![g].pc = "extract", ![g].old = rehasher.old, ![g].idx = i,
                                ![g].name = rehasher.name, ![g].gen = rehasher.gen]
        /\ acked' = acked
    BY <1>7, Zenon DEF StepBegin
  <2>2. /\ rehasher.old \in Nat /\ rehasher.idx \in Nat /\ rehasher.name \in RehasherName
        /\ rehasher.gen \in Nat
    BY <1>1, Zenon DEF Rehasher
  <2>3. Within(tables, rehasher.old, rehasher.idx)
    BY <1>2, <1>7, Zenon DEF GoodRehasher
  <2>4. i \in Nat /\ Within(tables, rehasher.old, i)
    <3>1. tables[rehasher.old] \in Shards
      BY <1>1, <2>3 DEF Within
    <3>2. PICK n \in Nat \ {0} : DOMAIN tables[rehasher.old] = 0 .. n - 1
      BY <3>1, ShardsOf, Zenon
    <3>3. 0 \in DOMAIN tables[rehasher.old]
      BY <3>2
    <3> QED
      BY <2>2, <2>3, <3>3, Zenon DEF Within
  <2> HIDE DEF i
  <2>5. /\ proc'[g] = [proc[g] EXCEPT !.pc = "extract", !.old = rehasher.old, !.idx = i,
                                      !.name = rehasher.name, !.gen = rehasher.gen]
        /\ \A h \in Goroutine : h # g => proc'[h] = proc[h]
    BY <1>1, <2>1, Zenon
  <2>6. /\ proc'[g] \in Proc /\ proc'[g].pc = "extract" /\ proc'[g].key = proc[g].key
        /\ proc'[g].old = rehasher.old /\ proc'[g].idx = i
    BY <1>1, <2>2, <2>4, <2>5, ZenonT(40) DEF Proc, Place
  <2>7. proc' \in [Goroutine -> Proc]
    BY <1>1, <2>1, <2>6, Zenon
  <2>8. OnlyMoves(g)
    BY <2>5, <2>7, Zenon DEF OnlyMoves
  <2>9. GoodProc(proc'[g], tables)
    BY <1>3, <2>4, <2>6, Zenon DEF GoodProc
  <2> QED
    BY <1>1, <1>3, <2>1, <2>8, <2>9, LocalMoves, ZenonT(40)
<1> QED
  BY <1>4, <1>5, <1>6, <1>7, Zenon DEF CheckStep, StepBegin


\* What is taken from a shard, and what is left in it.
Taken(c, out) == [k \in Key |-> IF k \in out THEN c[k] ELSE None]
Left(c, out) == [k \in Key |-> IF k \in out THEN None ELSE c[k]]

(* What a Step takes from its shard, and where it goes on: a shard without   *)
(* entries is what makes it take none.                                       *)
Extracted(g, out) ==
    LET p == proc[g]
        q == proc'[g]
        c == tables[p.old][p.idx]
    IN  /\ OnlyMoves(g)
        /\ SameSize(tables', tables) /\ OtherShard(tables', tables, p.old, p.idx, Left(c, out))
        /\ out = {} => \A k \in Key : c[k] = None
        /\ \A k \in out : c[k] # None
        /\ q.items = Taken(c, out) /\ q.moved = (out # {})
        /\ \/ q.pc = "move" /\ q.idx = p.idx /\ out # {}
           \/ /\ q.pc = "extract" /\ q.idx = p.idx + 1 /\ out = {}
              /\ p.name = "batch" /\ p.idx + 1 < Count(p.old)
           \/ /\ q.pc = "end" /\ q.idx = p.idx /\ out = {}
              /\ ~(p.name = "batch" /\ p.idx + 1 < Count(p.old))
        /\ q.key = p.key /\ q.val = p.val /\ q.call = p.call /\ q.table = p.table
        /\ q.old = p.old /\ q.name = p.name /\ q.gen = p.gen
        /\ UNCHANGED <<current, rehasher, closed, acked, finished, panicked>>

\* The Step's shard, and what it holds.
LEMMA ShardOfStep ==
    ASSUME Types, Sound, NEW g \in Goroutine, proc[g].pc \in {"oldApply", "extract", "move"}
    PROVE  /\ proc[g].old \in 1 .. Len(tables) /\ proc[g].idx \in DOMAIN tables[proc[g].old]
           /\ tables[proc[g].old][proc[g].idx] \in Content
           /\ \E n \in Nat \ {0} : DOMAIN tables[proc[g].old] = 0 .. n - 1 /\ Count(proc[g].old) = n
<1> DEFINE t == proc[g].old
           i == proc[g].idx
<1>1. Within(tables, t, i) /\ tables \in Seq(Shards)
  BY Zenon DEF Sound, GoodProc, Types
<1> HIDE DEF t, i
<1>2. t \in 1 .. Len(tables) /\ i \in DOMAIN tables[t] /\ tables[t] \in Shards /\ t # 0
  BY <1>1 DEF Within
<1>3. PICK n \in Nat \ {0} : tables[t] \in [0 .. n - 1 -> Content] /\ DOMAIN tables[t] = 0 .. n - 1
                             /\ Cardinality(DOMAIN tables[t]) = n
  BY <1>2, ShardsOf, Zenon
<1>4. tables[t][i] \in Content
  BY <1>2, <1>3, Zenon
<1>5. Count(t) = n
  BY <1>2, <1>3, Zenon DEF Count
<1> QED
  BY <1>2, <1>3, <1>4, <1>5, Zenon DEF t, i

\* Extract takes something from a shard that holds something.
LEMMA Extracts ==
    ASSUME Types, Sound, NEW g \in Goroutine, Extract(g)
    PROVE  \E out \in SUBSET Key : Extracted(g, out)
<1> DEFINE p == proc[g]
           c == tables[p.old][p.idx]
           have == Present(p.old, p.idx)
<1>1. /\ p.pc = "extract" /\ proc \in [Goroutine -> Proc] /\ p \in Proc /\ tables \in Seq(Shards)
  BY Zenon DEF Extract, At, Types
<1>2. p.old \in 1 .. Len(tables) /\ p.idx \in DOMAIN tables[p.old] /\ c \in Content
  BY <1>1, ShardOfStep, Zenon
<1>3. have = {k \in Key : c[k] # None}
  BY Zenon DEF Present
<1>4. PICK out \in SUBSET have :
          LET next == CASE out # {} -> "move"
                        [] out = {} /\ p.name = "batch" /\ p.idx + 1 < Count(p.old) -> "extract"
                        [] OTHER -> "end"
          IN  /\ IF p.name = "batch" \/ Cardinality(have) <= batchSize
                 THEN out = have ELSE Cardinality(out) = batchSize
              /\ tables' = [tables EXCEPT ![p.old][p.idx] =
                               [k \in Key |-> IF k \in out THEN None ELSE @[k]]]
              /\ proc' = [proc EXCEPT ![g].pc = next,
                     ![g].idx = IF next = "extract" THEN @ + 1 ELSE @,
                     ![g].moved = out # {},
                     ![g].items = [k \in Key |-> IF k \in out THEN tables[p.old][p.idx][k] ELSE None]]
  BY Zenon DEF Extract
<1> DEFINE next == CASE out # {} -> "move"
                     [] out = {} /\ p.name = "batch" /\ p.idx + 1 < Count(p.old) -> "extract"
                     [] OTHER -> "end"
           j == IF next = "extract" THEN p.idx + 1 ELSE p.idx
           items == Taken(c, out)
<1>5. tables' = [tables EXCEPT ![p.old][p.idx] = Left(c, out)]
  BY <1>4, Zenon DEF Left
<1>6. proc' = [proc EXCEPT ![g].pc = next, ![g].idx = IF next = "extract" THEN @ + 1 ELSE @,
                           ![g].moved = out # {}, ![g].items = items]
  BY <1>4, ZenonT(40) DEF Taken
<1>7. \/ next = "move" /\ j = p.idx /\ out # {}
      \/ /\ next = "extract" /\ j = p.idx + 1 /\ out = {}
         /\ p.name = "batch" /\ p.idx + 1 < Count(p.old)
      \/ /\ next = "end" /\ j = p.idx /\ out = {}
         /\ ~(p.name = "batch" /\ p.idx + 1 < Count(p.old))
  <2>1. CASE out # {}
    <3>1. next = "move"
      BY <2>1, Zenon
    <3> QED
      BY <2>1, <3>1, Zenon
  <2>2. CASE out = {} /\ p.name = "batch" /\ p.idx + 1 < Count(p.old)
    <3>1. next = "extract"
      BY <2>2, Zenon
    <3> QED
      BY <2>2, <3>1, Zenon
  <2>3. CASE out = {} /\ ~(p.name = "batch" /\ p.idx + 1 < Count(p.old))
    <3>1. next = "end"
      BY <2>3, Zenon
    <3> QED
      BY <2>3, <3>1, Zenon
  <2> QED
    BY <2>1, <2>2, <2>3, Zenon
<1>8. out = {} => \A k \in Key : c[k] = None
  <2> SUFFICES ASSUME out = {} PROVE have = {}
    BY <1>3, Zenon
  <2>1. Cardinality({}) = 0 /\ batchSize \in Nat \ {0}
    BY CacheAssumption, Zenon DEF Types, Counted
  <2>2. Cardinality(out) # batchSize
    BY <2>1, Zenon
  <2> QED
    BY <1>4, <2>2, Zenon
<1>9. items \in Content /\ Left(c, out) \in Content
  BY <1>2, Zenon DEF Taken, Left, Content
<1>10. j \in Nat /\ next \in Place
  <2>1. p.idx \in Nat
    BY <1>1, Zenon DEF Proc
  <2> QED
    BY <1>7, <2>1 DEF Place
<1> DEFINE moved == out # {}
<1>11. proc' = [proc EXCEPT ![g] = [p EXCEPT !.pc = next, !.idx = j, !.moved = moved,
                                             !.items = items]]
  <2>1. proc' = [proc EXCEPT ![g].pc = next, ![g].idx = j, ![g].moved = moved, ![g].items = items]
    <3> HIDE DEF next, items
    <3> QED
      BY <1>1, <1>6, Zenon
  <2> HIDE DEF next, j, moved, items
  <2> QED
    BY <1>1, <2>1, Zenon
<1>12. moved \in BOOLEAN
  BY Zenon
<1> HIDE DEF next, j, items, moved
<1> DEFINE q == [p EXCEPT !.pc = next, !.idx = j, !.moved = moved, !.items = items]
<1>13. /\ q \in Proc /\ q.pc = next /\ q.idx = j /\ q.moved = moved /\ q.items = items
       /\ q.key = p.key /\ q.val = p.val /\ q.call = p.call /\ q.table = p.table
       /\ q.old = p.old /\ q.name = p.name /\ q.gen = p.gen
  BY <1>1, <1>9, <1>10, <1>12, Zenon DEF Proc
<1> HIDE DEF q
<1>14. proc'[g] = q /\ OnlyMoves(g)
  BY <1>1, <1>11, <1>13, Zenon DEF OnlyMoves, q
<1>15. SameSize(tables', tables) /\ OtherShard(tables', tables, p.old, p.idx, Left(c, out))
  <2> DEFINE t == p.old
             i == p.idx
             l == Left(c, out)
  <2>1. StoredShard(tables', tables, t, i, l) /\ l \in Content
        /\ t \in 1 .. Len(tables) /\ i \in DOMAIN tables[t]
    BY <1>2, <1>5, <1>9, Zenon DEF StoredShard
  <2> HIDE DEF t, i, l
  <2>2. SameSize(tables', tables) /\ OtherShard(tables', tables, t, i, l)
    BY <1>1, <2>1, ShardStored, Zenon
  <2> QED
    BY <2>2, Zenon DEF t, i, l
<1>16. UNCHANGED <<current, rehasher, closed, acked, finished, panicked>>
  BY Zenon DEF Extract
<1>17. out \in SUBSET Key /\ \A k \in out : c[k] # None
  BY <1>3, Zenon
<1>18. Extracted(g, out)
  BY <1>7, <1>8, <1>13, <1>14, <1>15, <1>16, <1>17, Zenon DEF Extracted, moved, items
<1> QED
  BY <1>17, <1>18, Zenon


(* One item arrives in the table the Step loaded, at the index the current   *)
(* table gives.                                                              *)
Carried(g, key) ==
    LET p == proc[g]
        q == proc'[g]
        i == Index(key, Count(current))
    IN  /\ OnlyMoves(g) /\ p.items[key] # None
        /\ p.table # 0 /\ i \in DOMAIN tables[p.table]
        /\ StoredEntry(tables', tables, p.table, i, key, p.items[key])
        /\ q.items = [p.items EXCEPT ![key] = None]
        /\ \/ q.pc = "move"
           \/ q.pc = "extract" /\ q.items = NoEntries /\ p.name = "batch"
           \/ q.pc = "end" /\ q.items = NoEntries /\ p.name # "batch"
        /\ q.key = p.key /\ q.val = p.val /\ q.call = p.call /\ q.table = p.table
        /\ q.old = p.old /\ q.idx = p.idx /\ q.name = p.name /\ q.gen = p.gen
        /\ q.moved = p.moved
        /\ UNCHANGED <<current, rehasher, closed, acked, finished, panicked>>

\* The index of an item is out of range in the table the Step loaded.
OutOfRange(g, key) ==
    /\ proc[g].table = 0 \/ Index(key, Count(current)) \notin DOMAIN tables[proc[g].table]
    /\ panicked' = TRUE
    /\ UNCHANGED <<tables, current, rehasher, closed, proc, acked, finished>>

\* Move does one or the other.
LEMMA Moves ==
    ASSUME Types, Sound, NEW g \in Goroutine, Move(g)
    PROVE  \E key \in Key : Carried(g, key) \/ OutOfRange(g, key)
<1> DEFINE p == proc[g]
<1>1. /\ p.pc = "move" /\ proc \in [Goroutine -> Proc] /\ p \in Proc /\ p.items \in Content
      /\ UNCHANGED <<current, rehasher, closed, finished>>
  <2>1. p.pc = "move" /\ UNCHANGED <<current, rehasher, closed, finished>>
    BY Zenon DEF Move, At
  <2>2. proc \in [Goroutine -> Proc] /\ p \in Proc
    BY Zenon DEF Types
  <2>3. p.items \in Content
    BY <2>2, Zenon DEF Proc
  <2> QED
    BY <2>1, <2>2, <2>3, Zenon
<1>2. PICK key \in {k \in Key : p.items[k] # None} :
          LET i    == Index(key, Count(current))
              rest == [p.items EXCEPT ![key] = None]
          IN  IF p.table = 0 \/ i \notin DOMAIN tables[p.table]
              THEN Panic(g) /\ UNCHANGED tables
              ELSE /\ Write(p.table, i, key, p.items[key])
                   /\ proc' = [proc EXCEPT ![g].items = rest,
                          ![g].pc = CASE rest # NoEntries -> "move"
                                      [] rest = NoEntries /\ p.name = "batch" -> "extract"
                                      [] OTHER -> "end"]
                   /\ UNCHANGED <<acked, panicked>>
  BY Zenon DEF Move
<1> DEFINE i == Index(key, Count(current))
           rest == [p.items EXCEPT ![key] = None]
           next == CASE rest # NoEntries -> "move"
                     [] rest = NoEntries /\ p.name = "batch" -> "extract"
                     [] OTHER -> "end"
<1>3. CASE p.table = 0 \/ i \notin DOMAIN tables[p.table]
  <2>1. Panic(g) /\ UNCHANGED tables
    BY <1>2, <1>3, Zenon
  <2>2. OutOfRange(g, key)
    BY <1>1, <1>3, <2>1, Zenon DEF OutOfRange, Panic
  <2> QED
    BY <1>2, <2>2, Zenon
<1>4. CASE ~(p.table = 0 \/ i \notin DOMAIN tables[p.table])
  <2>1. /\ Write(p.table, i, key, p.items[key])
        /\ proc' = [proc EXCEPT ![g].items = rest, ![g].pc = next]
        /\ UNCHANGED <<acked, panicked>>
    BY <1>2, <1>4, ZenonT(40)
  <2>2. \/ next = "move"
        \/ next = "extract" /\ rest = NoEntries /\ p.name = "batch"
        \/ next = "end" /\ rest = NoEntries /\ p.name # "batch"
    <3>1. CASE rest # NoEntries
      BY <3>1, Zenon
    <3>2. CASE rest = NoEntries /\ p.name = "batch"
      BY <3>2, Zenon
    <3>3. CASE rest = NoEntries /\ p.name # "batch"
      BY <3>3, Zenon
    <3> QED
      BY <3>1, <3>2, <3>3, Zenon
  <2>3. rest \in Content
    BY <1>1, ZenonT(40) DEF Content
  <2>4. next \in Place
    BY <2>2, Zenon DEF Place
  <2>5. StoredEntry(tables', tables, p.table, i, key, p.items[key])
    BY <2>1, Zenon DEF Write, StoredEntry
  <2> HIDE DEF next, rest, i
  <2> DEFINE q == [p EXCEPT !.items = rest, !.pc = next]
  <2>6. proc' = [proc EXCEPT ![g] = q]
    BY <1>1, <2>1, Zenon
  <2>7. /\ q \in Proc /\ q.pc = next /\ q.items = rest /\ q.idx = p.idx /\ q.moved = p.moved
        /\ q.key = p.key /\ q.val = p.val /\ q.call = p.call /\ q.table = p.table
        /\ q.old = p.old /\ q.name = p.name /\ q.gen = p.gen
    BY <1>1, <2>3, <2>4, Zenon DEF Proc
  <2> HIDE DEF q
  <2>8. proc'[g] = q /\ OnlyMoves(g)
    BY <1>1, <2>6, <2>7, Zenon DEF OnlyMoves
  <2>9. Carried(g, key)
    BY <1>1, <1>2, <1>4, <2>1, <2>2, <2>5, <2>7, <2>8, ZenonT(40) DEF Carried, rest, i
  <2> QED
    BY <1>2, <2>9, Zenon
<1> QED
  BY <1>3, <1>4, Zenon


\* As many tables as large are tables that grow.
LEMMA SameSizeGrows ==
    ASSUME NEW s \in Seq(Shards), NEW u, SameSize(u, s)
    PROVE  Grows(s, u) /\ Len(u) = Len(s) /\ Len(s) \in Nat
<1>1. Len(s) \in Nat /\ Len(u) = Len(s)
  BY DEF SameSize
<1>2. Len(u) >= Len(s)
  BY <1>1
<1> QED
  BY <1>1, <1>2, Zenon DEF Grows, SameSize

\* A step that leaves the rehasher and the table in force keeps the types.
LEMMA TablesMove ==
    ASSUME Types, Sound, NEW g \in Goroutine, OnlyMoves(g), SameSize(tables', tables),
           GoodProc(proc'[g], tables'), acked' \in Content,
           UNCHANGED <<current, rehasher, closed, finished, panicked>>
    PROVE  Types' /\ Sound'
<1>1. /\ tables \in Seq(Shards) /\ current \in 0 .. Len(tables) /\ rehasher \in Rehasher
      /\ closed \in BOOLEAN /\ finished \in Nat /\ panicked \in BOOLEAN
      /\ GoodRehasher(rehasher, tables) /\ (~closed => current # 0)
  BY Zenon DEF Types, Sound
<1>2. Grows(tables, tables') /\ Len(tables') = Len(tables)
  BY <1>1, SameSizeGrows, Zenon
<1>3. GoodRehasher(rehasher, tables')
  BY <1>1, <1>2, GoodKept, Zenon
<1>4. /\ rehasher' \in Rehasher /\ current' \in 0 .. Len(tables') /\ closed' \in BOOLEAN
      /\ (~closed' => current' # 0) /\ finished' \in Nat /\ panicked' \in BOOLEAN
      /\ GoodRehasher(rehasher', tables')
  BY <1>1, <1>2, <1>3, Zenon
<1> QED
  BY <1>2, <1>4, SoundMoves, Zenon

\* Extract and Move keep the types.
LEMMA StepTypes ==
    ASSUME Types, Sound, NEW g \in Goroutine, Extract(g) \/ Move(g)
    PROVE  Types' /\ Sound'
<1> DEFINE p == proc[g]
           q == proc'[g]
<1>1. /\ tables \in Seq(Shards) /\ acked \in Content /\ p \in Proc /\ p.items \in Content
      /\ proc \in [Goroutine -> Proc]
  <2>1. /\ tables \in Seq(Shards) /\ acked \in Content /\ p \in Proc
        /\ proc \in [Goroutine -> Proc]
    BY Zenon DEF Types
  <2> QED
    BY <2>1, Zenon DEF Proc
<1>2. p.pc \in {"extract", "move"}
  BY Zenon DEF Extract, Move, At
<1>3. p.key \in Key /\ Within(tables, p.old, p.idx)
  BY <1>2, Zenon DEF Sound, GoodProc
<1>4. PICK n \in Nat \ {0} : DOMAIN tables[p.old] = 0 .. n - 1 /\ Count(p.old) = n
  BY <1>2, ShardOfStep, ZenonT(40)
<1>5. p.old \in 1 .. Len(tables) /\ p.idx \in 0 .. n - 1
  BY <1>3, <1>4, Zenon DEF Within
<1>6. ASSUME NEW out \in SUBSET Key, Extracted(g, out)
      PROVE  Types' /\ Sound'
  <2>1. /\ OnlyMoves(g) /\ SameSize(tables', tables) /\ q.old = p.old /\ q.key = p.key
        /\ \/ q.pc = "move" /\ q.idx = p.idx
           \/ q.pc = "extract" /\ q.idx = p.idx + 1 /\ p.idx + 1 < Count(p.old)
           \/ q.pc = "end"
        /\ UNCHANGED <<current, rehasher, closed, acked, finished, panicked>>
    BY <1>6, Zenon DEF Extracted
  <2>2. Len(tables') = Len(tables) /\ DOMAIN tables'[p.old] = DOMAIN tables[p.old]
    BY <1>5, <2>1, Zenon DEF SameSize
  <2>3. q.pc \in {"extract", "move"} => q.idx \in 0 .. n - 1
    BY <1>4, <1>5, <2>1, SMTT(30)
  <2>4. GoodProc(q, tables')
    BY <1>3, <1>4, <1>5, <2>1, <2>2, <2>3, Zenon DEF GoodProc, Within
  <2> HIDE DEF q
  <2> QED
    BY <1>1, <2>1, <2>4, TablesMove, Zenon DEF q
<1>7. ASSUME NEW key \in Key, Carried(g, key)
      PROVE  Types' /\ Sound'
  <2> DEFINE i == Index(key, Count(current))
             v == p.items[key]
             t == p.table
  <2>1. /\ OnlyMoves(g) /\ q.old = p.old /\ q.key = p.key /\ q.idx = p.idx
        /\ StoredEntry(tables', tables, t, i, key, v)
        /\ q.pc \in {"move", "extract", "end"}
        /\ UNCHANGED <<current, rehasher, closed, acked, finished, panicked>>
    BY <1>7, Zenon DEF Carried
  <2>2. v \in Value \cup {None}
    BY <1>1, Zenon DEF Content
  <2> HIDE DEF i, v, t
  <2>3. SameSize(tables', tables)
    BY <1>1, <2>1, <2>2, EntryStored, Zenon
  <2>4. Len(tables') = Len(tables) /\ DOMAIN tables'[p.old] = DOMAIN tables[p.old]
    BY <1>5, <2>3, ZenonT(40) DEF SameSize
  <2>5. GoodProc(q, tables')
    BY <1>3, <2>1, <2>4, Zenon DEF GoodProc, Within
  <2> HIDE DEF q
  <2> QED
    BY <1>1, <2>1, <2>3, <2>5, TablesMove, Zenon DEF q
<1>8. ASSUME NEW key \in Key, OutOfRange(g, key)
      PROVE  Types' /\ Sound'
  <2>1. panicked' = TRUE /\ UNCHANGED <<tables, current, rehasher, closed, proc, acked, finished>>
    BY <1>8, Zenon DEF OutOfRange
  <2>2. OnlyMoves(g) /\ GoodProc(proc'[g], tables)
    BY <1>1, <2>1, Zenon DEF OnlyMoves, Sound
  <2> QED
    BY <1>1, <2>1, <2>2, LocalMoves, Zenon
<1> QED
  BY <1>6, <1>7, <1>8, Extracts, Moves, Zenon


-----------------------------------------------------------------------------
(* The rehasher *)

\* The name and the generation stay.
SameRehasher(r, s) == r \in Rehasher /\ r.name = s.name /\ r.gen = s.gen

\* A migration that is over, or is not.
LEMMA RehasherOver ==
    ASSUME Types
    PROVE  /\ SameRehasher(Over, rehasher) /\ Over.rehashing = FALSE /\ Over.old = 0
           /\ SameRehasher(Stop, rehasher) /\ Stop.rehashing = FALSE /\ Stop.old = 0
           /\ \A ts \in Seq(Shards) : GoodRehasher(Over, ts) /\ GoodRehasher(Stop, ts)
<1>1. rehasher \in Rehasher
  BY Zenon DEF Types
<1>2. SameRehasher(Over, rehasher) /\ Over.rehashing = FALSE /\ Over.old = 0
  BY <1>1, Zenon DEF Rehasher, Over, SameRehasher
<1>3. SameRehasher(Stop, rehasher) /\ Stop.rehashing = FALSE /\ Stop.old = 0
  <2>1. Over \in Rehasher
    BY <1>2, Zenon DEF SameRehasher
  <2> QED
    BY <1>2, <2>1, Zenon DEF Rehasher, Stop, SameRehasher
<1>4. ASSUME NEW ts \in Seq(Shards), NEW r, r.rehashing = FALSE, r.old = 0
      PROVE  GoodRehasher(r, ts)
  <2>1. 0 \in 0 .. Len(ts)
    OBVIOUS
  <2> QED
    BY <1>4, <2>1, Zenon DEF GoodRehasher
<1> QED
  BY <1>2, <1>3, <1>4, Zenon

\* The migration stays at its shard, goes on to the next or is over.
LEMMA RehasherNext ==
    ASSUME Types, NEW n \in Nat
    PROVE  LET r == [rehasher EXCEPT !.idx = n]
               s == [Over EXCEPT !.idx = n]
           IN  /\ SameRehasher(r, rehasher) /\ r.rehashing = rehasher.rehashing
               /\ r.old = rehasher.old /\ r.idx = n
               /\ SameRehasher(s, rehasher) /\ s.rehashing = FALSE /\ s.old = 0
<1>1. rehasher \in Rehasher /\ Over \in Rehasher /\ Over.rehashing = FALSE /\ Over.old = 0
      /\ Over.name = rehasher.name /\ Over.gen = rehasher.gen
  BY RehasherOver, Zenon DEF Types, SameRehasher
<1> QED
  BY <1>1, Zenon DEF Rehasher, SameRehasher

\* The rehasher is started on the table in force.
LEMMA RehasherStarted ==
    ASSUME Types, NEW t \in Nat
    PROVE  LET r == [rehasher EXCEPT !.rehashing = TRUE, !.old = t, !.idx = 0]
           IN  SameRehasher(r, rehasher) /\ r.rehashing = TRUE /\ r.old = t /\ r.idx = 0
  BY Zenon DEF Types, Rehasher, SameRehasher

(* What the end of a Step does: nothing, or the next shard of the migration  *)
(* under way, or its end, which it reports.                                  *)
Kept == UNCHANGED <<rehasher, finished>>
Advanced(p) ==
    /\ rehasher.rehashing /\ ~p.moved /\ rehasher.idx = p.idx /\ rehasher.gen = p.gen
    /\ SameRehasher(rehasher', rehasher) /\ rehasher'.rehashing
    /\ rehasher'.old = rehasher.old /\ rehasher'.idx = rehasher.idx + 1
    /\ rehasher.idx + 1 < Count(rehasher.old)
    /\ UNCHANGED finished
Ended(p) ==
    /\ rehasher.rehashing /\ ~p.moved /\ rehasher.idx = p.idx /\ rehasher.gen = p.gen
    /\ SameRehasher(rehasher', rehasher) /\ ~rehasher'.rehashing /\ rehasher'.old = 0
    /\ ~(rehasher.idx + 1 < Count(rehasher.old))
    /\ finished' = finished + 1

\* StepEnd does one of the three.
LEMMA StepEnds ==
    ASSUME Types, Sound, NEW g \in Goroutine, StepEnd(g)
    PROVE  Kept \/ Advanced(proc[g]) \/ Ended(proc[g])
<1> DEFINE next == rehasher.idx + 1
           last == next >= Count(rehasher.old)
<1>1. IF Advances(proc[g])
      THEN /\ rehasher' = [(IF last THEN Over ELSE rehasher) EXCEPT !.idx = next]
           /\ finished' = IF last THEN finished + 1 ELSE finished
      ELSE UNCHANGED <<rehasher, finished>>
  BY Zenon DEF StepEnd
<1>2. CASE ~Advances(proc[g])
  BY <1>1, <1>2, Zenon DEF Kept
<1>3. CASE Advances(proc[g])
  <2>1. /\ rehasher.rehashing /\ ~proc[g].moved /\ rehasher.idx = proc[g].idx
        /\ rehasher.gen = proc[g].gen
    BY <1>3, Zenon DEF Advances
  <2>2. rehasher.idx \in Nat
    BY Zenon DEF Types, Rehasher
  <2>3. next \in Nat
    BY <2>2
  <2>4. Count(rehasher.old) \in Nat
    <3>1. Within(tables, rehasher.old, rehasher.idx) /\ tables \in Seq(Shards)
      BY <2>1, Zenon DEF Sound, GoodRehasher, Types
    <3>2. tables[rehasher.old] \in Shards /\ rehasher.old # 0
      BY <3>1 DEF Within
    <3>3. PICK n \in Nat \ {0} : Cardinality(DOMAIN tables[rehasher.old]) = n
      BY <3>2, ShardsOf, Zenon
    <3> QED
      BY <3>2, <3>3, Zenon DEF Count
  <2>5. CASE last
    <3>1. rehasher' = [Over EXCEPT !.idx = next] /\ finished' = finished + 1
      BY <1>1, <1>3, <2>5, Zenon
    <3>2. SameRehasher(rehasher', rehasher) /\ rehasher'.rehashing = FALSE /\ rehasher'.old = 0
      BY <2>3, <3>1, RehasherNext, Zenon
    <3>3. ~(rehasher.idx + 1 < Count(rehasher.old))
      BY <2>3, <2>4, <2>5
    <3> QED
      BY <2>1, <3>1, <3>2, <3>3, Zenon DEF Ended
  <2>6. CASE ~last
    <3>1. rehasher' = [rehasher EXCEPT !.idx = next] /\ finished' = finished
      BY <1>1, <1>3, <2>6, Zenon
    <3>2. SameRehasher(rehasher', rehasher) /\ rehasher'.rehashing = rehasher.rehashing
          /\ rehasher'.old = rehasher.old /\ rehasher'.idx = next
      BY <2>3, <3>1, RehasherNext, Zenon
    <3>3. rehasher.idx + 1 < Count(rehasher.old)
      BY <2>3, <2>4, <2>6
    <3> QED
      BY <2>1, <3>1, <3>2, <3>3, Zenon DEF Advanced
  <2> QED
    BY <2>5, <2>6, Zenon
<1> QED
  BY <1>2, <1>3, Zenon


\* The first steps of Resize, SetRehasher and Close: where the caller is then.
LEMMA AdminMoves ==
    ASSUME Types, NEW g \in Goroutine
    PROVE  /\ \A count \in ShardCounts : Resize(g, count) =>
                  /\ OnlyMoves(g) /\ proc'[g].pc = "swap" /\ proc'[g].idx = count
                  /\ proc'[g].items = proc[g].items /\ proc'[g].name = proc[g].name
                  /\ proc'[g].call \notin {"set", "del"}
           /\ \A name \in SwapNames : SetRehasher(g, name) =>
                  /\ OnlyMoves(g) /\ proc'[g].pc = "install" /\ proc'[g].name = name
                  /\ proc'[g].items = proc[g].items
                  /\ proc'[g].call \notin {"set", "del"}
           /\ Close(g) => /\ OnlyMoves(g) /\ proc'[g].pc = "stop"
                          /\ proc'[g].items = proc[g].items /\ proc'[g].name = proc[g].name
                          /\ proc'[g].call \notin {"set", "del"}
<1>1. proc \in [Goroutine -> Proc] /\ proc[g] \in Proc
  BY Zenon DEF Types
<1>2. ASSUME NEW q \in Proc, proc' = [proc EXCEPT ![g] = q]
      PROVE  OnlyMoves(g) /\ proc'[g] = q
  BY <1>1, <1>2, Zenon DEF OnlyMoves
<1>3. ASSUME NEW count \in ShardCounts, Resize(g, count)
      PROVE  /\ OnlyMoves(g) /\ proc'[g].pc = "swap" /\ proc'[g].idx = count
             /\ proc'[g].items = proc[g].items /\ proc'[g].name = proc[g].name
             /\ proc'[g].call \notin {"set", "del"}
  <2> DEFINE q == [proc[g] EXCEPT !.pc = "swap", !.call = "resize", !.idx = count]
  <2>1. proc' = [proc EXCEPT ![g] = q]
    BY <1>3, Zenon DEF Resize
  <2>2. count \in Nat /\ "swap" \in Place /\ "resize" \in CallName \cup {"none"}
    BY CacheAssumption, Zenon DEF Place, CallName
  <2>3. q \in Proc /\ q.pc = "swap" /\ q.idx = count /\ q.items = proc[g].items
        /\ q.name = proc[g].name /\ q.call = "resize"
    BY <1>1, <2>2, ZenonT(40) DEF Proc
  <2> HIDE DEF q
  <2> QED
    BY <1>2, <2>1, <2>3, Zenon
<1>4. ASSUME NEW name \in SwapNames, SetRehasher(g, name)
      PROVE  /\ OnlyMoves(g) /\ proc'[g].pc = "install" /\ proc'[g].name = name
             /\ proc'[g].items = proc[g].items
             /\ proc'[g].call \notin {"set", "del"}
  <2> DEFINE q == [proc[g] EXCEPT !.pc = "install", !.call = "setRehasher", !.name = name]
  <2>1. proc' = [proc EXCEPT ![g] = q]
    BY <1>4, Zenon DEF SetRehasher
  <2>2. name \in RehasherName /\ "install" \in Place /\ "setRehasher" \in CallName \cup {"none"}
    BY CacheAssumption, Zenon DEF Place, CallName
  <2>3. q \in Proc /\ q.pc = "install" /\ q.name = name /\ q.items = proc[g].items /\ q.call = "setRehasher"
    BY <1>1, <2>2, ZenonT(40) DEF Proc
  <2> HIDE DEF q
  <2> QED
    BY <1>2, <2>1, <2>3, Zenon
<1>5. ASSUME Close(g)
      PROVE  /\ OnlyMoves(g) /\ proc'[g].pc = "stop"
             /\ proc'[g].items = proc[g].items /\ proc'[g].name = proc[g].name
             /\ proc'[g].call \notin {"set", "del"}
  <2> DEFINE q == [proc[g] EXCEPT !.pc = "stop", !.call = "close"]
  <2>1. proc' = [proc EXCEPT ![g] = q]
    BY <1>5, Zenon DEF Close
  <2>2. "stop" \in Place /\ "close" \in CallName \cup {"none"}
    BY Zenon DEF Place, CallName
  <2>3. q \in Proc /\ q.pc = "stop" /\ q.items = proc[g].items /\ q.name = proc[g].name /\ q.call = "close"
    BY <1>1, <2>2, ZenonT(40) DEF Proc
  <2> HIDE DEF q
  <2> QED
    BY <1>2, <2>1, <2>3, Zenon
<1> QED
  BY <1>3, <1>4, <1>5, Zenon

\* A step that leaves the tables keeps the types.
LEMMA RehasherTypes ==
    ASSUME Types, Sound, NEW g \in Goroutine, OnlyMoves(g), GoodProc(proc'[g], tables),
           tables' = tables, rehasher' \in Rehasher, GoodRehasher(rehasher', tables),
           current' \in 0 .. Len(tables), closed' \in BOOLEAN, ~closed' => current' # 0,
           acked' \in Content, finished' \in Nat, panicked' = panicked
    PROVE  Types' /\ Sound'
<1>1. Grows(tables, tables')
  BY GrowsSame, Zenon
<1>2. panicked' \in BOOLEAN
  BY Zenon DEF Types
<1>3. GoodProc(proc'[g], tables') /\ GoodRehasher(rehasher', tables')
      /\ current' \in 0 .. Len(tables')
  BY ONLY tables' = tables, GoodProc(proc'[g], tables), GoodRehasher(rehasher', tables),
          current' \in 0 .. Len(tables), Zenon
<1> QED
  BY <1>1, <1>2, <1>3, SoundMoves, Zenon

\* The ends of a Step, and Resize, SetRehasher and Close, keep the types.
LEMMA AdminTypes ==
    ASSUME Types, Sound, NEW g \in Goroutine, StepEnd(g) \/ BatchEnd(g) \/ Admin(g)
    PROVE  Types' /\ Sound'
<1>1. /\ tables \in Seq(Shards) /\ rehasher \in Rehasher /\ GoodRehasher(rehasher, tables)
      /\ current \in 0 .. Len(tables) /\ closed \in BOOLEAN /\ (~closed => current # 0)
      /\ finished \in Nat /\ acked \in Content
  BY Zenon DEF Types, Sound
<1>2. finished + 1 \in Nat
  BY <1>1
<1>3. CASE StepEnd(g)
  <2>1. Return(g) /\ UNCHANGED <<tables, current, closed, panicked>>
    BY <1>3, Zenon DEF StepEnd
  <2>2. OnlyMoves(g) /\ GoodProc(proc'[g], tables) /\ acked' \in Content
    BY <2>1, Returns, Zenon
  <2>3. rehasher' \in Rehasher /\ GoodRehasher(rehasher', tables) /\ finished' \in Nat
    <3>1. CASE Kept
      BY <1>1, <3>1, Zenon DEF Kept
    <3>2. CASE Advanced(proc[g])
      <4>1. Within(tables, rehasher.old, rehasher.idx) /\ rehasher.old \in 0 .. Len(tables)
        BY <1>1, <3>2, Zenon DEF GoodRehasher, Advanced
      <4>2. tables[rehasher.old] \in Shards /\ rehasher.old # 0 /\ rehasher.old \in 1 .. Len(tables)
        BY <1>1, <4>1 DEF Within
      <4>3. PICK n \in Nat \ {0} : DOMAIN tables[rehasher.old] = 0 .. n - 1
                                   /\ Cardinality(DOMAIN tables[rehasher.old]) = n
        BY <4>2, ShardsOf, Zenon
      <4>4. Count(rehasher.old) = n
        BY <4>2, <4>3, Zenon DEF Count
      <4>5. rehasher.idx + 1 < n /\ rehasher.idx \in 0 .. n - 1
        BY <3>2, <4>1, <4>3, <4>4, Zenon DEF Advanced, Within
      <4>6. rehasher.idx + 1 \in DOMAIN tables[rehasher.old]
        BY <4>3, <4>5
      <4>7. Within(tables, rehasher.old, rehasher.idx + 1)
        BY <4>2, <4>6, Zenon DEF Within
      <4> QED
        BY <1>1, <3>2, <4>1, <4>7, Zenon DEF Advanced, GoodRehasher, SameRehasher
    <3>3. CASE Ended(proc[g])
      <4>1. 0 \in 0 .. Len(tables)
        BY <1>1
      <4> QED
        BY <1>2, <3>3, <4>1, Zenon DEF Ended, GoodRehasher, SameRehasher
    <3> QED
      BY <1>3, <3>1, <3>2, <3>3, StepEnds, Zenon
  <2> QED
    BY <1>1, <2>1, <2>2, <2>3, RehasherTypes, Zenon
<1>4. CASE BatchEnd(g)
  <2>1. /\ Return(g) /\ UNCHANGED <<tables, current, closed, panicked>>
        /\ finished' = finished + 1 /\ rehasher' \in {Over, rehasher}
    BY <1>4, Zenon DEF BatchEnd
  <2>2. OnlyMoves(g) /\ GoodProc(proc'[g], tables) /\ acked' \in Content
    BY <2>1, Returns, Zenon
  <2>3. rehasher' \in Rehasher /\ GoodRehasher(rehasher', tables)
    BY <1>1, <2>1, RehasherOver, Zenon DEF SameRehasher
  <2> QED
    BY <1>1, <1>2, <2>1, <2>2, <2>3, RehasherTypes, Zenon
<1>5. ASSUME NEW count \in ShardCounts, Resize(g, count) PROVE Types' /\ Sound'
  <2>1. OnlyMoves(g) /\ proc'[g].pc = "swap" /\ proc'[g].idx = count
    BY <1>5, AdminMoves, Zenon
  <2>2. GoodProc(proc'[g], tables)
    BY <2>1, CacheAssumption, Zenon DEF GoodProc
  <2> DEFINE r == [rehasher EXCEPT !.rehashing = TRUE, !.old = current, !.idx = 0]
  <2>3. /\ rehasher' \in {r, rehasher} /\ current # 0
        /\ UNCHANGED <<tables, current, closed, acked, finished, panicked>>
    BY <1>1, <1>5, Zenon DEF Resize
  <2>4. current \in 1 .. Len(tables) /\ current \in Nat
    BY <1>1, <2>3
  <2>5. r \in Rehasher /\ r.old = current /\ r.idx = 0
    BY <2>4, RehasherStarted, Zenon DEF SameRehasher
  <2> HIDE DEF r
  <2>6. 0 \in DOMAIN tables[current]
    <3>1. tables[current] \in Shards
      BY <1>1, <2>4
    <3>2. PICK n \in Nat \ {0} : DOMAIN tables[current] = 0 .. n - 1
      BY <3>1, ShardsOf, Zenon
    <3> QED
      BY <3>2
  <2>7. GoodRehasher(r, tables)
    BY <1>1, <2>4, <2>5, <2>6, Zenon DEF GoodRehasher, Within
  <2>8. rehasher' \in Rehasher /\ GoodRehasher(rehasher', tables)
    BY <1>1, <2>3, <2>5, <2>7, Zenon
  <2> QED
    BY <1>1, <2>1, <2>2, <2>3, <2>8, RehasherTypes, Zenon
<1>6. CASE ResizeStore(g)
  <2> DEFINE n == proc[g].idx
  <2>1. /\ At(g, "swap") /\ Return(g) /\ tables' = Append(tables, NewTable(n))
        /\ current' = Len(tables) + 1 /\ UNCHANGED <<rehasher, closed, finished, panicked>>
    BY <1>6, Zenon DEF ResizeStore
  <2>2. OnlyMoves(g) /\ GoodProc(proc'[g], tables') /\ acked' \in Content
    BY <2>1, Returns, Zenon
  <2>3. n \in Nat \ {0}
    <3>1. GoodProc(proc[g], tables) /\ proc[g] \in Proc
      BY Zenon DEF Sound, Types
    <3> QED
      BY <2>1, <3>1, Zenon DEF At, GoodProc, Proc
  <2> HIDE DEF n
  <2>4. NewTable(n) \in Shards
    BY <2>3, NewShards, Zenon DEF Types
  <2>5. /\ tables' \in Seq(Shards) /\ Len(tables') = Len(tables) + 1 /\ Len(tables) \in Nat
        /\ \A x \in 1 .. Len(tables) : tables'[x] = tables[x]
    BY <1>1, <2>1, <2>4
  <2>6. Grows(tables, tables')
    BY <2>5 DEF Grows
  <2>7. GoodRehasher(rehasher', tables') /\ rehasher' \in Rehasher
    BY <1>1, <2>1, <2>6, GoodKept, Zenon
  <2>8. /\ current' \in 0 .. Len(tables') /\ current' # 0 /\ closed' \in BOOLEAN
        /\ finished' \in Nat /\ panicked' \in BOOLEAN
    BY <1>1, <2>1, <2>5 DEF Types
  <2> QED
    BY <2>2, <2>6, <2>7, <2>8, SoundMoves, Zenon
<1>7. ASSUME NEW name \in SwapNames, SetRehasher(g, name) PROVE Types' /\ Sound'
  <2>1. OnlyMoves(g) /\ proc'[g].pc = "install"
    BY <1>7, AdminMoves, Zenon
  <2>2. GoodProc(proc'[g], tables)
    BY <2>1, Zenon DEF GoodProc
  <2>3. rehasher' = Stop /\ UNCHANGED <<tables, current, closed, acked, finished, panicked>>
    BY <1>7, Zenon DEF SetRehasher
  <2>4. rehasher' \in Rehasher /\ GoodRehasher(rehasher', tables)
    BY <1>1, <2>3, RehasherOver, ZenonT(40) DEF SameRehasher
  <2> QED
    BY <1>1, <2>1, <2>2, <2>3, <2>4, RehasherTypes, Zenon
<1>8. CASE Install(g)
  <2>1. /\ Return(g) /\ rehasher' = newRehasher(proc[g].name, rehasher.gen + 1)
        /\ UNCHANGED <<tables, current, closed, finished, panicked>>
    BY <1>8, Zenon DEF Install
  <2>2. OnlyMoves(g) /\ GoodProc(proc'[g], tables) /\ acked' \in Content
    BY <2>1, Returns, Zenon
  <2>3. proc[g].name \in RehasherName /\ rehasher.gen + 1 \in Nat
    BY DEF Types, Proc, Rehasher
  <2>4. rehasher' \in Rehasher /\ rehasher'.old = 0 /\ ~rehasher'.rehashing
    BY <2>1, <2>3, Zenon DEF newRehasher, Rehasher
  <2>5. 0 \in 0 .. Len(tables)
    BY <1>1
  <2>6. GoodRehasher(rehasher', tables)
    BY <2>4, <2>5, ZenonT(40) DEF GoodRehasher
  <2> QED
    BY <1>1, <2>1, <2>2, <2>4, <2>6, RehasherTypes, Zenon
<1>9. CASE Close(g)
  <2>1. OnlyMoves(g) /\ proc'[g].pc = "stop"
    BY <1>9, AdminMoves, Zenon
  <2>2. GoodProc(proc'[g], tables)
    BY <2>1, Zenon DEF GoodProc
  <2>3. closed' = TRUE /\ current' = 0 /\ UNCHANGED <<tables, rehasher, acked, finished, panicked>>
    BY <1>9, Zenon DEF Close
  <2>4. current' \in 0 .. Len(tables)
    BY <1>1, <2>3
  <2> QED
    BY <1>1, <2>1, <2>2, <2>3, <2>4, RehasherTypes, Zenon
<1>10. CASE CloseStop(g)
  <2>1. Return(g) /\ rehasher' = Stop /\ UNCHANGED <<tables, current, closed, finished, panicked>>
    BY <1>10, Zenon DEF CloseStop
  <2>2. OnlyMoves(g) /\ GoodProc(proc'[g], tables) /\ acked' \in Content
    BY <2>1, Returns, Zenon
  <2>3. rehasher' \in Rehasher /\ GoodRehasher(rehasher', tables)
    BY <1>1, <2>1, RehasherOver, Zenon DEF SameRehasher
  <2> QED
    BY <1>1, <2>1, <2>2, <2>3, RehasherTypes, Zenon
<1> QED
  BY <1>3, <1>4, <1>5, <1>6, <1>7, <1>8, <1>9, <1>10, Zenon DEF Admin

\* Every step keeps the types.
LEMMA TypesStep == Types /\ Sound /\ [Next]_vars => Types' /\ Sound'
<1> SUFFICES ASSUME Types, Sound, [Next]_vars PROVE Types' /\ Sound'
  BY Zenon
<1>1. CASE UNCHANGED vars
  BY <1>1, Zenon DEF vars, Types, Sound
<1>2. ASSUME NEW g \in Goroutine, Operation(g) PROVE Types' /\ Sound'
  BY <1>2, OperationTypes, WriteTypes, Zenon DEF Operation
<1>3. ASSUME NEW g \in Goroutine, Step(g) PROVE Types' /\ Sound'
  BY <1>3, BeginTypes, StepTypes, AdminTypes, Zenon DEF Step
<1>4. ASSUME NEW g \in Goroutine, Admin(g) PROVE Types' /\ Sound'
  BY <1>4, AdminTypes, Zenon
<1> QED
  BY <1>1, <1>2, <1>3, <1>4, Zenon DEF Next

-----------------------------------------------------------------------------
(* What the steps of a call do *)

OnTheWay == {"load", "apply", "check", "old", "oldApply", "stepping", "table"}

\* The call returns, goes on, loads the table, or begins its Step.
Finishes(p, q) == q = Idle /\ (p.call \notin {"set", "del"} => acked' = acked)
Passes(g, p, q) ==
    /\ q.pc \in OnTheWay /\ q.items = p.items /\ q.name = p.name
    /\ q.call = p.call \/ (p.pc = "idle" /\ q.call \in Calls[g])
    /\ acked' = acked
Loads(p, q) ==
    /\ q.pc = "begin" /\ q.table = current /\ q.items = p.items /\ q.name = p.name
    /\ q.call = p.call
    /\ acked' = acked
Begins(p, q) ==
    /\ rehasher.rehashing /\ p.pc = "begin" /\ q.pc = "extract" /\ q.table = p.table
    /\ q.items = p.items /\ q.call = p.call
    /\ q.old = rehasher.old /\ q.name = rehasher.name /\ q.gen = rehasher.gen
    /\ q.idx = IF rehasher.name = "batch" THEN 0 ELSE rehasher.idx
    /\ acked' = acked

\* Only a Set and a Del store anything, and only an empty table panics.
Walked(g) ==
    /\ OnlyMoves(g)
    /\ proc[g].pc \in OnTheWay \cup {"idle", "begin"}
    /\ \/ Finishes(proc[g], proc'[g]) \/ Passes(g, proc[g], proc'[g])
       \/ Loads(proc[g], proc'[g]) \/ Begins(proc[g], proc'[g])
    /\ proc[g].call \notin {"set", "del"} => tables' = tables
    /\ Len(tables') = Len(tables)
    /\ panicked' = panicked \/ current = 0
    /\ UNCHANGED <<current, rehasher, closed, finished>>

\* The steps before a Step takes anything.
LEMMA Walks ==
    ASSUME Types, Sound, NEW g \in Goroutine,
           Operation(g) \/ CheckStep(g) \/ LoadTable(g) \/ StepBegin(g)
    PROVE  Walked(g)
<1> DEFINE p == proc[g]
<1>1. proc \in [Goroutine -> Proc] /\ p \in Proc /\ tables \in Seq(Shards)
  BY Zenon DEF Types
<1>2. proc' \in [Goroutine -> Proc]
  BY OperationTypes, WriteTypes, BeginTypes, Zenon DEF Operation, Types
<1>3. ASSUME NEW q, proc' = [proc EXCEPT ![g] = q]
      PROVE  OnlyMoves(g) /\ proc'[g] = q
  BY <1>1, <1>2, <1>3, Zenon DEF OnlyMoves
<1>4. p.pc \in OnTheWay \cup {"idle", "begin"}
  BY ZenonT(40) DEF Operation, Call, getShard, Apply, ApplyGet, CheckRehashing, OldShard, OldDel, OldGet,
         CheckStep, LoadTable, StepBegin, At, OnTheWay
<1>5. UNCHANGED <<current, rehasher, closed, finished>>
  BY ZenonT(40) DEF Operation, Call, getShard, Apply, ApplyGet, CheckRehashing, OldShard, OldDel, OldGet,
         CheckStep, LoadTable, StepBegin
<1>6. panicked' = panicked \/ current = 0
  BY ZenonT(40) DEF Operation, Call, getShard, Apply, ApplyGet, CheckRehashing, OldShard, OldDel, OldGet,
         CheckStep, LoadTable, StepBegin
<1>7. p.call \notin {"set", "del"} => tables' = tables
  BY ZenonT(40) DEF Operation, Call, getShard, Apply, ApplyGet, CheckRehashing, OldShard, OldDel, OldGet,
         CheckStep, LoadTable, StepBegin
<1>8. Len(tables') = Len(tables)
  <2>1. ASSUME NEW t, NEW i, NEW v \in Value \cup {None}, Write(t, i, p.key, v)
        PROVE  Len(tables') = Len(tables)
    <3> DEFINE k == p.key
    <3>1. StoredEntry(tables', tables, t, i, k, v)
      BY <2>1, Zenon DEF StoredEntry, Write
    <3> HIDE DEF k
    <3>2. SameSize(tables', tables)
      BY <1>1, <3>1, EntryStored, Zenon
    <3> QED
      BY <3>2, Zenon DEF SameSize
  <2>2. p.val \in Value \cup {None}
    BY <1>1, Zenon DEF Proc
  <2>3. CASE Apply(g)
    BY <2>1, <2>2, <2>3, Zenon DEF Apply
  <2>4. CASE OldDel(g)
    BY <2>1, <2>4, Zenon DEF OldDel
  <2>5. CASE tables' = tables
    BY <2>5, Zenon
  <2> QED
    BY <2>3, <2>4, <2>5, Zenon DEF Operation, Call, getShard, ApplyGet, CheckRehashing, OldShard, OldGet,
         CheckStep, LoadTable, StepBegin
<1>9. ASSUME NEW pc \in OnTheWay, Continue(g, pc)
      PROVE  OnlyMoves(g) /\ Passes(g, p, proc'[g])
  <2> DEFINE q == [p EXCEPT !.pc = pc]
  <2>1. proc' = [proc EXCEPT ![g] = q] /\ acked' = acked
    BY <1>9, Zenon DEF Continue, Goto
  <2>2. q.pc = pc /\ q.items = p.items /\ q.name = p.name /\ q.call = p.call
    BY <1>1, Zenon DEF Proc
  <2> HIDE DEF q
  <2> QED
    BY <1>3, <2>1, <2>2, Zenon DEF Passes
<1>10. ASSUME NEW v, NEW pc \in OnTheWay, Found(g, v, pc)
       PROVE  OnlyMoves(g) /\ Passes(g, p, proc'[g])
  <2> DEFINE q == [p EXCEPT !.pc = pc, !.val = v]
  <2>1. proc' = [proc EXCEPT ![g] = q] /\ acked' = acked
    BY <1>10, Zenon DEF Found
  <2>2. q.pc = pc /\ q.items = p.items /\ q.name = p.name /\ q.call = p.call
    BY <1>1, Zenon DEF Proc
  <2> HIDE DEF q
  <2> QED
    BY <1>3, <2>1, <2>2, Zenon DEF Passes
<1>11. ASSUME Return(g) PROVE OnlyMoves(g) /\ Finishes(p, proc'[g])
  BY <1>11, Returns, Zenon DEF Return, Finishes
<1>12. ASSUME NEW c, NEW key, NEW val, Call(g, c, key, val)
       PROVE  OnlyMoves(g) /\ Passes(g, p, proc'[g])
  <2> DEFINE q == [p EXCEPT !.pc = "load", !.call = c, !.key = key, !.val = val]
  <2>1. proc' = [proc EXCEPT ![g] = q] /\ acked' = acked /\ c \in Calls[g] /\ p.pc = "idle"
    BY <1>12, Zenon DEF Call, At
  <2>2. q.pc = "load" /\ q.items = p.items /\ q.name = p.name /\ q.call = c
    BY <1>1, Zenon DEF Proc
  <2> HIDE DEF q
  <2>3. "load" \in OnTheWay
    BY Zenon DEF OnTheWay
  <2> QED
    BY <1>3, <2>1, <2>2, <2>3, Zenon DEF Passes
<1>13. ASSUME getShard(g) PROVE OnlyMoves(g) /\ Passes(g, p, proc'[g])
  <2>1. p.pc = "load" /\ "load" \in OnTheWay /\ "apply" \in OnTheWay
    BY <1>13, Zenon DEF getShard, At, OnTheWay
  <2>2. CASE proc' = proc /\ acked' = acked
    BY <1>2, <2>1, <2>2, Zenon DEF OnlyMoves, Passes
  <2> DEFINE q == [p EXCEPT !.pc = "apply", !.table = current]
  <2>3. CASE proc' = [proc EXCEPT ![g] = q] /\ acked' = acked
    <3>1. q.pc = "apply" /\ q.items = p.items /\ q.name = p.name /\ q.call = p.call
      BY <1>1, Zenon DEF Proc
    <3> HIDE DEF q
    <3> QED
      BY <1>3, <2>1, <2>3, <3>1, Zenon DEF Passes
  <2> QED
    BY <1>13, <2>2, <2>3, Zenon DEF getShard, Panic
<1>14. ASSUME OldShard(g) PROVE OnlyMoves(g) /\ Passes(g, p, proc'[g])
  <2> DEFINE i == Index(p.key, Count(rehasher.old))
             q == [p EXCEPT !.pc = "oldApply", !.old = rehasher.old, !.idx = i]
  <2>1. "oldApply" \in OnTheWay /\ "stepping" \in OnTheWay /\ "table" \in OnTheWay
    BY Zenon DEF OnTheWay
  <2>2. CASE proc' = [proc EXCEPT ![g] = q] /\ acked' = acked
    <3>1. q.pc = "oldApply" /\ q.items = p.items /\ q.name = p.name /\ q.call = p.call
      BY <1>1, Zenon DEF Proc
    <3> HIDE DEF q
    <3> QED
      BY <1>3, <2>1, <2>2, <3>1, Zenon DEF Passes
  <2>3. CASE Continue(g, IF p.call = "get" THEN "stepping" ELSE "table")
    BY <1>9, <2>1, <2>3, Zenon
  <2> QED
    BY <1>14, <2>2, <2>3, Zenon DEF OldShard
<1>15. ASSUME LoadTable(g) PROVE OnlyMoves(g) /\ Loads(p, proc'[g])
  <2> DEFINE q == [p EXCEPT !.pc = "begin", !.table = current]
  <2>1. proc' = [proc EXCEPT ![g] = q] /\ acked' = acked
    BY <1>15, Zenon DEF LoadTable
  <2>2. /\ q.pc = "begin" /\ q.table = current /\ q.items = p.items /\ q.name = p.name
        /\ q.call = p.call
    BY <1>1, Zenon DEF Proc
  <2> HIDE DEF q
  <2> QED
    BY <1>3, <2>1, <2>2, Zenon DEF Loads
<1>16. ASSUME StepBegin(g) PROVE OnlyMoves(g) /\ (Begins(p, proc'[g]) \/ Finishes(p, proc'[g]))
  <2> DEFINE i == IF rehasher.name = "batch" THEN 0 ELSE rehasher.idx
             q == [p EXCEPT !.pc = "extract", !.old = rehasher.old, !.idx = i,
                            !.name = rehasher.name, !.gen = rehasher.gen]
  <2>1. CASE rehasher.rehashing
    <3>1. proc' = [proc EXCEPT ![g] = q] /\ acked' = acked /\ p.pc = "begin"
      BY <1>16, <2>1, Zenon DEF StepBegin, At
    <3> HIDE DEF i
    <3>2. /\ q.pc = "extract" /\ q.table = p.table /\ q.items = p.items /\ q.call = p.call
          /\ q.old = rehasher.old /\ q.name = rehasher.name /\ q.gen = rehasher.gen /\ q.idx = i
      BY <1>1, ZenonT(40) DEF Proc
    <3> HIDE DEF q
    <3> QED
      BY <1>3, <2>1, <3>1, <3>2, Zenon DEF Begins, i
  <2>2. CASE ~rehasher.rehashing
    BY <1>11, <1>16, <2>2, Zenon DEF StepBegin
  <2> QED
    BY <2>1, <2>2, Zenon
<1>17. OnlyMoves(g) /\ (\/ Finishes(p, proc'[g]) \/ Passes(g, p, proc'[g])
                        \/ Loads(p, proc'[g]) \/ Begins(p, proc'[g]))
  <2>1. /\ "check" \in OnTheWay /\ "old" \in OnTheWay /\ "stepping" \in OnTheWay
        /\ "table" \in OnTheWay
    BY Zenon DEF OnTheWay
  <2>2. CASE Apply(g) \/ OldDel(g)
    BY <1>9, <2>1, <2>2, Zenon DEF Apply, OldDel
  <2>3. CASE ApplyGet(g)
    BY <1>9, <1>10, <2>1, <2>3, Zenon DEF ApplyGet
  <2>4. CASE CheckRehashing(g)
    BY <1>9, <1>11, <2>1, <2>4, Zenon DEF CheckRehashing
  <2>5. CASE OldGet(g)
    BY <1>10, <2>1, <2>5, Zenon DEF OldGet
  <2>6. CASE CheckStep(g)
    BY <1>9, <1>11, <2>1, <2>6, Zenon DEF CheckStep
  <2> QED
    BY <1>12, <1>13, <1>14, <1>15, <1>16, <2>2, <2>3, <2>4, <2>5, <2>6, ZenonT(40) DEF Operation
<1> QED
  BY <1>4, <1>5, <1>6, <1>7, <1>8, <1>17, Zenon DEF Walked


\* A Step takes entries out of its shard, or puts one in the table it loaded.
Worked(g) ==
    LET p == proc[g]
        q == proc'[g]
    IN  /\ OnlyMoves(g)
        /\ p.pc \in {"extract", "move"} /\ q.pc \in {"extract", "move", "end"}
        /\ q.name = p.name /\ q.table = p.table /\ q.call = p.call
        /\ Len(tables') = Len(tables)
        /\ panicked' = panicked \/ (p.pc = "move" /\ \E key \in Key : OutOfRange(g, key))
        /\ UNCHANGED <<current, rehasher, closed, acked, finished>>

\* Extract and Move.
LEMMA Works == ASSUME Types, Sound, NEW g \in Goroutine, Extract(g) \/ Move(g) PROVE Worked(g)
<1>1. proc[g].pc \in {"extract", "move"} /\ (Move(g) => proc[g].pc = "move")
  BY Zenon DEF Extract, Move, At
<1>2. ASSUME NEW out, Extracted(g, out) PROVE Worked(g)
  BY <1>1, <1>2, Zenon DEF Extracted, SameSize, Worked
<1>3. ASSUME NEW key \in Key, Carried(g, key) PROVE Worked(g)
  <2> DEFINE i == Index(key, Count(current))
             v == proc[g].items[key]
             t == proc[g].table
  <2>1. StoredEntry(tables', tables, t, i, key, v)
    BY <1>3, Zenon DEF Carried
  <2>2. v \in Value \cup {None}
    <3>1. proc[g] \in Proc
      BY Zenon DEF Types
    <3>2. proc[g].items \in Content
      BY <3>1, Zenon DEF Proc
    <3> QED
      BY <3>2, Zenon DEF Content
  <2> HIDE DEF i, v, t
  <2>3. Len(tables') = Len(tables)
    <3>1. tables \in Seq(Shards)
      BY Zenon DEF Types
    <3>2. SameSize(tables', tables)
      BY <2>1, <2>2, <3>1, EntryStored, Zenon
    <3> QED
      BY <3>2, Zenon DEF SameSize
  <2> QED
    BY <1>1, <1>3, <2>3, Zenon DEF Carried, Worked
<1>4. ASSUME NEW key \in Key, OutOfRange(g, key), Move(g) PROVE Worked(g)
  <2>1. UNCHANGED <<tables, current, rehasher, closed, proc, acked, finished>>
    BY <1>4, Zenon DEF OutOfRange
  <2>2. OnlyMoves(g)
    BY <2>1, Zenon DEF OnlyMoves, Types
  <2> QED
    BY <1>1, <1>4, <2>1, <2>2, Zenon DEF Worked
<1> QED
  BY <1>2, <1>3, <1>4, Extracts, Moves, Zenon

-----------------------------------------------------------------------------
(* The end of a migration is reported once *)

Running(r) == IF r.rehashing THEN 1 ELSE 0
Swapping == \E g \in Goroutine : At(g, "swap")

Held == {"swap", "stop"}

(* c.mu is held by one goroutine at most, no batch rehasher is about, and    *)
(* the migrations reported and under way are no more than the Resizes that   *)
(* stored their table or are about to.                                       *)
DoneInv ==
    /\ \A g \in Goroutine : proc[g].name # "batch"
    /\ rehasher.name # "batch"
    /\ \A g, h \in Goroutine : proc[g].pc \in Held /\ proc[h].pc \in Held => g = h
    /\ finished + Running(rehasher) <= Len(tables) - 1 + (IF Swapping THEN 1 ELSE 0)

\* A step by which no Resize begins or ends keeps the count.
LEMMA CountKept ==
    ASSUME Types, Types', DoneInv, NEW g \in Goroutine, OnlyMoves(g),
           proc[g].pc # "swap", proc'[g].pc # "swap",
           proc'[g].pc \in Held => MuFree \/ proc[g].pc \in Held,
           proc'[g].name # "batch", rehasher'.name # "batch", Len(tables') = Len(tables),
           finished' + Running(rehasher') <= finished + Running(rehasher)
    PROVE  DoneInv'
<1>1. \A h \in Goroutine : h # g => proc'[h] = proc[h]
  BY Zenon DEF OnlyMoves
<1>2. Swapping' <=> Swapping
  BY <1>1, Zenon DEF Swapping, At
<1>3. \A h \in Goroutine : proc'[h].name # "batch"
  BY <1>1, Zenon DEF DoneInv
<1>4. \A a, b \in Goroutine : proc'[a].pc \in Held /\ proc'[b].pc \in Held => a = b
  BY <1>1, Zenon DEF DoneInv, MuFree, Held
<1>5. /\ finished \in Nat /\ finished' \in Nat /\ Running(rehasher) \in Nat
      /\ Running(rehasher') \in Nat /\ Len(tables) \in Nat
  BY DEF Types, Running
<1>6. finished' + Running(rehasher') <= Len(tables') - 1 + (IF Swapping' THEN 1 ELSE 0)
  <2>1. finished + Running(rehasher) <= Len(tables) - 1 + (IF Swapping THEN 1 ELSE 0)
    BY Zenon DEF DoneInv
  <2> QED
    BY <1>2, <1>5, <2>1
<1>7. Running(rehasher)' = Running(rehasher')
  BY Zenon DEF Running
<1> QED
  BY <1>3, <1>4, <1>6, <1>7, Zenon DEF DoneInv

\* A migration reported and one that runs are one.
LEMMA EndCounts ==
    ASSUME Types, NEW p, Kept \/ Advanced(p) \/ Ended(p)
    PROVE  finished' + Running(rehasher') <= finished + Running(rehasher)
           /\ rehasher'.name = rehasher.name
<1>1. finished \in Nat
  BY Zenon DEF Types
<1>2. CASE Kept
  BY <1>1, <1>2 DEF Kept, Running
<1>3. CASE Advanced(p)
  BY <1>1, <1>3 DEF Advanced, Running, SameRehasher
<1>4. CASE Ended(p)
  BY <1>1, <1>4 DEF Ended, Running, SameRehasher
<1> QED
  BY <1>2, <1>3, <1>4, Zenon

\* The count holds initially.
LEMMA DoneInit ==
    ASSUME "batch" \notin FirstNames \cup SwapNames, Init
    PROVE  DoneInv
<1>1. /\ proc = [g \in Goroutine |-> Idle] /\ finished = 0
      /\ \E name \in FirstNames : rehasher = newRehasher(name, 0)
  BY Zenon DEF Init
<1>2. \A g \in Goroutine : proc[g].name # "batch" /\ proc[g].pc = "idle"
  BY <1>1, Zenon DEF Idle
<1>3. rehasher.name # "batch" /\ Running(rehasher) = 0
  BY <1>1 DEF newRehasher, Running
<1>4. Len(tables) = 1
  BY DEF Init
<1>5. ~Swapping
  BY <1>2, Zenon DEF Swapping, At
<1> QED
  BY <1>1, <1>2, <1>3, <1>4, <1>5 DEF DoneInv, Held

\* Every step keeps the count.
LEMMA DoneStep ==
    ASSUME "batch" \notin FirstNames \cup SwapNames, Types, Sound, DoneInv, [Next]_vars
    PROVE  DoneInv'
<1>1. Types'
  BY TypesStep, Zenon
<1>2. finished \in Nat /\ Running(rehasher) \in 0 .. 1 /\ Len(tables) \in Nat
  BY DEF Types, Running
<1>3. CASE UNCHANGED vars
  BY <1>3, Zenon DEF vars, DoneInv, Swapping, At, Running
<1>4. ASSUME NEW g \in Goroutine PROVE proc[g].name # "batch" /\ rehasher.name # "batch"
  BY Zenon DEF DoneInv
<1>5. Idle.name = "noop" /\ Idle.pc = "idle"
  BY Zenon DEF Idle
<1>6. ASSUME NEW g \in Goroutine, Walked(g) PROVE DoneInv'
  <2>1. /\ OnlyMoves(g) /\ Len(tables') = Len(tables) /\ rehasher' = rehasher
        /\ finished' = finished /\ proc[g].pc \in OnTheWay \cup {"idle", "begin"}
    BY <1>6, Zenon DEF Walked
  <2>2. /\ proc'[g].pc \in OnTheWay \cup {"idle", "begin", "extract"}
        /\ proc'[g].name \in {proc[g].name, rehasher.name, "noop"}
    BY <1>5, <1>6, Zenon DEF Walked, Finishes, Passes, Loads, Begins
  <2>3. /\ proc[g].pc # "swap" /\ proc'[g].pc # "swap" /\ proc'[g].pc \notin Held
        /\ proc'[g].name # "batch"
    BY <1>4, <2>1, <2>2, Zenon DEF OnTheWay, Held
  <2>4. finished' + Running(rehasher') <= finished + Running(rehasher)
    BY <1>2, <2>1
  <2> QED
    BY <1>1, <1>4, <2>1, <2>3, <2>4, CountKept, Zenon
<1>7. ASSUME NEW g \in Goroutine, Worked(g) PROVE DoneInv'
  <2>1. /\ OnlyMoves(g) /\ Len(tables') = Len(tables) /\ rehasher' = rehasher
        /\ finished' = finished /\ proc[g].pc \in {"extract", "move"}
        /\ proc'[g].pc \in {"extract", "move", "end"} /\ proc'[g].name = proc[g].name
    BY <1>7, Zenon DEF Worked
  <2>2. /\ proc[g].pc # "swap" /\ proc'[g].pc # "swap" /\ proc'[g].pc \notin Held
        /\ proc'[g].name # "batch"
    BY <1>4, <2>1, Zenon DEF Held
  <2>3. finished' + Running(rehasher') <= finished + Running(rehasher)
    BY <1>2, <2>1
  <2> QED
    BY <1>1, <1>4, <2>1, <2>2, <2>3, CountKept, Zenon
<1>8. ASSUME NEW g \in Goroutine, Return(g), proc[g].pc # "swap", rehasher'.name # "batch",
             finished' + Running(rehasher') <= finished + Running(rehasher),
             tables' = tables
      PROVE  DoneInv'
  <2>1. OnlyMoves(g) /\ proc'[g] = Idle
    BY <1>8, Returns, Zenon
  <2>2. /\ proc'[g].pc # "swap" /\ proc'[g].pc \notin Held /\ proc'[g].name # "batch"
        /\ Len(tables') = Len(tables)
    BY <1>5, <1>8, <2>1, Zenon DEF Held
  <2> QED
    BY <1>1, <1>8, <2>1, <2>2, CountKept, Zenon
<1>9. ASSUME NEW g \in Goroutine, StepEnd(g) PROVE DoneInv'
  <2>1. Return(g) /\ tables' = tables /\ proc[g].pc # "swap"
    BY <1>9, Zenon DEF StepEnd, At
  <2>2. /\ finished' + Running(rehasher') <= finished + Running(rehasher)
        /\ rehasher'.name = rehasher.name
    BY <1>9, StepEnds, EndCounts, Zenon
  <2> QED
    BY <1>4, <1>8, <2>1, <2>2, Zenon
<1>10. ASSUME NEW g \in Goroutine, BatchEnd(g) PROVE DoneInv'
  BY <1>4, <1>10, Zenon DEF BatchEnd
<1>11. ASSUME NEW g \in Goroutine, NEW count \in ShardCounts, Resize(g, count) PROVE DoneInv'
  <2>1. OnlyMoves(g) /\ proc'[g].pc = "swap" /\ proc'[g].name = proc[g].name
    BY <1>11, AdminMoves, Zenon
  <2>2. MuFree /\ ~rehasher.rehashing /\ tables' = tables /\ finished' = finished
    BY <1>11, Zenon DEF Resize
  <2>3. rehasher'.name = rehasher.name
    <3>1. current \in Nat
      BY DEF Types
    <3> DEFINE r == [rehasher EXCEPT !.rehashing = TRUE, !.old = current, !.idx = 0]
    <3>2. rehasher' \in {r, rehasher}
      BY <1>11, Zenon DEF Resize
    <3>3. r.name = rehasher.name
      BY <3>1, RehasherStarted, Zenon DEF SameRehasher
    <3> HIDE DEF r
    <3> QED
      BY <3>2, <3>3, Zenon
  <2>4. \A h \in Goroutine : h # g => proc'[h] = proc[h]
    BY <2>1, Zenon DEF OnlyMoves
  <2>5. Swapping' /\ ~Swapping
    BY <2>1, <2>2, Zenon DEF Swapping, At, MuFree
  <2>6. \A h \in Goroutine : proc'[h].name # "batch"
    BY <1>4, <2>1, <2>4, Zenon
  <2>7. \A a, b \in Goroutine : proc'[a].pc \in Held /\ proc'[b].pc \in Held => a = b
    BY <2>2, <2>4, Zenon DEF MuFree, Held
  <2>8. finished + Running(rehasher) <= Len(tables) - 1 + (IF Swapping THEN 1 ELSE 0)
    BY Zenon DEF DoneInv
  <2>9. Running(rehasher)' \in 0 .. 1 /\ Running(rehasher) = 0
    BY <2>2 DEF Running
  <2>10. finished' + Running(rehasher)' <= Len(tables') - 1 + (IF Swapping' THEN 1 ELSE 0)
    BY <1>2, <2>2, <2>5, <2>8, <2>9
  <2> QED
    BY <1>4, <2>3, <2>6, <2>7, <2>10, Zenon DEF DoneInv
<1>12. ASSUME NEW g \in Goroutine, ResizeStore(g) PROVE DoneInv'
  <2>1. /\ proc[g].pc = "swap" /\ Return(g) /\ rehasher' = rehasher /\ finished' = finished
        /\ tables' = Append(tables, NewTable(proc[g].idx))
    BY <1>12, Zenon DEF ResizeStore, At
  <2>2. OnlyMoves(g) /\ proc'[g] = Idle
    BY <2>1, Returns, Zenon
  <2>3. Len(tables') = Len(tables) + 1
    BY <2>1 DEF Types
  <2>4. \A h \in Goroutine : h # g => proc'[h] = proc[h]
    BY <2>2, Zenon DEF OnlyMoves
  <2>5. Swapping /\ ~Swapping'
    <3>1. Swapping
      BY <2>1, Zenon DEF Swapping, At
    <3>2. \A h \in Goroutine : proc[h].pc = "swap" => h = g
      BY <2>1, Zenon DEF DoneInv, Held
    <3>3. \A h \in Goroutine : proc'[h].pc # "swap"
      BY <1>5, <2>2, <2>4, <3>2, Zenon
    <3> QED
      BY <3>1, <3>3, Zenon DEF Swapping, At
  <2>6. \A h \in Goroutine : proc'[h].name # "batch"
    BY <1>4, <1>5, <2>2, <2>4, Zenon
  <2>7. proc'[g].pc \notin Held
    BY <1>5, <2>2, Zenon DEF Held
  <2>8. \A a, b \in Goroutine : proc'[a].pc \in Held /\ proc'[b].pc \in Held => a = b
    BY <2>4, <2>7, Zenon DEF DoneInv
  <2>9. finished + Running(rehasher) <= Len(tables) - 1 + (IF Swapping THEN 1 ELSE 0)
    BY Zenon DEF DoneInv
  <2>10. Running(rehasher)' = Running(rehasher)
    BY <2>1, Zenon DEF Running
  <2>11. finished' + Running(rehasher)' <= Len(tables') - 1 + (IF Swapping' THEN 1 ELSE 0)
    BY <1>2, <2>1, <2>3, <2>5, <2>9, <2>10
  <2> QED
    BY <1>4, <2>1, <2>6, <2>8, <2>11, Zenon DEF DoneInv
<1>13. finished + 0 <= finished + Running(rehasher)
  BY <1>2
<1>14. ASSUME NEW g \in Goroutine, NEW name \in SwapNames, SetRehasher(g, name) PROVE DoneInv'
  <2>1. OnlyMoves(g) /\ proc'[g].pc = "install" /\ proc'[g].name = name
    BY <1>14, AdminMoves, Zenon
  <2>2. rehasher' = Stop /\ tables' = tables /\ finished' = finished /\ proc[g].pc = "idle"
    BY <1>14, Zenon DEF SetRehasher, At
  <2>3. Running(rehasher') = 0 /\ rehasher'.name = rehasher.name
    BY <2>2, RehasherOver, Zenon DEF Running, SameRehasher
  <2>4. /\ proc[g].pc # "swap" /\ proc'[g].pc # "swap" /\ proc'[g].pc \notin Held
        /\ proc'[g].name # "batch" /\ Len(tables') = Len(tables)
    BY <2>1, <2>2, Zenon DEF Held
  <2>5. finished' + Running(rehasher') <= finished + Running(rehasher)
    BY <1>13, <2>2, <2>3, Zenon
  <2> QED
    BY <1>1, <1>4, <2>1, <2>3, <2>4, <2>5, CountKept, Zenon
<1>15. ASSUME NEW g \in Goroutine, Install(g) PROVE DoneInv'
  <2>1. /\ Return(g) /\ rehasher' = newRehasher(proc[g].name, rehasher.gen + 1)
        /\ tables' = tables /\ finished' = finished /\ proc[g].pc # "swap"
    BY <1>15, Zenon DEF Install, At
  <2>2. rehasher'.name = proc[g].name /\ Running(rehasher') = 0
    BY <2>1, Zenon DEF newRehasher, Running
  <2> QED
    BY <1>4, <1>8, <1>13, <2>1, <2>2, Zenon
<1>16. ASSUME NEW g \in Goroutine, Close(g) PROVE DoneInv'
  <2>1. OnlyMoves(g) /\ proc'[g].pc = "stop" /\ proc'[g].name = proc[g].name
    BY <1>16, AdminMoves, Zenon
  <2>2. MuFree /\ tables' = tables /\ rehasher' = rehasher /\ finished' = finished
        /\ proc[g].pc = "idle"
    BY <1>16, Zenon DEF Close, At
  <2>3. /\ proc[g].pc # "swap" /\ proc'[g].pc # "swap" /\ proc'[g].name # "batch"
        /\ Len(tables') = Len(tables) /\ rehasher'.name # "batch"
    BY <1>4, <2>1, <2>2, Zenon
  <2>4. finished' + Running(rehasher') <= finished + Running(rehasher)
    BY <1>2, <2>2
  <2> QED
    BY <1>1, <2>1, <2>2, <2>3, <2>4, CountKept, Zenon
<1>17. ASSUME NEW g \in Goroutine, CloseStop(g) PROVE DoneInv'
  <2>1. /\ Return(g) /\ rehasher' = Stop /\ tables' = tables /\ finished' = finished
        /\ proc[g].pc # "swap"
    BY <1>17, Zenon DEF CloseStop, At
  <2>2. rehasher'.name = rehasher.name /\ Running(rehasher') = 0
    BY <2>1, RehasherOver, Zenon DEF Running, SameRehasher
  <2> QED
    BY <1>4, <1>8, <1>13, <2>1, <2>2, Zenon
<1>18. CASE Next
  BY <1>6, <1>7, <1>9, <1>10, <1>11, <1>12, <1>14, <1>15, <1>16, <1>17, <1>18, Walks, Works, ZenonT(40)
     DEF Next, Step, Admin
<1> QED
  BY <1>3, <1>18, Zenon

-----------------------------------------------------------------------------
(* No index out of range before Close *)

Stepping == {"begin", "extract", "move", "end"}

(* While a Resize is about to store its table no other call is under way, so *)
(* the table a Step has loaded is the table in force until the cache closes. *)
StepsInv ==
    /\ panicked => closed
    /\ \A g, h \in Goroutine : proc[g].pc = "swap" /\ h # g => proc[h].pc = "idle"
    /\ ~closed => \A g \in Goroutine : proc[g].pc \in Stepping => proc[g].table = current

\* A step with no Resize about.
LEMMA StepsKept ==
    ASSUME StepsInv, NEW g \in Goroutine, OnlyMoves(g), ~Swapping, proc'[g].pc # "swap",
           closed' \in BOOLEAN, closed => closed', current' = current \/ closed',
           panicked' => closed',
           closed' \/ proc'[g].pc \notin Stepping \/ proc'[g].table = current
    PROVE  StepsInv'
<1>1. \A h \in Goroutine : h # g => proc'[h] = proc[h]
  BY Zenon DEF OnlyMoves
<1>2. \A h \in Goroutine : proc'[h].pc # "swap"
  BY <1>1, Zenon DEF Swapping, At
<1>3. ASSUME ~closed', NEW h \in Goroutine, proc'[h].pc \in Stepping
      PROVE  proc'[h].table = current'
  <2>1. ~closed /\ current' = current
    BY <1>3, Zenon
  <2>2. CASE h = g
    BY <1>3, <2>1, <2>2, Zenon
  <2>3. CASE h # g
    <3>1. proc'[h] = proc[h]
      BY <1>1, <2>3, Zenon
    <3>2. proc[h].table = current
      BY <1>3, <2>1, <3>1, Zenon DEF StepsInv
    <3> QED
      BY <2>1, <3>1, <3>2, Zenon
  <2> QED
    BY <2>2, <2>3, Zenon
<1> QED
  BY <1>2, <1>3, Zenon DEF StepsInv

\* A call that returns with no Resize about.
LEMMA StepsReturn ==
    ASSUME Types, StepsInv, NEW g \in Goroutine, Return(g), ~Swapping,
           closed' = closed, current' = current, panicked' = panicked
    PROVE  StepsInv'
<1>1. OnlyMoves(g) /\ proc'[g] = Idle
  BY Returns, ZenonT(40)
<1>2. proc'[g].pc # "swap" /\ proc'[g].pc \notin Stepping
  BY <1>1 DEF Idle, Stepping
<1>3. closed' \in BOOLEAN /\ (closed => closed') /\ (panicked' => closed')
  BY Zenon DEF Types, StepsInv
<1> QED
  BY <1>1, <1>2, <1>3, StepsKept, Zenon

\* The Steps have their tables initially.
LEMMA StepsInit == Init => StepsInv
<1> SUFFICES ASSUME Init PROVE StepsInv
  BY Zenon
<1>1. proc = [g \in Goroutine |-> Idle] /\ panicked = FALSE
  BY Zenon DEF Init
<1>2. \A g \in Goroutine : proc[g].pc = "idle"
  BY <1>1, Zenon DEF Idle
<1> QED
  BY <1>1, <1>2, Zenon DEF StepsInv, Stepping

\* Every step keeps them.
LEMMA StepsStep ==
    ASSUME Types, Sound, StepsInv, [Next /\ Disciplined]_vars
    PROVE  StepsInv'
<1>1. CASE UNCHANGED vars
  BY <1>1, Zenon DEF vars, StepsInv
<1>2. closed \in BOOLEAN /\ (panicked => closed) /\ (~closed => current # 0)
  BY Zenon DEF Types, Sound, StepsInv
<1>3. ASSUME NEW g \in Goroutine, ResizeStore(g) PROVE StepsInv'
  <2>1. proc[g].pc = "swap" /\ Return(g) /\ closed' = closed /\ panicked' = panicked
    BY <1>3, Zenon DEF ResizeStore, At
  <2>2. OnlyMoves(g) /\ proc'[g] = Idle
    BY <2>1, Returns, Zenon
  <2>3. Idle.pc = "idle"
    BY Zenon DEF Idle
  <2>4. \A h \in Goroutine : proc'[h].pc = "idle"
    BY <2>1, <2>2, <2>3, Zenon DEF StepsInv, OnlyMoves
  <2> QED
    BY <1>2, <2>1, <2>4, Zenon DEF StepsInv, Stepping
<1>4. ASSUME NEW g \in Goroutine, Walked(g), ~Swapping PROVE StepsInv'
  <2>1. /\ OnlyMoves(g) /\ closed' = closed /\ current' = current
        /\ panicked' = panicked \/ current = 0
    BY <1>4, Zenon DEF Walked
  <2>2. Idle.pc = "idle"
    BY Zenon DEF Idle
  <2>3. \/ proc'[g].pc \in OnTheWay \cup {"idle"}
        \/ proc'[g].pc = "begin" /\ proc'[g].table = current
        \/ proc'[g].pc = "extract" /\ proc[g].pc = "begin" /\ proc'[g].table = proc[g].table
    BY <1>4, <2>2, Zenon DEF Walked, Finishes, Passes, Loads, Begins
  <2>4. proc'[g].pc # "swap"
    BY <2>3, Zenon DEF OnTheWay
  <2>5. ~closed /\ proc[g].pc = "begin" => proc[g].table = current
    BY Zenon DEF StepsInv, Stepping
  <2>6. closed' \/ proc'[g].pc \notin Stepping \/ proc'[g].table = current
    BY <2>1, <2>3, <2>5, Zenon DEF OnTheWay, Stepping
  <2>7. closed' \in BOOLEAN /\ (closed => closed') /\ (panicked' => closed')
    BY <1>2, <2>1
  <2> QED
    BY <1>4, <2>1, <2>4, <2>6, <2>7, StepsKept, Zenon
<1>5. ASSUME NEW g \in Goroutine, Worked(g), ~Swapping PROVE StepsInv'
  <2>1. /\ OnlyMoves(g) /\ closed' = closed /\ current' = current
        /\ proc[g].pc \in {"extract", "move"} /\ proc'[g].pc \in {"extract", "move", "end"}
        /\ proc'[g].table = proc[g].table
        /\ panicked' = panicked \/ \E key \in Key : OutOfRange(g, key)
    BY <1>5, Zenon DEF Worked
  <2>2. ~closed => proc[g].table = current
    BY <2>1, Zenon DEF StepsInv, Stepping
  <2>3. ASSUME NEW key \in Key, OutOfRange(g, key) PROVE closed
    <3>1. SUFFICES ASSUME ~closed PROVE FALSE
      BY <1>2, Zenon
    <3>2. current \in 1 .. Len(tables) /\ proc[g].table = current /\ current # 0
      BY <1>2, <2>2, <3>1 DEF Types
    <3>3. Index(key, Count(current)) \in DOMAIN tables[current]
      BY <3>2, IndexInTable, Zenon
    <3> QED
      BY <2>3, <3>2, <3>3, Zenon DEF OutOfRange
  <2>4. closed' \in BOOLEAN /\ (closed => closed') /\ (panicked' => closed')
    BY <1>2, <2>1, <2>3
  <2>5. proc'[g].pc # "swap"
    BY <2>1, Zenon
  <2>6. closed' \/ proc'[g].table = current
    BY <2>1, <2>2, Zenon
  <2> QED
    BY <1>5, <2>1, <2>4, <2>5, <2>6, StepsKept, Zenon
<1>6. ASSUME NEW g \in Goroutine, StepEnd(g) \/ BatchEnd(g), ~Swapping PROVE StepsInv'
  <2>1. Return(g) /\ closed' = closed /\ current' = current /\ panicked' = panicked
    BY <1>6, Zenon DEF StepEnd, BatchEnd
  <2> QED
    BY <1>6, <2>1, StepsReturn, Zenon
<1>7. ASSUME NEW g \in Goroutine, Install(g) \/ CloseStop(g), ~Swapping PROVE StepsInv'
  <2>1. Return(g) /\ closed' = closed /\ current' = current /\ panicked' = panicked
    BY <1>7, Zenon DEF Install, CloseStop
  <2> QED
    BY <1>7, <2>1, StepsReturn, Zenon
<1>8. ASSUME NEW g \in Goroutine, NEW name \in SwapNames, SetRehasher(g, name), ~Swapping
      PROVE  StepsInv'
  <2>1. OnlyMoves(g) /\ proc'[g].pc = "install"
    BY <1>8, AdminMoves, Zenon
  <2>2. closed' = closed /\ current' = current /\ panicked' = panicked
    BY <1>8, Zenon DEF SetRehasher
  <2>3. /\ proc'[g].pc # "swap" /\ proc'[g].pc \notin Stepping
        /\ closed' \in BOOLEAN /\ (closed => closed') /\ (panicked' => closed')
    BY <1>2, <2>1, <2>2, Zenon DEF Stepping
  <2> QED
    BY <1>8, <2>1, <2>2, <2>3, StepsKept, Zenon
<1>9. ASSUME NEW g \in Goroutine, Close(g), ~Swapping PROVE StepsInv'
  <2>1. OnlyMoves(g) /\ proc'[g].pc = "stop" /\ closed' = TRUE
    BY <1>9, AdminMoves, Zenon DEF Close
  <2>2. proc'[g].pc # "swap" /\ closed' \in BOOLEAN
    BY <2>1, Zenon
  <2> QED
    BY <1>9, <2>1, <2>2, StepsKept, Zenon
<1>10. ASSUME NEW g \in Goroutine, NEW count \in ShardCounts, Resize(g, count), Disciplined
       PROVE  StepsInv'
  <2>1. OnlyMoves(g) /\ proc'[g].pc = "swap"
    BY <1>10, AdminMoves, Zenon
  <2>2. closed' = closed /\ current' = current /\ panicked' = panicked /\ At(g, "idle")
    BY <1>10, Zenon DEF Resize
  <2>3. Quiet
    BY <1>10, <2>1, <2>2, Zenon DEF Disciplined
  <2>4. \A h \in Goroutine : h # g => proc'[h].pc = "idle"
    BY <2>1, <2>3, Zenon DEF OnlyMoves, Quiet, At
  <2>5. \A h \in Goroutine : proc'[h].pc \notin Stepping
    BY <2>1, <2>4, Zenon DEF Stepping
  <2>6. \A a, b \in Goroutine : proc'[a].pc = "swap" /\ b # a => proc'[b].pc = "idle"
    BY <2>4, Zenon
  <2> QED
    BY <1>2, <2>2, <2>5, <2>6, Zenon DEF StepsInv
<1>11. CASE Next /\ Disciplined /\ ~Swapping
  <2>1. PICK g \in Goroutine : Operation(g) \/ Step(g) \/ Admin(g)
    BY <1>11, Zenon DEF Next
  <2>2. CASE Operation(g) \/ CheckStep(g) \/ LoadTable(g) \/ StepBegin(g)
    BY <1>4, <1>11, <2>2, Walks, Zenon
  <2>3. CASE Extract(g) \/ Move(g)
    BY <1>5, <1>11, <2>3, Works, Zenon
  <2>4. CASE StepEnd(g) \/ BatchEnd(g)
    BY <1>6, <1>11, <2>4, Zenon
  <2>5. CASE Admin(g)
    BY <1>3, <1>7, <1>8, <1>9, <1>10, <1>11, <2>5, ZenonT(40) DEF Admin
  <2> QED
    BY <2>1, <2>2, <2>3, <2>4, <2>5, Zenon DEF Step
<1>12. CASE Next /\ Disciplined /\ Swapping
  <2>1. current' # current /\ ~MuFree
    BY <1>12, Zenon DEF Disciplined, Swapping, MuFree, At
  <2>2. PICK g \in Goroutine : Operation(g) \/ Step(g) \/ Admin(g)
    BY <1>12, Zenon DEF Next
  <2>3. CASE Operation(g) \/ CheckStep(g) \/ LoadTable(g) \/ StepBegin(g)
    BY <2>1, <2>3, Walks, Zenon DEF Walked
  <2>4. CASE Extract(g) \/ Move(g)
    BY <2>1, <2>4, Works, Zenon DEF Worked
  <2>5. CASE StepEnd(g) \/ BatchEnd(g)
    BY <2>1, <2>5, Zenon DEF StepEnd, BatchEnd
  <2>6. CASE Admin(g)
    <3>1. ResizeStore(g)
      BY <2>1, <2>6, Zenon DEF Admin, Resize, SetRehasher, Install, Close, CloseStop
    <3> QED
      BY <1>3, <3>1, Zenon
  <2> QED
    BY <2>2, <2>3, <2>4, <2>5, <2>6, Zenon DEF Step
<1> QED
  BY <1>1, <1>11, <1>12, Zenon
=============================================================================
