------------------------------- MODULE Cache -------------------------------
(***************************************************************************)
(* The sharded cache while its shard table is resized: Set, Get and Del of *)
(* any number of goroutines, Resize, SetRehasher and Close, and the        *)
(* migration that every Set, Get and Del pushes forward with one Step of   *)
(* the rehasher.                                                           *)
(*                                                                         *)
(* Nothing on the hot path takes a cache-wide lock.  The current table and *)
(* the rehashing flag are atomics, a shard has its own lock and the        *)
(* rehasher's mutex covers the beginning and the end of a Step, so a call  *)
(* is a sequence of actions, one for each atomic load or store or locked   *)
(* section.  Tables are numbered in the order of their creation and a      *)
(* goroutine holds the number of the one it loaded.  The cache is without  *)
(* a size limit, and entries do not expire; the lock that a shard takes is *)
(* one lock, and its sub-shards are left to the module Shard.              *)
(***************************************************************************)
EXTENDS Integers, Sequences, FiniteSets

CONSTANTS
    Goroutine,
    Key,
    Value,
    None,         \* no value
    HashOf,       \* the FNV hash of each key
    Calls,        \* what each goroutine may call
    ShardCounts,  \* the counts Resize is called with (powers of two)
    FirstCount,   \* the count the cache starts with
    FirstNames,   \* the rehashers the cache may be created with
    SwapNames,    \* the rehashers SetRehasher is called with
    batchSize,    \* the most entries an incremental Step moves (16 in the code)
    MaxTables,    \* bound: the tables created, so the Resizes
    MaxSwaps      \* bound: the calls of SetRehasher

CallName == {"get", "set", "del", "resize", "setRehasher", "close"}
RehasherName == {"incremental", "batch", "noop"}

ASSUME CacheAssumption ==
    /\ HashOf \in [Key -> Nat]
    /\ Calls \in [Goroutine -> SUBSET CallName]
    /\ ShardCounts \subseteq Nat \ {0}
    /\ FirstCount \in Nat \ {0}
    /\ FirstNames \cup SwapNames \subseteq RehasherName
    /\ batchSize \in Nat \ {0}
    /\ MaxTables \in Nat
    /\ MaxSwaps \in Nat
    /\ None \notin Value

VARIABLES
    tables,    \* every table made: its shards, each a map from keys to values
    current,   \* the table in c.shards, 0 for the empty one of Close
    rehasher,  \* c.rehasher
    closed,    \* c.closed
    proc,      \* what each goroutine is doing
    acked,     \* the last Set or Del of each key that returned
    finished,  \* how many Steps have reported justCompleted
    panicked   \* an index was out of range

vars == <<tables, current, rehasher, closed, proc, acked, finished, panicked>>

-----------------------------------------------------------------------------
(* Tables and types. *)

Content == [Key -> Value \cup {None}]
NoEntries == [k \in Key |-> None]

\* The shards of a table, or what the mask 0 of the empty table stands for.
Count(t) == IF t = 0 THEN 1 ELSE Cardinality(DOMAIN tables[t])

\* key's shard in a table of n shards.
Index(key, n) == HashOf[key] % n

Lookup(t, key) == tables[t][Index(key, Count(t))][key]

NewTable(n) == [i \in 0 .. n - 1 |-> NoEntries]

newRehasher(name, gen) ==
    [name |-> name, rehashing |-> FALSE, old |-> 0, idx |-> 0, gen |-> gen]

Idle ==
    [pc |-> "idle", call |-> "none", key |-> None, val |-> None, table |-> 0,
     old |-> 0, idx |-> 0, name |-> "noop", gen |-> 0, items |-> NoEntries, moved |-> FALSE]

TableId == 0 .. MaxTables

\* Every variable has its type.
TypeOK ==
    /\ tables \in Seq(UNION {[0 .. n - 1 -> Content] : n \in ShardCounts \cup {FirstCount}})
    /\ Len(tables) \in 1 .. MaxTables
    /\ current \in 0 .. Len(tables)
    /\ rehasher.name \in RehasherName
    /\ rehasher.rehashing \in BOOLEAN
    /\ rehasher.old \in 0 .. Len(tables)
    /\ rehasher.rehashing => rehasher.old # 0 /\ rehasher.idx \in DOMAIN tables[rehasher.old]
    /\ closed \in BOOLEAN
    /\ \A g \in Goroutine :
           /\ DOMAIN proc[g] = DOMAIN Idle
           /\ proc[g].call \in CallName \cup {"none"}
           /\ proc[g].key \in Key \cup {None}
           /\ proc[g].val \in Value \cup {None}
           /\ proc[g].table \in TableId
           /\ proc[g].old \in TableId
           /\ proc[g].items \in Content
    /\ acked \in Content
    /\ finished \in Nat
    /\ panicked \in BOOLEAN

-----------------------------------------------------------------------------
(* How a goroutine moves. *)

At(g, pc) == proc[g].pc = pc

Goto(g, pc) == proc' = [proc EXCEPT ![g].pc = pc]

\* The call returns; a Set or Del is acknowledged to its caller.
Return(g) ==
    /\ proc' = [proc EXCEPT ![g] = Idle]
    /\ acked' = IF proc[g].call \in {"set", "del"}
                THEN [acked EXCEPT ![proc[g].key] = proc[g].val]
                ELSE acked

\* The call goes on at pc with the value of an atomic or of a lock section.
Continue(g, pc) == Goto(g, pc) /\ UNCHANGED acked

Panic(g) == panicked' = TRUE /\ UNCHANGED <<proc, acked>>

\* validateOpen passes.  val is None for a Del, and for a Get until it finds one.
Call(g, call, key, val) ==
    /\ At(g, "idle")
    /\ call \in Calls[g]
    /\ ~closed
    /\ proc' = [proc EXCEPT ![g].pc = "load", ![g].call = call, ![g].key = key, ![g].val = val]
    /\ UNCHANGED <<tables, current, rehasher, closed, acked, finished, panicked>>

\* getShard: the empty table of a closed cache has no shard to index.
getShard(g) ==
    /\ At(g, "load")
    /\ IF current = 0
       THEN Panic(g)
       ELSE /\ proc' = [proc EXCEPT ![g].pc = "apply", ![g].table = current]
            /\ UNCHANGED <<acked, panicked>>
    /\ UNCHANGED <<tables, current, rehasher, closed, finished>>

Write(t, i, key, val) == tables' = [tables EXCEPT ![t][i][key] = val]

\* The shard's Set or Del.
Apply(g) ==
    LET p == proc[g]
    IN  /\ At(g, "apply")
        /\ p.call \in {"set", "del"}
        /\ Write(p.table, Index(p.key, Count(p.table)), p.key, p.val)
        /\ Continue(g, "check")
        /\ UNCHANGED <<current, rehasher, closed, finished, panicked>>

\* A Get has its value.
Found(g, v, pc) ==
    /\ proc' = [proc EXCEPT ![g].pc = pc, ![g].val = v]
    /\ UNCHANGED acked

\* The shard's get.
ApplyGet(g) ==
    LET p == proc[g]
        v == Lookup(p.table, p.key)
    IN  /\ At(g, "apply")
        /\ p.call = "get"
        /\ IF v # None
           THEN Found(g, v, "stepping")
           ELSE Continue(g, "check")
        /\ UNCHANGED <<tables, current, rehasher, closed, finished, panicked>>

-----------------------------------------------------------------------------
(* The second lookup, in the old table. *)

\* IsRehashing, before OldShard is asked for.
CheckRehashing(g) ==
    /\ At(g, "check")
    /\ IF rehasher.rehashing
       THEN Continue(g, "old")
       ELSE IF proc[g].call = "get" THEN Continue(g, "stepping") ELSE Return(g)
    /\ UNCHANGED <<tables, current, rehasher, closed, finished, panicked>>

\* OldShard answers nil when the migration has ended meanwhile.
OldShard(g) ==
    LET n == Count(rehasher.old)
    IN  /\ At(g, "old")
        /\ IF rehasher.rehashing /\ rehasher.old # 0
           THEN /\ proc' = [proc EXCEPT ![g].pc = "oldApply", ![g].old = rehasher.old,
                                        ![g].idx = Index(proc[g].key, n)]
                /\ UNCHANGED acked
           ELSE Continue(g, IF proc[g].call = "get" THEN "stepping" ELSE "table")
        /\ UNCHANGED <<tables, current, rehasher, closed, finished, panicked>>

\* A Set leaves the old copy where it is.
Mut_OldDel(g) ==
    LET p == proc[g]
    IN  /\ At(g, "oldApply")
        /\ p.call \in {"set", "del"}
        /\ IF p.call = "del" THEN Write(p.old, p.idx, p.key, None) ELSE UNCHANGED tables
        /\ Continue(g, "table")
        /\ UNCHANGED <<current, rehasher, closed, finished, panicked>>

\* A Set and a Del delete the key in the old shard.
OldDel(g) ==
    LET p == proc[g]
    IN  /\ At(g, "oldApply")
        /\ p.call \in {"set", "del"}
        /\ Write(p.old, p.idx, p.key, None)
        /\ Continue(g, "table")
        /\ UNCHANGED <<current, rehasher, closed, finished, panicked>>

\* A Get looks in the old shard; after a hit it does not ask again whether a
\* migration is under way.
OldGet(g) ==
    LET p == proc[g]
        v == tables[p.old][p.idx][p.key]
    IN  /\ At(g, "oldApply")
        /\ p.call = "get"
        /\ Found(g, v, IF v # None THEN "table" ELSE "stepping")
        /\ UNCHANGED <<tables, current, rehasher, closed, finished, panicked>>

-----------------------------------------------------------------------------
(* Step. *)

\* IsRehashing, before the Step of a Get.
CheckStep(g) ==
    /\ At(g, "stepping")
    /\ IF rehasher.rehashing THEN Continue(g, "table") ELSE Return(g)
    /\ UNCHANGED <<tables, current, rehasher, closed, finished, panicked>>

\* loadShardTable, for the newShards argument.
LoadTable(g) ==
    /\ At(g, "table")
    /\ proc' = [proc EXCEPT ![g].pc = "begin", ![g].table = current]
    /\ UNCHANGED <<tables, current, rehasher, closed, acked, finished, panicked>>

\* The first locked section: where to take entries from.  The batch rehasher
\* begins at the first shard whatever others have done.
StepBegin(g) ==
    /\ At(g, "begin")
    /\ IF rehasher.rehashing
       THEN /\ proc' = [proc EXCEPT ![g].pc = "extract", ![g].old = rehasher.old,
                                    ![g].idx = IF rehasher.name = "batch" THEN 0 ELSE rehasher.idx,
                                    ![g].name = rehasher.name, ![g].gen = rehasher.gen]
            /\ UNCHANGED acked
       ELSE Return(g)
    /\ UNCHANGED <<tables, current, rehasher, closed, finished, panicked>>

Present(t, i) == {k \in Key : tables[t][i][k] # None}

\* ExtractN on one shard of the old table, outside the rehasher's mutex: up to
\* batchSize entries in the order of a map iteration, or all of them.
Extract(g) ==
    LET p    == proc[g]
        have == Present(p.old, p.idx)
        Some == {out \in SUBSET have :
                    IF p.name = "batch" \/ Cardinality(have) <= batchSize
                    THEN out = have ELSE Cardinality(out) = batchSize}
    IN  /\ At(g, "extract")
        /\ \E out \in Some :
               LET next == CASE out # {} -> "move"
                             [] out = {} /\ p.name = "batch" /\ p.idx + 1 < Count(p.old) -> "extract"
                             [] OTHER -> "end"
               IN  /\ tables' = [tables EXCEPT ![p.old][p.idx] =
                                    [k \in Key |-> IF k \in out THEN None ELSE @[k]]]
                   /\ proc' = [proc EXCEPT ![g].pc = next,
                          ![g].idx = IF next = "extract" THEN @ + 1 ELSE @,
                          ![g].moved = out # {},
                          ![g].items = [k \in Key |-> IF k \in out THEN tables[p.old][p.idx][k] ELSE None]]
        /\ UNCHANGED <<current, rehasher, closed, acked, finished, panicked>>

\* One item is Set in the table loaded before the Step, at the index the
\* current table's mask gives, which may be another table's.
Move(g) ==
    LET p == proc[g]
    IN  /\ At(g, "move")
        /\ \E key \in {k \in Key : p.items[k] # None} :
               LET i    == Index(key, Count(current))
                   rest == [p.items EXCEPT ![key] = None]
               IN  IF p.table = 0 \/ i \notin DOMAIN tables[p.table]
                   THEN Panic(g) /\ UNCHANGED tables
                   ELSE /\ Write(p.table, i, key, p.items[key])
                        /\ proc' = [proc EXCEPT ![g].items = rest,
                               ![g].pc = CASE rest # NoEntries -> "move"
                                           [] rest = NoEntries /\ p.name = "batch" -> "extract"
                                           [] OTHER -> "end"]
                        /\ UNCHANGED <<acked, panicked>>
        /\ UNCHANGED <<current, rehasher, closed, finished>>

\* The shard is left after every batch, empty or not.
Mut_Advances(p) == rehasher.rehashing /\ rehasher.gen = p.gen /\ rehasher.idx = p.idx

\* The shard is left after the batches that moved something only.
Mut_AdvancesNever(p) ==
    p.moved /\ rehasher.rehashing /\ rehasher.gen = p.gen /\ rehasher.idx = p.idx

\* Nothing is looked at again in the second locked section.
Mut_AdvancesBlindly(p) == ~p.moved /\ rehasher.gen = p.gen

\* The shard a Step of the incremental rehasher found empty is left unless
\* another Step has done so.
Advances(p) ==
    /\ ~p.moved
    /\ rehasher.rehashing
    /\ rehasher.gen = p.gen
    /\ rehasher.idx = p.idx

\* The old table is released.
Over == [rehasher EXCEPT !.rehashing = FALSE, !.old = 0]

Stop == [Over EXCEPT !.idx = 0]

\* The second locked section of the incremental rehasher.
StepEnd(g) ==
    LET next == rehasher.idx + 1
        last == next >= Count(rehasher.old)
    IN  /\ At(g, "end")
        /\ proc[g].name = "incremental"
        /\ IF Advances(proc[g])
           THEN /\ rehasher' = [(IF last THEN Over ELSE rehasher) EXCEPT !.idx = next]
                /\ finished' = IF last THEN finished + 1 ELSE finished
           ELSE UNCHANGED <<rehasher, finished>>
        /\ Return(g)
        /\ UNCHANGED <<tables, current, closed, panicked>>

\* The same of the batch rehasher: the migration under way is over.
BatchEnd(g) ==
    /\ At(g, "end")
    /\ proc[g].name = "batch"
    /\ rehasher' = IF rehasher.gen = proc[g].gen THEN Over ELSE rehasher
    /\ finished' = finished + 1
    /\ Return(g)
    /\ UNCHANGED <<tables, current, closed, panicked>>

-----------------------------------------------------------------------------
(* Resize, SetRehasher and Close.  Resize and Close hold c.mu. *)

MuFree == \A g \in Goroutine : proc[g].pc \notin {"swap", "stop"}

\* The checks, and the rehasher's Start with the table to be replaced.
Resize(g, count) ==
    /\ At(g, "idle")
    /\ "resize" \in Calls[g]
    /\ ~closed
    /\ MuFree
    /\ ~rehasher.rehashing
    /\ Len(tables) < MaxTables
    /\ rehasher' = IF rehasher.name = "noop"
                   THEN rehasher
                   ELSE [rehasher EXCEPT !.rehashing = TRUE, !.old = current, !.idx = 0]
    /\ proc' = [proc EXCEPT ![g].pc = "swap", ![g].call = "resize", ![g].idx = count]
    /\ UNCHANGED <<tables, current, closed, acked, finished, panicked>>

\* The new table is stored.
ResizeStore(g) ==
    /\ At(g, "swap")
    /\ tables' = Append(tables, NewTable(proc[g].idx))
    /\ current' = Len(tables) + 1
    /\ Return(g)
    /\ UNCHANGED <<rehasher, closed, finished, panicked>>

\* The rehasher is stopped, and another takes its place in a second step: no
\* lock covers the two.
SetRehasher(g, name) ==
    /\ At(g, "idle")
    /\ "setRehasher" \in Calls[g]
    /\ ~closed
    /\ rehasher.gen < MaxSwaps
    /\ rehasher' = Stop
    /\ proc' = [proc EXCEPT ![g].pc = "install", ![g].call = "setRehasher", ![g].name = name]
    /\ UNCHANGED <<tables, current, closed, acked, finished, panicked>>

Install(g) ==
    /\ At(g, "install")
    /\ rehasher' = newRehasher(proc[g].name, rehasher.gen + 1)
    /\ Return(g)
    /\ UNCHANGED <<tables, current, closed, finished, panicked>>

\* The empty table is stored before the flag.
Mut_Close(g) ==
    /\ At(g, "idle")
    /\ "close" \in Calls[g]
    /\ ~closed
    /\ MuFree
    /\ current' = 0
    /\ proc' = [proc EXCEPT ![g].pc = "stop", ![g].call = "close"]
    /\ UNCHANGED <<tables, rehasher, closed, acked, finished, panicked>>

Close(g) ==
    /\ At(g, "idle")
    /\ "close" \in Calls[g]
    /\ ~closed
    /\ MuFree
    /\ closed' = TRUE
    /\ current' = 0
    /\ proc' = [proc EXCEPT ![g].pc = "stop", ![g].call = "close"]
    /\ UNCHANGED <<tables, rehasher, acked, finished, panicked>>

CloseStop(g) ==
    /\ At(g, "stop")
    /\ rehasher' = Stop
    /\ Return(g)
    /\ UNCHANGED <<tables, current, closed, finished, panicked>>

-----------------------------------------------------------------------------

Init ==
    /\ \E m \in Content :
           /\ tables = <<[i \in 0 .. FirstCount - 1 |->
                            [k \in Key |-> IF Index(k, FirstCount) = i THEN m[k] ELSE None]]>>
           /\ acked = m
    /\ current = 1
    /\ \E name \in FirstNames : rehasher = newRehasher(name, 0)
    /\ closed = FALSE
    /\ proc = [g \in Goroutine |-> Idle]
    /\ finished = 0
    /\ panicked = FALSE

Operation(g) ==
    \/ \E key \in Key :
           \/ Call(g, "get", key, None)
           \/ Call(g, "del", key, None)
           \/ \E val \in Value : Call(g, "set", key, val)
    \/ getShard(g) \/ Apply(g) \/ ApplyGet(g)
    \/ CheckRehashing(g) \/ OldShard(g) \/ OldDel(g) \/ OldGet(g)

Step(g) ==
    \/ CheckStep(g) \/ LoadTable(g) \/ StepBegin(g)
    \/ Extract(g) \/ Move(g) \/ StepEnd(g) \/ BatchEnd(g)

Admin(g) ==
    \/ \E count \in ShardCounts : Resize(g, count)
    \/ ResizeStore(g)
    \/ \E name \in SwapNames : SetRehasher(g, name)
    \/ Install(g)
    \/ Close(g) \/ CloseStop(g)

Next == ~panicked /\ \E g \in Goroutine : Operation(g) \/ Step(g) \/ Admin(g)

Spec == Init /\ [][Next]_vars

\* The callers keep calling and the scheduler runs some goroutine.
FairSpec == Spec /\ WF_vars(Next)

Quiet == \A g \in Goroutine : At(g, "idle")

\* Callers that run a Resize while no other call is under way, as the tests do.
Disciplined ==
    /\ ~Quiet => ~(\E g \in Goroutine : At(g, "idle") /\ proc[g]'.pc = "swap")
    /\ (\E g \in Goroutine : At(g, "swap")) => current' # current

QuietResizeSpec == Init /\ [][Next /\ Disciplined]_vars

-----------------------------------------------------------------------------
(* Properties. *)

InFlight(key) == {proc[g].items[key] : g \in Goroutine} \ {None}

Old(key) == IF rehasher.rehashing THEN Lookup(rehasher.old, key) ELSE None

New(key) == IF current # 0 THEN Lookup(current, key) ELSE None

\* What the cache holds for a key: in the current table, else in the old one,
\* else on its way between them.
View ==
    [key \in Key |->
        CASE New(key) # None -> New(key)
          [] New(key) = None /\ Old(key) # None -> Old(key)
          [] OTHER -> IF InFlight(key) = {} THEN None ELSE CHOOSE v \in InFlight(key) : TRUE]

\* The call g is in as its caller sees it.  A Set takes effect on the current
\* shard; a Del on the last shard that has the key; a Get when it is decided.
Request(g) ==
    LET p == proc[g]
        undecided == p.pc \in {"load", "apply", "check", "old", "oldApply"}
        done == CASE p.call = "set" -> p.pc \notin {"load", "apply"}
                  [] p.call = "del" -> p.pc \notin {"load", "apply"} /\ View[p.key] = None
                  [] p.call = "get" -> ~undecided
    IN  IF p.call \in {"get", "set", "del"}
        THEN [call |-> p.call, key |-> p.key, val |-> p.val, done |-> done]
        ELSE [call |-> "none", key |-> None, val |-> None, done |-> FALSE]

KV == INSTANCE KVMap WITH map <- View, request <- [g \in Goroutine |-> Request(g)]

\* One goroutine that sets, gets, deletes and resizes sees a plain map: each call
\* takes effect once, a Get answers what the last write of its key left, and no
\* Step, no change of shard and no change of table alters what the map holds.
ImplementsKVMap == KV!Spec

\* A migration, once begun, ends if calls keep coming: each call makes a Step,
\* and Steps leave one shard of the old table after the other.
MigrationEnds == rehasher.rehashing ~> ~rehasher.rehashing

Values(key) == ({New(key), Old(key)} \ {None}) \cup InFlight(key)

\* While only readers push a migration forward, and Resize was called when no
\* other call was under way, no interleaving of their Steps loses an entry:
\* at worst a reader misses one that another reader is carrying.
MigrationKeepsEntries ==
    [][(~closed' /\ \E g \in Goroutine :
            proc[g].pc \in {"extract", "move", "end"} /\ proc[g]' # proc[g])
          => \A key \in Key : Values(key) \subseteq Values(key)']_vars

\* Steps racing to finish a migration report its end once: there are never more
\* reports than Resizes whose migration is over.
CompletedOnce ==
    (\A g \in Goroutine : ~At(g, "swap"))
        => finished + (IF rehasher.rehashing THEN 1 ELSE 0) <= Len(tables) - 1

\* With one caller, whenever no call is under way each key has the value last
\* written to it, in the middle of a migration as well: no Step brings back the
\* copy a Set replaced or a Del removed.
AckedWritesVisible == (Quiet /\ ~closed) => View = acked

\* Readers, the Steps they make and a Resize called when no other call is under
\* way index no table out of range unless the cache is closed under them.
PanicsOnlyAfterClose == panicked => closed
=============================================================================
