--------------------------- MODULE CacheMigration ---------------------------
(***************************************************************************)
(* Readers lose no entry: whoever makes the Steps of a migration, and in   *)
(* whatever order, a value stays in the table in force, in the old one or  *)
(* with a Step that carries it, until the cache is closed.                 *)
(*                                                                         *)
(* At the end are the theorems about a migration, once FiniteSetTheorems   *)
(* has given the facts on Cardinality that the types carry (Counted).      *)
(***************************************************************************)
EXTENDS CacheProofs

Taking == {"extract", "move", "end"}

\* A shard without entries.
Bare(ts, t, i) == \A k \in Key : ts[t][i][k] = None

\* A reader that makes a Step: what it carries, where from, and what it has seen empty.
GoodStep(p, ts, r, cur, ack) ==
    /\ p.call \notin {"set", "del"}
    /\ \A k \in Key : p.items[k] \in {None, ack[k]}
    /\ IF p.pc = "move" THEN p.moved ELSE p.items = NoEntries
    /\ p.pc \in Taking =>
           /\ Within(ts, p.old, p.idx) /\ p.old # cur
           /\ r.rehashing => p.old = r.old
    /\ p.pc = "end" /\ p.name # "batch" /\ ~p.moved => Bare(ts, p.old, p.idx)
    /\ p.pc \in {"extract", "move"} /\ p.name = "batch" =>
           \A j \in DOMAIN ts[p.old] : j < p.idx => Bare(ts, p.old, j)
    /\ p.pc = "end" /\ p.name = "batch" => \A j \in DOMAIN ts[p.old] : Bare(ts, p.old, j)

\* The shards a migration has left are empty, and its table is not the one in force.
Passed(r, ts) == r.rehashing => \A j \in DOMAIN ts[r.old] : j < r.idx => Bare(ts, r.old, j)
Away(r, cur) == r.rehashing => r.old # cur

\* No table has another value for a key than its last.
Faithful(ts, ack) ==
    \A t \in 1 .. Len(ts) : \A i \in DOMAIN ts[t] : \A k \in Key : ts[t][i][k] \in {None, ack[k]}

(* Until Close: every copy of an entry is the same, carried or stored, and   *)
(* what Steps have left behind them stays empty.                             *)
CarryInv ==
    ~closed =>
        /\ Faithful(tables, acked)
        /\ \A g \in Goroutine : GoodStep(proc[g], tables, rehasher, current, acked)
        /\ Passed(rehasher, tables)
        /\ Swapping \/ Away(rehasher, current)

\* The shards of tables other than the one in force only get emptier.
Drained(us, ts, cur) ==
    \A t \in 1 .. Len(ts) : \A i \in DOMAIN ts[t] :
        t # cur /\ Bare(ts, t, i) => Bare(us, t, i)

\* What was said of a reader stays true of it.
LEMMA StepKept ==
    ASSUME NEW ts \in Seq(Shards), NEW us, SameSize(us, ts), NEW cur, Drained(us, ts, cur),
           NEW p, NEW r, NEW s, NEW ack, GoodStep(p, ts, r, cur, ack),
           s.rehashing => r.rehashing /\ s.old = r.old
    PROVE  GoodStep(p, us, s, cur, ack)
<1>1. CASE p.pc \notin Taking
  BY <1>1, Zenon DEF GoodStep, Taking
<1>2. CASE p.pc \in Taking
  <2>1. /\ p.old \in 1 .. Len(ts) /\ p.idx \in DOMAIN ts[p.old] /\ p.old # cur
        /\ r.rehashing => p.old = r.old
    BY <1>2, Zenon DEF GoodStep, Within
  <2>2. Len(us) = Len(ts) /\ DOMAIN us[p.old] = DOMAIN ts[p.old]
    BY <2>1, Zenon DEF SameSize
  <2>3. \A j \in DOMAIN ts[p.old] : Bare(ts, p.old, j) => Bare(us, p.old, j)
    BY <2>1, Zenon DEF Drained
  <2>4. Within(us, p.old, p.idx)
    BY <2>1, <2>2, Zenon DEF Within
  <2>5. s.rehashing => p.old = s.old
    BY <2>1, Zenon
  <2> QED
    BY <2>1, <2>2, <2>3, <2>4, <2>5, Zenon DEF GoodStep
<1> QED
  BY <1>1, <1>2, Zenon

\* Who is not in a Step carries nothing and has nothing to say of the tables.
LEMMA StepIdle ==
    ASSUME NEW p, p.pc \notin Taking, p.items = NoEntries, p.call \notin {"set", "del"},
           NEW ts, NEW r, NEW cur, NEW ack
    PROVE  GoodStep(p, ts, r, cur, ack)
<1>1. \A k \in Key : NoEntries[k] = None
  BY Zenon DEF NoEntries
<1> QED
  BY <1>1, Zenon DEF GoodStep, Taking

\* A migration that goes on where it was.
LEMMA PassedKept ==
    ASSUME NEW ts \in Seq(Shards), NEW us, SameSize(us, ts), NEW cur, Drained(us, ts, cur),
           NEW r, GoodRehasher(r, ts), Passed(r, ts), Away(r, cur)
    PROVE  Passed(r, us)
<1> SUFFICES ASSUME r.rehashing PROVE \A j \in DOMAIN us[r.old] : j < r.idx => Bare(us, r.old, j)
  BY Zenon DEF Passed
<1>1. r.old \in 1 .. Len(ts) /\ r.old # cur
  BY Zenon DEF GoodRehasher, Within, Away
<1>2. DOMAIN us[r.old] = DOMAIN ts[r.old]
  BY <1>1, Zenon DEF SameSize
<1> QED
  BY <1>1, <1>2, Zenon DEF Passed, Drained

\* The invariant after a step of g with no Resize about.
LEMMA CarryKept ==
    ASSUME Types, Sound, CarryInv, ~closed, ~Swapping, NEW g \in Goroutine, OnlyMoves(g),
           SameSize(tables', tables), Drained(tables', tables, current),
           Faithful(tables', acked), acked' = acked, current' = current,
           GoodStep(proc'[g], tables', rehasher', current, acked),
           rehasher'.rehashing => rehasher.rehashing /\ rehasher'.old = rehasher.old,
           rehasher' = rehasher \/ Passed(rehasher', tables')
    PROVE  CarryInv'
<1>1. /\ \A h \in Goroutine : GoodStep(proc[h], tables, rehasher, current, acked)
      /\ Passed(rehasher, tables) /\ Away(rehasher, current)
  BY Zenon DEF CarryInv
<1>2. tables \in Seq(Shards) /\ GoodRehasher(rehasher, tables)
  BY Zenon DEF Types, Sound
<1>3. \A h \in Goroutine : GoodStep(proc'[h], tables', rehasher', current, acked)
  <2> SUFFICES ASSUME NEW h \in Goroutine, h # g
               PROVE  GoodStep(proc'[h], tables', rehasher', current, acked)
    BY Zenon
  <2> DEFINE p == proc[h]
  <2>1. proc'[h] = p /\ GoodStep(p, tables, rehasher, current, acked)
    BY <1>1, Zenon DEF OnlyMoves
  <2> HIDE DEF p
  <2>2. GoodStep(p, tables', rehasher', current, acked)
    BY <1>2, <2>1, StepKept, Zenon
  <2> QED
    BY <2>1, <2>2, Zenon
<1>4. Passed(rehasher', tables')
  <2>1. Passed(rehasher, tables')
    BY <1>1, <1>2, PassedKept, Zenon
  <2> QED
    BY <2>1, Zenon
<1>5. Away(rehasher', current)
  BY <1>1, Zenon DEF Away
<1>6. /\ \A h \in Goroutine : GoodStep(proc'[h], tables', rehasher', current', acked')
      /\ Faithful(tables', acked') /\ Away(rehasher', current')
  BY <1>3, <1>5, Zenon
<1> QED
  BY <1>4, <1>6, Zenon DEF CarryInv

\* The same when no table changes.
LEMMA SameDrained ==
    ASSUME Types, tables' = tables
    PROVE  SameSize(tables', tables) /\ Drained(tables', tables, current)
  BY Zenon DEF Types, SameSize, Drained


\* No goroutine may call Set or Del.
OnlyReaders == \A g \in Goroutine : Calls[g] \cap {"set", "del"} = {}

\* What the invariant says of one goroutine.
LEMMA CarryOf ==
    ASSUME CarryInv, ~closed, ~Swapping, NEW g \in Goroutine
    PROVE  /\ GoodStep(proc[g], tables, rehasher, current, acked)
           /\ Faithful(tables, acked) /\ Passed(rehasher, tables) /\ Away(rehasher, current)
  BY Zenon DEF CarryInv

\* The steps of a Get outside its Step.
LEMMA CarryWalks ==
    ASSUME OnlyReaders, Types, Sound, Sound', CarryInv, ~closed, ~Swapping, NEW g \in Goroutine,
           Walked(g)
    PROVE  CarryInv'
<1> DEFINE p == proc[g]
           q == proc'[g]
<1>1. /\ GoodStep(p, tables, rehasher, current, acked) /\ Faithful(tables, acked)
      /\ Away(rehasher, current)
  BY CarryOf, Zenon
<1>2. p.call \notin {"set", "del"}
  BY <1>1, Zenon DEF GoodStep
<1>3. /\ OnlyMoves(g) /\ p.pc \in OnTheWay \cup {"idle", "begin"} /\ tables' = tables
      /\ current' = current /\ rehasher' = rehasher
      /\ Finishes(p, q) \/ Passes(g, p, q) \/ Loads(p, q) \/ Begins(p, q)
  BY <1>2, Zenon DEF Walked
<1>4. acked' = acked
  BY <1>2, <1>3, Zenon DEF Finishes, Passes, Loads, Begins
<1>5. p.pc # "move"
  BY <1>3, Zenon DEF OnTheWay
<1>6. p.items = NoEntries
  BY <1>1, <1>5, Zenon DEF GoodStep
<1>7. GoodStep(q, tables, rehasher, current, acked)
  <2>1. CASE Finishes(p, q)
    <3>1. Idle.pc \notin Taking /\ Idle.items = NoEntries /\ Idle.call \notin {"set", "del"}
      BY Zenon DEF Idle, Taking
    <3> QED
      BY <2>1, <3>1, StepIdle, Zenon DEF Finishes
  <2>2. CASE Passes(g, p, q) \/ Loads(p, q)
    <3>1. q.pc \notin Taking
      BY <2>2, Zenon DEF Passes, Loads, OnTheWay, Taking
    <3>2. q.items = NoEntries /\ q.call \notin {"set", "del"}
      BY <1>2, <1>6, <2>2, Zenon DEF Passes, Loads, OnlyReaders
    <3> HIDE DEF q
    <3> QED
      BY <3>1, <3>2, StepIdle, Zenon
  <2>3. CASE Begins(p, q)
    <3>1. /\ rehasher.rehashing /\ q.pc = "extract" /\ q.items = NoEntries /\ q.call = p.call
          /\ q.old = rehasher.old /\ q.name = rehasher.name
          /\ q.name = "batch" => q.idx = 0
      BY <1>6, <2>3, Zenon DEF Begins
    <3>2. GoodProc(q, tables)
      BY <1>3, Zenon DEF Sound
    <3>3. Within(tables, q.old, q.idx) /\ q.old # current
      BY <1>1, <3>1, <3>2, Zenon DEF GoodProc, Away
    <3>4. \A k \in Key : q.items[k] \in {None, acked[k]}
      BY <3>1, Zenon DEF NoEntries
    <3>5. q.name = "batch" => \A j \in DOMAIN tables[q.old] : ~(j < q.idx)
      <4>1. tables[q.old] \in Shards
        BY <3>3 DEF Types, Within
      <4>2. PICK n \in Nat \ {0} : DOMAIN tables[q.old] = 0 .. n - 1
        BY <4>1, ShardsOf, Zenon
      <4> QED
        BY <3>1, <4>2
    <3> HIDE DEF q
    <3> QED
      BY <1>2, <3>1, <3>3, <3>4, <3>5, Zenon DEF GoodStep, Taking
  <2> QED
    BY <1>3, <2>1, <2>2, <2>3, Zenon
<1>8. SameSize(tables', tables) /\ Drained(tables', tables, current)
  BY <1>3, SameDrained, Zenon
<1>9. GoodStep(proc'[g], tables', rehasher', current, acked) /\ Faithful(tables', acked)
  BY <1>1, <1>3, <1>7, Zenon
<1> QED
  BY <1>3, <1>4, <1>8, <1>9, CarryKept, Zenon

\* What a Step takes from its shard.
LEMMA CarryExtracts ==
    ASSUME Types, Sound, CarryInv, ~closed, ~Swapping, NEW g \in Goroutine, proc[g].pc = "extract",
           NEW out \in SUBSET Key, Extracted(g, out)
    PROVE  CarryInv'
<1> DEFINE p == proc[g]
           q == proc'[g]
           c == tables[p.old][p.idx]
           t == p.old
           i == p.idx
<1>1. /\ GoodStep(p, tables, rehasher, current, acked) /\ Faithful(tables, acked)
  BY CarryOf, Zenon
<1>2. t \in 1 .. Len(tables) /\ i \in DOMAIN tables[t] /\ t # current
      /\ (rehasher.rehashing => t = rehasher.old)
  BY <1>1, Zenon DEF GoodStep, Taking, Within
<1>3. PICK n \in Nat \ {0} : DOMAIN tables[t] = 0 .. n - 1 /\ Count(t) = n
  BY ShardOfStep, Zenon
<1>4. /\ OnlyMoves(g) /\ SameSize(tables', tables)
      /\ OtherShard(tables', tables, t, i, Left(c, out))
      /\ out = {} => \A k \in Key : c[k] = None
      /\ q.items = Taken(c, out) /\ q.moved = (out # {})
      /\ \/ q.pc = "move" /\ q.idx = i /\ out # {}
         \/ q.pc = "extract" /\ q.idx = i + 1 /\ out = {} /\ i + 1 < n
         \/ q.pc = "end" /\ q.idx = i /\ out = {} /\ ~(p.name = "batch" /\ i + 1 < n)
      /\ q.call = p.call /\ q.old = t /\ q.name = p.name
      /\ UNCHANGED <<current, rehasher, acked>>
  BY <1>3, Zenon DEF Extracted
<1>5. \A k \in Key : c[k] \in {None, acked[k]}
  BY <1>1, <1>2, Zenon DEF Faithful
<1>6. \A k \in Key : /\ Left(c, out)[k] \in {None, c[k]}
                     /\ Taken(c, out)[k] \in {None, c[k]}
  BY Zenon DEF Left, Taken
<1>7. out = {} => Taken(c, out) = NoEntries
  BY ZenonT(40) DEF Taken, NoEntries
<1>8. \A x \in 1 .. Len(tables) : \A j \in DOMAIN tables[x] : \A k \in Key :
          tables'[x][j][k] \in {None, tables[x][j][k]}
  <2> SUFFICES ASSUME NEW x \in 1 .. Len(tables), NEW j \in DOMAIN tables[x], NEW k \in Key
               PROVE  tables'[x][j][k] \in {None, tables[x][j][k]}
    BY Zenon
  <2>1. CASE x # t
    BY <1>4, <2>1, Zenon DEF OtherShard
  <2>2. CASE x = t /\ j # i
    BY <1>4, <2>2, Zenon DEF OtherShard
  <2>3. CASE x = t /\ j = i
    <3>1. tables'[t][i] = Left(c, out)
      BY <1>2, <1>4, Zenon DEF OtherShard
    <3> QED
      BY <1>6, <2>3, <3>1, Zenon
  <2> QED
    BY <2>1, <2>2, <2>3, Zenon
<1>9. Drained(tables', tables, current)
  BY <1>8, Zenon DEF Drained, Bare
<1>10. Faithful(tables', acked)
  <2>1. /\ Len(tables') = Len(tables)
        /\ \A x \in 1 .. Len(tables) : DOMAIN tables'[x] = DOMAIN tables[x]
    BY <1>4, Zenon DEF SameSize
  <2>2. \A x \in 1 .. Len(tables) : \A j \in DOMAIN tables[x] : \A k \in Key :
            tables[x][j][k] \in {None, acked[k]}
    BY <1>1, Zenon DEF Faithful
  <2>3. \A x \in 1 .. Len(tables) : \A j \in DOMAIN tables[x] : \A k \in Key :
            tables'[x][j][k] \in {None, acked[k]}
    BY <1>8, <2>2
  <2> QED
    BY <2>1, <2>3, Zenon DEF Faithful
<1>11. DOMAIN tables'[t] = 0 .. n - 1 /\ Len(tables') = Len(tables)
  BY <1>2, <1>3, <1>4, Zenon DEF SameSize
<1>12. out = {} => Bare(tables', t, i)
  <2>1. out = {} => Bare(tables, t, i)
    BY <1>4, Zenon DEF Bare
  <2> QED
    BY <1>2, <1>9, <2>1, Zenon DEF Drained
<1>13. p.name = "batch" => \A j \in 0 .. n - 1 : j < i => Bare(tables', t, j)
  <2>1. p.name = "batch" => \A j \in 0 .. n - 1 : j < i => Bare(tables, t, j)
    BY <1>1, <1>3, Zenon DEF GoodStep
  <2> QED
    BY <1>2, <1>3, <1>9, <2>1, ZenonT(40) DEF Drained
<1>14. i \in 0 .. n - 1
  BY <1>2, <1>3, ZenonT(40)
<1>15. q.pc \in Taking /\ Within(tables', q.old, q.idx)
  <2>1. /\ q.old = t
        /\ \/ q.pc \in {"move", "end"} /\ q.idx = i
           \/ q.pc = "extract" /\ q.idx = i + 1 /\ i + 1 < n
    BY <1>4, Zenon
  <2> HIDE DEF q, i, t
  <2>2. q.pc \in Taking
    BY <2>1, Zenon DEF Taking
  <2>3. q.idx \in 0 .. n - 1
    BY <1>14, <2>1
  <2> QED
    BY <1>2, <1>11, <2>1, <2>2, <2>3, Zenon DEF Within
<1>16. \A k \in Key : q.items[k] \in {None, acked[k]}
  BY <1>4, <1>5, <1>6, ZenonT(40)
<1>17. IF q.pc = "move" THEN q.moved ELSE q.items = NoEntries
  BY <1>4, <1>7, Zenon
<1>18. q.call \notin {"set", "del"}
  BY <1>1, <1>4, ZenonT(40) DEF GoodStep
<1>19. q.pc = "end" => Bare(tables', q.old, q.idx)
  BY <1>4, <1>12, Zenon
<1>20. q.pc \in {"extract", "move"} /\ q.name = "batch" =>
           \A j \in DOMAIN tables'[q.old] : j < q.idx => Bare(tables', q.old, j)
  <2>1. CASE q.pc = "move"
    BY <1>4, <1>11, <1>13, <2>1, ZenonT(40)
  <2>2. CASE q.pc = "extract" /\ q.name = "batch"
    <3>1. q.idx = i + 1 /\ out = {} /\ q.old = t /\ p.name = "batch"
      BY <1>4, <2>2, Zenon
    <3>2. \A j \in 0 .. n - 1 : j < i + 1 => j < i \/ j = i
      BY <1>14
    <3> QED
      BY <1>11, <1>12, <1>13, <3>1, <3>2, ZenonT(40)
  <2> QED
    BY <2>1, <2>2, ZenonT(40)
<1>21. q.pc = "end" /\ q.name = "batch" => \A j \in DOMAIN tables'[q.old] : Bare(tables', q.old, j)
  <2> SUFFICES ASSUME q.pc = "end", q.name = "batch"
               PROVE  \A j \in DOMAIN tables'[q.old] : Bare(tables', q.old, j)
    BY ZenonT(40)
  <2>1. out = {} /\ ~(i + 1 < n) /\ q.old = t /\ p.name = "batch"
    BY <1>4, Zenon
  <2>2. \A j \in 0 .. n - 1 : j < i \/ j = i
    BY <1>14, <2>1
  <2> QED
    BY <1>11, <1>12, <1>13, <2>1, <2>2, Zenon
<1>22. q.old # current /\ (rehasher.rehashing => q.old = rehasher.old)
  BY <1>2, <1>4, Zenon
<1>23. GoodStep(q, tables', rehasher, current, acked)
  BY <1>15, <1>16, <1>17, <1>18, <1>19, <1>20, <1>21, <1>22, ZenonT(40) DEF GoodStep
<1>24. GoodStep(proc'[g], tables', rehasher', current, acked)
  BY <1>4, <1>23, ZenonT(40)
<1>25. OnlyMoves(g) /\ SameSize(tables', tables) /\ acked' = acked /\ current' = current
       /\ rehasher' = rehasher
  BY <1>4, Zenon
<1> QED
  BY <1>9, <1>10, <1>24, <1>25, CarryKept, ZenonT(40)


\* An item arrives in the table in force.
LEMMA CarryMoves ==
    ASSUME Types, Sound, StepsInv, CarryInv, ~closed, ~Swapping, NEW g \in Goroutine,
           proc[g].pc = "move", NEW key \in Key, Carried(g, key)
    PROVE  CarryInv'
<1> DEFINE p == proc[g]
           q == proc'[g]
           i == Index(key, Count(current))
           v == p.items[key]
           t == p.old
<1>1. /\ GoodStep(p, tables, rehasher, current, acked) /\ Faithful(tables, acked)
  BY CarryOf, Zenon
<1>2. p.table = current
  BY Zenon DEF StepsInv, Stepping
<1>3. /\ OnlyMoves(g) /\ StoredEntry(tables', tables, current, i, key, v)
      /\ q.items = [p.items EXCEPT ![key] = None]
      /\ \/ q.pc = "move"
         \/ q.pc = "extract" /\ q.items = NoEntries
         \/ q.pc = "end" /\ q.items = NoEntries /\ p.name # "batch"
      /\ q.call = p.call /\ q.old = p.old /\ q.idx = p.idx /\ q.name = p.name
      /\ q.moved = p.moved /\ UNCHANGED <<current, rehasher, acked>>
  BY <1>2, Zenon DEF Carried
<1>4. v \in {None, acked[key]} /\ p.items \in Content /\ tables \in Seq(Shards)
  <2>1. p \in Proc /\ tables \in Seq(Shards)
    BY Zenon DEF Types
  <2>2. p.items \in Content
    BY <2>1, ZenonT(40) DEF Proc
  <2> QED
    BY <1>1, <2>1, <2>2, Zenon DEF GoodStep
<1>5. v \in Value \cup {None} /\ \A k \in Key : q.items[k] = IF k = key THEN None ELSE p.items[k]
  BY <1>3, <1>4, Zenon DEF Content
<1>6. SameSize(tables', tables) /\ OtherEntry(tables', tables, current, i, key, v)
  <2> HIDE DEF i, v
  <2> QED
    BY <1>3, <1>4, <1>5, EntryStored, Zenon
<1>7. /\ Len(tables') = Len(tables)
      /\ \A x \in 1 .. Len(tables) : DOMAIN tables'[x] = DOMAIN tables[x]
  BY <1>6, Zenon DEF SameSize
<1>8. \A x \in 1 .. Len(tables) : \A j \in DOMAIN tables[x] : \A k \in Key :
          tables'[x][j][k] = IF x = current /\ j = i /\ k = key THEN v ELSE tables[x][j][k]
  BY <1>6, Zenon DEF OtherEntry
<1> HIDE DEF i, v
<1>9. Drained(tables', tables, current)
  BY <1>8, Zenon DEF Drained, Bare
<1>10. Faithful(tables', acked)
  <2>1. \A x \in 1 .. Len(tables) : \A j \in DOMAIN tables[x] : \A k \in Key :
            tables[x][j][k] \in {None, acked[k]}
    BY <1>1, Zenon DEF Faithful
  <2>2. \A x \in 1 .. Len(tables) : \A j \in DOMAIN tables[x] : \A k \in Key :
            tables'[x][j][k] \in {None, acked[k]}
    BY <1>4, <1>8, <2>1
  <2> QED
    BY <1>7, <2>2, Zenon DEF Faithful
<1>11. GoodStep(p, tables', rehasher, current, acked)
  <2> HIDE DEF p
  <2> QED
    BY <1>1, <1>4, <1>6, <1>9, StepKept, Zenon
<1>12. GoodStep(q, tables', rehasher, current, acked)
  <2>1. \A k \in Key : q.items[k] \in {None, acked[k]}
    BY <1>5, <1>11, Zenon DEF GoodStep
  <2>2. q.moved /\ q.call \notin {"set", "del"}
    BY <1>3, <1>11, Zenon DEF GoodStep
  <2>3. IF q.pc = "move" THEN q.moved ELSE q.items = NoEntries
    BY <1>3, <2>2, ZenonT(40)
  <2>4. /\ Within(tables', q.old, q.idx) /\ q.old # current
        /\ rehasher.rehashing => q.old = rehasher.old
    BY <1>3, <1>11, ZenonT(40) DEF GoodStep, Taking
  <2>5. q.name = "batch" => \A j \in DOMAIN tables'[q.old] : j < q.idx => Bare(tables', q.old, j)
    BY <1>3, <1>11, ZenonT(40) DEF GoodStep
  <2>6. ~(q.pc = "end" /\ q.name = "batch")
    BY <1>3, Zenon
  <2> QED
    BY <2>1, <2>2, <2>3, <2>4, <2>5, <2>6, Zenon DEF GoodStep
<1>13. GoodStep(proc'[g], tables', rehasher', current, acked)
  BY <1>3, <1>12, Zenon
<1>14. OnlyMoves(g) /\ acked' = acked /\ current' = current /\ rehasher' = rehasher
  BY <1>3, Zenon
<1> QED
  BY <1>6, <1>9, <1>10, <1>13, <1>14, CarryKept, Zenon

\* A step that leaves the tables, and a goroutine out of its Step.
LEMMA CarryStill ==
    ASSUME Types, Sound, CarryInv, ~closed, ~Swapping, NEW g \in Goroutine, OnlyMoves(g),
           UNCHANGED <<tables, acked, current>>,
           proc'[g].pc \notin Taking, proc'[g].items = NoEntries,
           proc'[g].call \notin {"set", "del"},
           rehasher'.rehashing => rehasher.rehashing /\ rehasher'.old = rehasher.old,
           rehasher' = rehasher \/ Passed(rehasher', tables)
    PROVE  CarryInv'
<1> DEFINE q == proc'[g]
<1>1. Faithful(tables, acked)
  BY CarryOf, Zenon
<1>2. SameSize(tables', tables) /\ Drained(tables', tables, current)
  BY SameDrained, Zenon
<1>3. tables' = tables /\ acked' = acked /\ current' = current
  BY Zenon
<1>4. GoodStep(q, tables, rehasher', current, acked)
  <2>1. q.pc \notin Taking /\ q.items = NoEntries /\ q.call \notin {"set", "del"}
    BY Zenon
  <2> HIDE DEF q
  <2> QED
    BY <2>1, StepIdle, Zenon
<1>5. /\ GoodStep(proc'[g], tables', rehasher', current, acked) /\ Faithful(tables', acked)
      /\ rehasher' = rehasher \/ Passed(rehasher', tables')
  BY <1>1, <1>3, <1>4, Zenon
<1> QED
  BY <1>2, <1>3, <1>5, CarryKept, Zenon

\* What Return leaves of a reader.
LEMMA ReaderReturns ==
    ASSUME Types, NEW g \in Goroutine, Return(g), proc[g].call \notin {"set", "del"}
    PROVE  /\ OnlyMoves(g) /\ acked' = acked /\ proc'[g].pc \notin Taking
           /\ proc'[g].items = NoEntries /\ proc'[g].call \notin {"set", "del"}
<1>1. OnlyMoves(g) /\ proc'[g] = Idle
  BY Returns, Zenon
<1>2. acked' = acked
  BY Zenon DEF Return
<1> QED
  BY <1>1, <1>2 DEF Idle, Taking

\* The end of a Step.
LEMMA CarryEnds ==
    ASSUME Types, Sound, CarryInv, ~closed, ~Swapping, NEW g \in Goroutine,
           StepEnd(g) \/ BatchEnd(g)
    PROVE  CarryInv'
<1> DEFINE p == proc[g]
<1>1. /\ GoodStep(p, tables, rehasher, current, acked) /\ Passed(rehasher, tables)
  BY CarryOf, Zenon
<1>2. p.pc = "end" /\ Return(g) /\ tables' = tables /\ current' = current
  BY Zenon DEF StepEnd, BatchEnd, At
<1>3. p.call \notin {"set", "del"}
  BY <1>1, Zenon DEF GoodStep
<1>4. /\ OnlyMoves(g) /\ acked' = acked /\ proc'[g].pc \notin Taking
      /\ proc'[g].items = NoEntries /\ proc'[g].call \notin {"set", "del"}
  BY <1>2, <1>3, ReaderReturns, Zenon
<1>5. ASSUME ~rehasher'.rehashing PROVE CarryInv'
  <2>1. Passed(rehasher', tables)
    BY <1>5, Zenon DEF Passed
  <2> QED
    BY <1>2, <1>4, <1>5, <2>1, CarryStill, Zenon
<1>6. ASSUME rehasher' = rehasher PROVE CarryInv'
  <2>1. rehasher'.rehashing => rehasher.rehashing /\ rehasher'.old = rehasher.old
    BY <1>6, Zenon
  <2> QED
    BY <1>2, <1>4, <1>6, <2>1, CarryStill, Zenon
<1>7. CASE BatchEnd(g)
  <2>1. rehasher' \in {Over, rehasher}
    BY <1>7, Zenon DEF BatchEnd
  <2>2. Over.rehashing = FALSE
    BY RehasherOver, Zenon
  <2> QED
    BY <1>5, <1>6, <2>1, <2>2, Zenon
<1>8. CASE StepEnd(g)
  <2>1. CASE Kept
    BY <1>6, <2>1, Zenon DEF Kept
  <2>2. CASE Ended(p)
    BY <1>5, <2>2, Zenon DEF Ended
  <2>3. CASE Advanced(p)
    <3>1. /\ rehasher.rehashing /\ ~p.moved /\ rehasher.idx = p.idx /\ rehasher'.rehashing
          /\ rehasher'.old = rehasher.old /\ rehasher'.idx = rehasher.idx + 1
      BY <2>3, Zenon DEF Advanced
    <3>2. p.name # "batch"
      BY <1>8, ZenonT(40) DEF StepEnd
    <3>3. Bare(tables, rehasher.old, rehasher.idx)
      BY <1>1, <1>2, <3>1, <3>2, Zenon DEF GoodStep, Taking
    <3>4. \A j \in DOMAIN tables[rehasher.old] : j < rehasher.idx => Bare(tables, rehasher.old, j)
      BY <1>1, <3>1, Zenon DEF Passed
    <3>5. PICK n \in Nat : DOMAIN tables[rehasher.old] = 0 .. n - 1
      <4>1. Within(tables, rehasher.old, rehasher.idx) /\ tables \in Seq(Shards)
        BY <3>1, Zenon DEF Sound, GoodRehasher, Types
      <4>2. tables[rehasher.old] \in Shards
        BY <4>1 DEF Within
      <4> QED
        BY <4>2, ShardsOf, Zenon
    <3>6. rehasher.idx \in Nat
      BY Zenon DEF Types, Rehasher
    <3>7. \A j \in DOMAIN tables[rehasher.old] :
              j < rehasher.idx + 1 => Bare(tables, rehasher.old, j)
      <4>1. \A j \in 0 .. n - 1 : j < rehasher.idx + 1 => j < rehasher.idx \/ j = rehasher.idx
        BY <3>6
      <4> QED
        BY <3>3, <3>4, <3>5, <4>1, Zenon
    <3>8. Passed(rehasher', tables)
      BY <3>1, <3>7, Zenon DEF Passed
    <3> QED
      BY <1>2, <1>4, <3>1, <3>8, CarryStill, Zenon
  <2> QED
    BY <1>8, <2>1, <2>2, <2>3, StepEnds, Zenon
<1> QED
  BY <1>7, <1>8, Zenon


\* The new table of a Resize.
LEMMA CarryStores ==
    ASSUME Types, Sound, StepsInv, CarryInv, ~closed, NEW g \in Goroutine, ResizeStore(g)
    PROVE  CarryInv'
<1> DEFINE n == proc[g].idx
<1>1. /\ proc[g].pc = "swap" /\ Return(g) /\ tables' = Append(tables, NewTable(n))
      /\ current' = Len(tables) + 1 /\ rehasher' = rehasher
  BY Zenon DEF ResizeStore, At
<1>2. /\ \A h \in Goroutine : GoodStep(proc[h], tables, rehasher, current, acked)
      /\ Faithful(tables, acked) /\ Passed(rehasher, tables)
  BY Zenon DEF CarryInv
<1>3. proc[g].call \notin {"set", "del"}
  BY <1>2, Zenon DEF GoodStep
<1>4. /\ OnlyMoves(g) /\ acked' = acked /\ proc'[g].pc \notin Taking
      /\ proc'[g].items = NoEntries /\ proc'[g].call \notin {"set", "del"}
  BY <1>1, <1>3, ReaderReturns, Zenon
<1>5. tables \in Seq(Shards) /\ Len(tables) \in Nat /\ GoodRehasher(rehasher, tables)
  BY DEF Types, Sound
<1>6. n \in Nat \ {0}
  <2>1. GoodProc(proc[g], tables) /\ proc[g] \in Proc
    BY Zenon DEF Sound, Types
  <2> QED
    BY <1>1, <2>1, Zenon DEF GoodProc, Proc
<1> HIDE DEF n
<1>7. NewTable(n) \in Shards
  BY <1>6, NewShards, Zenon DEF Types
<1>8. /\ Len(tables') = Len(tables) + 1 /\ tables'[Len(tables) + 1] = NewTable(n)
      /\ \A x \in 1 .. Len(tables) : tables'[x] = tables[x]
  BY <1>1, <1>5, <1>7
<1>9. Faithful(tables', acked)
  <2> SUFFICES ASSUME NEW t \in 1 .. Len(tables'), NEW i \in DOMAIN tables'[t], NEW k \in Key
               PROVE  tables'[t][i][k] \in {None, acked[k]}
    BY Zenon DEF Faithful
  <2>1. t \in 1 .. Len(tables) \/ t = Len(tables) + 1
    BY <1>5, <1>8
  <2>2. CASE t \in 1 .. Len(tables)
    <3>1. tables'[t] = tables[t]
      BY <1>8, <2>2, Zenon
    <3>2. i \in DOMAIN tables[t]
      BY <3>1, Zenon
    <3>3. tables[t][i][k] \in {None, acked[k]}
      BY <1>2, <2>2, <3>2, Zenon DEF Faithful
    <3> QED
      BY <3>1, <3>3, Zenon
  <2>3. CASE t = Len(tables) + 1
    <3>1. tables'[t] = NewTable(n)
      BY <1>8, <2>3, Zenon
    <3>2. i \in 0 .. n - 1
      BY <3>1, Zenon DEF NewTable
    <3>3. NewTable(n)[i] = NoEntries /\ NoEntries[k] = None
      BY <3>2, Zenon DEF NewTable, NoEntries
    <3> QED
      BY <3>1, <3>3, Zenon
  <2> QED
    BY <2>1, <2>2, <2>3, Zenon
<1>10. Passed(rehasher', tables') /\ Away(rehasher', current')
  <2>1. rehasher.rehashing => rehasher.old \in 1 .. Len(tables)
    BY <1>5, Zenon DEF GoodRehasher, Within
  <2>2. rehasher.rehashing => tables'[rehasher.old] = tables[rehasher.old]
                              /\ rehasher.old # Len(tables) + 1
    BY <1>5, <1>8, <2>1
  <2>3. Passed(rehasher, tables')
    BY <1>2, <2>2, Zenon DEF Passed, Bare
  <2> QED
    BY <1>1, <2>2, <2>3, Zenon DEF Away
<1>11. \A h \in Goroutine : GoodStep(proc'[h], tables', rehasher', current', acked')
  <2> SUFFICES ASSUME NEW h \in Goroutine
               PROVE  GoodStep(proc'[h], tables', rehasher', current', acked')
    BY Zenon
  <2> DEFINE q == proc'[h]
  <2>1. q.pc \notin Taking /\ q.items = NoEntries /\ q.call \notin {"set", "del"}
    <3>1. CASE h = g
      BY <1>4, <3>1, Zenon
    <3>2. CASE h # g
      <4>1. q = proc[h] /\ proc[h].pc = "idle"
        BY <1>1, <1>4, <3>2, ZenonT(40) DEF OnlyMoves, StepsInv
      <4>2. proc[h].items = NoEntries /\ proc[h].call \notin {"set", "del"}
        BY <1>2, <4>1, Zenon DEF GoodStep
      <4> QED
        BY <4>1, <4>2, Zenon DEF Taking
    <3> QED
      BY <3>1, <3>2, Zenon
  <2> HIDE DEF q
  <2> QED
    BY <2>1, StepIdle, Zenon DEF q
<1>12. Faithful(tables', acked')
  BY <1>4, <1>9, Zenon
<1> QED
  BY <1>10, <1>11, <1>12, Zenon DEF CarryInv

\* Resize with no other call under way.
LEMMA CarryResizes ==
    ASSUME Types, Sound, CarryInv, ~closed, ~Swapping, NEW g \in Goroutine, NEW count \in ShardCounts,
           Resize(g, count), Disciplined
    PROVE  CarryInv'
<1>1. /\ OnlyMoves(g) /\ proc'[g].pc = "swap" /\ proc'[g].items = proc[g].items
      /\ proc'[g].call \notin {"set", "del"}
  BY AdminMoves, Zenon
<1>2. /\ tables' = tables /\ acked' = acked /\ current' = current /\ At(g, "idle")
  BY Zenon DEF Resize
<1>3. Quiet
  BY <1>1, <1>2, Zenon DEF Disciplined
<1>4. /\ \A h \in Goroutine : GoodStep(proc[h], tables, rehasher, current, acked)
      /\ Faithful(tables, acked) /\ Passed(rehasher, tables)
  BY ZenonT(40) DEF CarryInv
<1>5. \A h \in Goroutine : proc[h].pc = "idle" /\ proc[h].items = NoEntries
                           /\ proc[h].call \notin {"set", "del"}
  BY <1>3, <1>4, Zenon DEF GoodStep, Quiet, At
<1>6. \A h \in Goroutine : GoodStep(proc'[h], tables', rehasher', current', acked')
  <2> SUFFICES ASSUME NEW h \in Goroutine
               PROVE  GoodStep(proc'[h], tables', rehasher', current', acked')
    BY Zenon
  <2> DEFINE q == proc'[h]
  <2>1. q.pc \notin Taking /\ q.items = NoEntries /\ q.call \notin {"set", "del"}
    <3>1. CASE h = g
      BY <1>1, <1>5, <3>1, Zenon DEF Taking
    <3>2. CASE h # g
      <4>1. q = proc[h]
        BY <1>1, <3>2, Zenon DEF OnlyMoves
      <4> QED
        BY <1>5, <4>1, Zenon DEF Taking
    <3> QED
      BY <3>1, <3>2, Zenon
  <2> HIDE DEF q
  <2> QED
    BY <2>1, StepIdle, Zenon DEF q
<1>7. Passed(rehasher', tables)
  <2> DEFINE r == [rehasher EXCEPT !.rehashing = TRUE, !.old = current, !.idx = 0]
  <2>1. rehasher' \in {r, rehasher}
    BY Zenon DEF Resize
  <2>2. current \in 1 .. Len(tables) /\ current \in Nat /\ tables \in Seq(Shards)
    BY DEF Types, Sound
  <2>3. r.old = current /\ r.idx = 0
    BY <2>2, RehasherStarted, Zenon
  <2> HIDE DEF r
  <2>4. PICK n \in Nat \ {0} : DOMAIN tables[current] = 0 .. n - 1
    <3>1. tables[current] \in Shards
      BY <2>2
    <3> QED
      BY <3>1, ShardsOf, Zenon
  <2>5. \A j \in DOMAIN tables[current] : ~(j < 0)
    BY <2>4
  <2>6. Passed(r, tables)
    BY <2>3, <2>5, Zenon DEF Passed
  <2> QED
    BY <1>4, <2>1, <2>6, Zenon
<1>8. Swapping'
  BY <1>1, Zenon DEF Swapping, At
<1>9. Passed(rehasher', tables') /\ Faithful(tables', acked')
  BY <1>2, <1>4, <1>7, Zenon
<1> QED
  BY <1>6, <1>8, <1>9, Zenon DEF CarryInv

\* The copies are the same initially.
LEMMA CarryInit == Init => CarryInv
<1> SUFFICES ASSUME Init PROVE CarryInv
  BY Zenon
<1>1. PICK m \in Content :
          /\ tables = <<[i \in 0 .. FirstCount - 1 |->
                            [k \in Key |-> IF Index(k, FirstCount) = i THEN m[k] ELSE None]]>>
          /\ acked = m
  BY Zenon DEF Init
<1> DEFINE s == [i \in 0 .. FirstCount - 1 |->
                    [k \in Key |-> IF Index(k, FirstCount) = i THEN m[k] ELSE None]]
<1>2. DOMAIN s = 0 .. FirstCount - 1 /\ \A i \in DOMAIN s : \A k \in Key : s[i][k] \in {None, m[k]}
  BY Zenon
<1> HIDE DEF s
<1>3. tables = <<s>> /\ Len(tables) = 1 /\ tables[1] = s
  <2>1. tables = <<s>>
    BY <1>1, Zenon DEF s
  <2> QED
    BY <2>1, Zenon
<1>4. Faithful(tables, acked)
  <2> SUFFICES ASSUME NEW t \in 1 .. Len(tables), NEW i \in DOMAIN tables[t], NEW k \in Key
               PROVE  tables[t][i][k] \in {None, acked[k]}
    BY Zenon DEF Faithful
  <2>1. tables[t] = s
    BY <1>3
  <2> QED
    BY <1>1, <1>2, <2>1, Zenon
<1>5. proc = [g \in Goroutine |-> Idle] /\ \E name \in FirstNames : rehasher = newRehasher(name, 0)
  BY Zenon DEF Init
<1>6. Idle.pc \notin Taking /\ Idle.items = NoEntries /\ Idle.call \notin {"set", "del"}
  BY Zenon DEF Idle, Taking
<1>7. \A g \in Goroutine : GoodStep(proc[g], tables, rehasher, current, acked)
  <2>1. GoodStep(Idle, tables, rehasher, current, acked)
    BY <1>6, StepIdle, Zenon
  <2> QED
    BY <1>5, <2>1, Zenon
<1>8. ~rehasher.rehashing
  BY <1>5 DEF newRehasher
<1> QED
  BY <1>4, <1>7, <1>8, Zenon DEF CarryInv, Passed, Away

\* Every step keeps them the same, and empty what was left.
LEMMA CarryStep ==
    ASSUME OnlyReaders, Types, Sound, StepsInv, CarryInv, [Next /\ Disciplined]_vars
    PROVE  CarryInv'
<1>1. CASE UNCHANGED vars
  <2>1. /\ tables' = tables /\ acked' = acked /\ proc' = proc /\ rehasher' = rehasher
        /\ current' = current /\ closed' = closed
    BY <1>1, Zenon DEF vars
  <2> QED
    BY <2>1, Zenon DEF CarryInv, Swapping, At
<1>2. Types' /\ Sound'
  BY TypesStep, Zenon
<1>3. closed \in BOOLEAN
  BY Zenon DEF Types
<1>4. CASE Next /\ Disciplined
  <2>1. PICK g \in Goroutine : Operation(g) \/ Step(g) \/ Admin(g)
    BY <1>4, Zenon DEF Next
  <2>2. closed => closed'
    <3>1. CASE Operation(g) \/ CheckStep(g) \/ LoadTable(g) \/ StepBegin(g)
      BY <3>1, Walks, Zenon DEF Walked
    <3>2. CASE Extract(g) \/ Move(g)
      BY <3>2, Works, Zenon DEF Worked
    <3>3. CASE StepEnd(g) \/ BatchEnd(g)
      BY <3>3, Zenon DEF StepEnd, BatchEnd
    <3>4. CASE Admin(g)
      BY <3>4, Zenon DEF Admin, Resize, ResizeStore, SetRehasher, Install, Close, CloseStop
    <3> QED
      BY <2>1, <3>1, <3>2, <3>3, <3>4, Zenon DEF Step
  <2>3. CASE closed'
    BY <2>3, Zenon DEF CarryInv
  <2>4. CASE ~closed' /\ ResizeStore(g)
    BY <2>2, <2>4, CarryStores, Zenon
  <2>5. CASE ~closed' /\ ~ResizeStore(g)
    <3>1. ~closed
      BY <2>2, <2>5, Zenon
    <3>2. ~Swapping
      <4>1. SUFFICES ASSUME Swapping PROVE ResizeStore(g)
        BY <2>5, Zenon
      <4>2. current' # current /\ ~MuFree
        BY <1>4, <4>1, Zenon DEF Disciplined, Swapping, MuFree, At
      <4>3. CASE Operation(g) \/ CheckStep(g) \/ LoadTable(g) \/ StepBegin(g)
        BY <4>2, <4>3, Walks, Zenon DEF Walked
      <4>4. CASE Extract(g) \/ Move(g)
        BY <4>2, <4>4, Works, Zenon DEF Worked
      <4>5. CASE StepEnd(g) \/ BatchEnd(g)
        BY <4>2, <4>5, Zenon DEF StepEnd, BatchEnd
      <4>6. CASE Admin(g)
        BY <4>2, <4>6, Zenon DEF Admin, Resize, SetRehasher, Install, Close, CloseStop
      <4> QED
        BY <2>1, <4>3, <4>4, <4>5, <4>6, Zenon DEF Step
    <3>3. CASE Operation(g) \/ CheckStep(g) \/ LoadTable(g) \/ StepBegin(g)
      BY <1>2, <3>1, <3>2, <3>3, Walks, CarryWalks, Zenon
    <3>4. CASE Extract(g)
      <4>1. proc[g].pc = "extract" /\ \E out \in SUBSET Key : Extracted(g, out)
        BY <3>4, Extracts, Zenon DEF Extract, At
      <4> QED
        BY <3>1, <3>2, <4>1, CarryExtracts, Zenon
    <3>5. CASE Move(g)
      <4>1. proc[g].pc = "move" /\ \E key \in Key : Carried(g, key) \/ OutOfRange(g, key)
        BY <3>5, Moves, Zenon DEF Move, At
      <4>2. ASSUME NEW key \in Key, OutOfRange(g, key) PROVE CarryInv'
        <5>1. UNCHANGED <<tables, current, rehasher, closed, proc, acked>>
          BY <4>2, Zenon DEF OutOfRange
        <5> QED
          BY <5>1, Zenon DEF CarryInv, Swapping, At
      <4> QED
        BY <3>1, <3>2, <4>1, <4>2, CarryMoves, Zenon
    <3>6. CASE StepEnd(g) \/ BatchEnd(g)
      BY <3>1, <3>2, <3>6, CarryEnds, Zenon
    <3>7. GoodStep(proc[g], tables, rehasher, current, acked)
      BY <3>1, <3>2, CarryOf, ZenonT(40)
    <3>8. proc[g].call \notin {"set", "del"} /\ (proc[g].pc = "idle" => proc[g].items = NoEntries)
      BY <3>7, Zenon DEF GoodStep
    <3>9. ASSUME ~rehasher'.rehashing PROVE Passed(rehasher', tables)
      BY <3>9, Zenon DEF Passed
    <3>10. ASSUME NEW name \in SwapNames, SetRehasher(g, name) PROVE CarryInv'
      <4>1. /\ OnlyMoves(g) /\ proc'[g].pc = "install" /\ proc'[g].items = proc[g].items
            /\ proc'[g].call \notin {"set", "del"}
        BY <3>10, AdminMoves, Zenon
      <4>2. rehasher' = Stop /\ UNCHANGED <<tables, acked, current>> /\ proc[g].pc = "idle"
        BY <3>10, Zenon DEF SetRehasher, At
      <4>3. ~rehasher'.rehashing
        BY <4>2, RehasherOver, Zenon
      <4>4. proc'[g].pc \notin Taking /\ proc'[g].items = NoEntries
        BY <3>8, <4>1, <4>2, Zenon DEF Taking
      <4> QED
        BY <3>1, <3>2, <3>9, <4>1, <4>2, <4>3, <4>4, CarryStill, Zenon
    <3>11. CASE Install(g) \/ CloseStop(g)
      <4>1. Return(g) /\ UNCHANGED <<tables, current>>
        BY <3>11, Zenon DEF Install, CloseStop
      <4>2. ~rehasher'.rehashing
        <5>1. CASE CloseStop(g)
          BY <5>1, RehasherOver, Zenon DEF CloseStop
        <5>2. CASE Install(g)
          BY <5>2, Zenon DEF Install, newRehasher
        <5> QED
          BY <3>11, <5>1, <5>2, Zenon
      <4>3. /\ OnlyMoves(g) /\ acked' = acked /\ proc'[g].pc \notin Taking
            /\ proc'[g].items = NoEntries /\ proc'[g].call \notin {"set", "del"}
        BY <3>8, <4>1, ReaderReturns, Zenon
      <4> QED
        BY <3>1, <3>2, <3>9, <4>1, <4>2, <4>3, CarryStill, ZenonT(40)
    <3>12. ASSUME NEW count \in ShardCounts, Resize(g, count) PROVE CarryInv'
      BY <1>4, <3>1, <3>2, <3>12, CarryResizes, ZenonT(40)
    <3>13. ~Close(g)
      BY <2>5, Zenon DEF Close
    <3> QED
      BY <2>1, <2>5, <3>3, <3>4, <3>5, <3>6, <3>10, <3>11, <3>12, <3>13, ZenonT(40) DEF Step, Admin
  <2> QED
    BY <2>3, <2>4, <2>5, Zenon
<1> QED
  BY <1>1, <1>4, Zenon


\* What Lookup finds in the tables ts.
LookupIn(ts, t, key) == ts[t][Index(key, Cardinality(DOMAIN ts[t]))][key]

\* The value of a key is in the table in force, in the old one, or carried.
LEMMA WhereValues ==
    ASSUME NEW key \in Key, NEW v
    PROVE  /\ v \in Values(key) <=>
                  /\ v # None
                  /\ v = New(key) \/ v = Old(key) \/ \E h \in Goroutine : v = proc[h].items[key]
           /\ v \in Values(key)' <=>
                  /\ v # None
                  /\ \/ v = New(key)' \/ v = Old(key)'
                     \/ \E h \in Goroutine : v = proc'[h].items[key]
  BY Zenon DEF Values, InFlight

\* Before Close it is looked up in tables that exist.
LEMMA WhereLooked ==
    ASSUME Types, Sound, ~closed, NEW key \in Key
    PROVE  /\ New(key) = LookupIn(tables, current, key)
           /\ rehasher.rehashing => Old(key) = LookupIn(tables, rehasher.old, key)
           /\ ~rehasher.rehashing => Old(key) = None
           /\ current \in 1 .. Len(tables)
           /\ rehasher.rehashing => rehasher.old \in 1 .. Len(tables)
<1>1. current \in 1 .. Len(tables) /\ current # 0
  BY DEF Types, Sound
<1>2. rehasher.rehashing => rehasher.old \in 1 .. Len(tables) /\ rehasher.old # 0
  BY DEF Sound, GoodRehasher, Within
<1> QED
  BY <1>1, <1>2, Zenon DEF New, Old, Lookup, Count, LookupIn

\* The index of a key in a table.
LEMMA LookupIndex ==
    ASSUME Types, NEW key \in Key, NEW t \in 1 .. Len(tables), NEW us, SameSize(us, tables)
    PROVE  \E j \in DOMAIN tables[t] : /\ LookupIn(tables, t, key) = tables[t][j][key]
                                       /\ LookupIn(us, t, key) = us[t][j][key]
                                       /\ j = Index(key, Count(t))
<1> DEFINE j == Index(key, Count(t))
<1>1. j \in DOMAIN tables[t]
  BY IndexInTable, Zenon
<1>2. t # 0 /\ DOMAIN us[t] = DOMAIN tables[t]
  BY DEF SameSize
<1>3. Index(key, Cardinality(DOMAIN tables[t])) = j /\ Index(key, Cardinality(DOMAIN us[t])) = j
  BY <1>2, Zenon DEF Count
<1> HIDE DEF j
<1> QED
  BY <1>1, <1>3, Zenon DEF LookupIn, j

\* The values that are nowhere near a Step stay.
LEMMA ExtractKeeps ==
    ASSUME Types, Sound, Types', Sound', CarryInv, ~closed, ~closed', ~Swapping, NEW g \in Goroutine,
           proc[g].pc = "extract", NEW out \in SUBSET Key, Extracted(g, out), NEW key \in Key,
           NEW v \in Values(key)
    PROVE  v \in Values(key)'
<1> DEFINE p == proc[g]
           q == proc'[g]
           c == tables[p.old][p.idx]
           t == p.old
           i == p.idx
<1>1. GoodStep(p, tables, rehasher, current, acked)
  BY CarryOf, ZenonT(40)
<1>2. /\ t \in 1 .. Len(tables) /\ i \in DOMAIN tables[t] /\ t # current
      /\ (rehasher.rehashing => t = rehasher.old) /\ p.items = NoEntries
  BY <1>1, Zenon DEF GoodStep, Taking, Within
<1>3. /\ OnlyMoves(g) /\ SameSize(tables', tables)
      /\ OtherShard(tables', tables, t, i, Left(c, out))
      /\ q.items = Taken(c, out) /\ current' = current /\ rehasher' = rehasher
  BY Zenon DEF Extracted
<1>4. /\ v # None
      /\ v = New(key) \/ v = Old(key) \/ \E h \in Goroutine : v = proc[h].items[key]
  BY WhereValues, Zenon
<1>5. /\ New(key) = LookupIn(tables, current, key) /\ current \in 1 .. Len(tables)
      /\ rehasher.rehashing => Old(key) = LookupIn(tables, rehasher.old, key)
      /\ ~rehasher.rehashing => Old(key) = None
  BY WhereLooked, ZenonT(40)
<1>6. /\ New(key)' = LookupIn(tables', current, key)
      /\ rehasher.rehashing => Old(key)' = LookupIn(tables', rehasher.old, key)
  <2>1. current # 0 /\ (rehasher.rehashing => rehasher.old # 0)
    BY <1>2, <1>5
  <2> QED
    BY <1>3, <2>1, ZenonT(40) DEF New, Old, Lookup, Count, LookupIn
<1>7. CASE v = New(key)
  <2>1. tables'[current] = tables[current]
    BY <1>2, <1>3, <1>5, ZenonT(40) DEF OtherShard
  <2>2. New(key)' = New(key)
    BY <1>5, <1>6, <2>1, Zenon DEF LookupIn
  <2> QED
    BY <1>4, <1>7, <2>2, WhereValues, Zenon
<1>8. CASE v = Old(key)
  <2>1. rehasher.rehashing /\ rehasher.old = t
    BY <1>2, <1>4, <1>5, <1>8, Zenon
  <2>2. PICK j \in DOMAIN tables[t] : /\ LookupIn(tables, t, key) = tables[t][j][key]
                                      /\ LookupIn(tables', t, key) = tables'[t][j][key]
    <3>1. t \in 1 .. Len(tables) /\ SameSize(tables', tables)
      BY <1>2, <1>3, Zenon
    <3> HIDE DEF t
    <3>2. \E j \in DOMAIN tables[t] : /\ LookupIn(tables, t, key) = tables[t][j][key]
                                      /\ LookupIn(tables', t, key) = tables'[t][j][key]
                                      /\ j = Index(key, Count(t))
      BY <3>1, LookupIndex, ZenonT(40)
    <3> QED
      BY <3>2, Zenon
  <2>3. v = tables[t][j][key] /\ Old(key)' = tables'[t][j][key]
    BY <1>5, <1>6, <1>8, <2>1, <2>2, Zenon
  <2>4. CASE j # i
    <3>1. tables'[t][j] = tables[t][j]
      BY <1>3, <2>4, Zenon DEF OtherShard
    <3> QED
      BY <1>4, <2>3, <3>1, WhereValues, Zenon
  <2>5. CASE j = i
    <3>1. v = c[key] /\ tables'[t][i] = Left(c, out)
      BY <1>2, <1>3, <2>3, <2>5, Zenon DEF OtherShard
    <3>2. CASE key \in out
      <4>1. q.items[key] = v
        BY <1>3, <3>1, <3>2, Zenon DEF Taken
      <4> QED
        BY <1>4, <4>1, WhereValues, ZenonT(40)
    <3>3. CASE key \notin out
      <4>1. Left(c, out)[key] = v
        BY <3>1, <3>3, ZenonT(40) DEF Left
      <4>2. Old(key)' = v
        BY <2>3, <2>5, <3>1, <4>1, Zenon
      <4> QED
        BY <1>4, <4>2, WhereValues, ZenonT(40)
    <3> QED
      BY <3>2, <3>3, Zenon
  <2> QED
    BY <2>4, <2>5, ZenonT(40)
<1>9. ASSUME NEW h \in Goroutine, v = proc[h].items[key] PROVE v \in Values(key)'
  <2>1. h # g
    BY <1>2, <1>4, <1>9, Zenon DEF NoEntries
  <2>2. proc'[h] = proc[h]
    BY <1>3, <2>1, Zenon DEF OnlyMoves
  <2>3. v = proc'[h].items[key]
    BY <1>9, <2>2, Zenon
  <2> QED
    BY <1>4, <2>3, WhereValues, ZenonT(40)
<1> QED
  BY <1>4, <1>7, <1>8, <1>9, Zenon

\* An item that arrives replaces its own value.
LEMMA MoveKeeps ==
    ASSUME Types, Sound, Types', Sound', StepsInv, CarryInv, ~closed, ~closed', ~Swapping,
           NEW g \in Goroutine, proc[g].pc = "move", NEW k \in Key, Carried(g, k), NEW key \in Key,
           NEW v \in Values(key)
    PROVE  v \in Values(key)'
<1> DEFINE p == proc[g]
           q == proc'[g]
           i == Index(k, Count(current))
           w == p.items[k]
<1>1. GoodStep(p, tables, rehasher, current, acked) /\ Faithful(tables, acked)
  BY CarryOf, Zenon
<1>2. p.table = current
  BY Zenon DEF StepsInv, Stepping
<1>3. /\ OnlyMoves(g) /\ StoredEntry(tables', tables, current, i, k, w) /\ w # None
      /\ q.items = [p.items EXCEPT ![k] = None] /\ current' = current /\ rehasher' = rehasher
  BY <1>2, Zenon DEF Carried
<1>4. w \in {None, acked[k]} /\ p.items \in Content /\ tables \in Seq(Shards)
  <2>1. p \in Proc /\ tables \in Seq(Shards)
    BY Zenon DEF Types
  <2>2. p.items \in Content
    BY <2>1, ZenonT(40) DEF Proc
  <2> QED
    BY <1>1, <2>1, <2>2, Zenon DEF GoodStep
<1>5. w = acked[k] /\ w \in Value \cup {None}
  BY <1>3, <1>4, Zenon DEF Content
<1>6. SameSize(tables', tables) /\ OtherEntry(tables', tables, current, i, k, w)
  <2> HIDE DEF i, w
  <2> QED
    BY <1>3, <1>4, <1>5, EntryStored, Zenon
<1>7. \A x \in 1 .. Len(tables) : \A j \in DOMAIN tables[x] : \A a \in Key :
          tables'[x][j][a] = IF x = current /\ j = i /\ a = k THEN w ELSE tables[x][j][a]
  BY <1>6, Zenon DEF OtherEntry
<1>8. /\ v # None
      /\ v = New(key) \/ v = Old(key) \/ \E h \in Goroutine : v = proc[h].items[key]
  BY WhereValues, Zenon
<1>9. /\ New(key) = LookupIn(tables, current, key) /\ current \in 1 .. Len(tables)
      /\ rehasher.rehashing => Old(key) = LookupIn(tables, rehasher.old, key)
      /\ ~rehasher.rehashing => Old(key) = None
      /\ rehasher.rehashing => rehasher.old \in 1 .. Len(tables)
  BY WhereLooked, ZenonT(40)
<1>10. /\ New(key)' = LookupIn(tables', current, key)
       /\ rehasher.rehashing => Old(key)' = LookupIn(tables', rehasher.old, key)
  <2>1. current # 0 /\ (rehasher.rehashing => rehasher.old # 0)
    BY <1>9
  <2> QED
    BY <1>3, <2>1, Zenon DEF New, Old, Lookup, Count, LookupIn
<1>11. PICK j \in DOMAIN tables[current] : /\ New(key) = tables[current][j][key]
                                           /\ New(key)' = tables'[current][j][key]
                                           /\ j = Index(key, Count(current))
  <2> DEFINE t == current
  <2>1. t \in 1 .. Len(tables) /\ SameSize(tables', tables)
    BY <1>6, <1>9, Zenon
  <2> HIDE DEF t
  <2>2. \E j \in DOMAIN tables[t] : /\ LookupIn(tables, t, key) = tables[t][j][key]
                                    /\ LookupIn(tables', t, key) = tables'[t][j][key]
                                    /\ j = Index(key, Count(t))
    BY <2>1, LookupIndex, Zenon
  <2> QED
    BY <1>9, <1>10, <2>2, Zenon DEF t
<1>12. rehasher.rehashing =>
           \E x \in 1 .. Len(tables) : \E m \in DOMAIN tables[x] :
               Old(key) = tables[x][m][key] /\ Old(key)' = tables'[x][m][key]
  <2> SUFFICES ASSUME rehasher.rehashing
               PROVE  \E x \in 1 .. Len(tables) : \E m \in DOMAIN tables[x] :
                          Old(key) = tables[x][m][key] /\ Old(key)' = tables'[x][m][key]
    BY Zenon
  <2> DEFINE t == rehasher.old
  <2>1. t \in 1 .. Len(tables) /\ SameSize(tables', tables)
    BY <1>6, <1>9, Zenon
  <2> HIDE DEF t
  <2>2. \E m \in DOMAIN tables[t] : /\ LookupIn(tables, t, key) = tables[t][m][key]
                                    /\ LookupIn(tables', t, key) = tables'[t][m][key]
    BY <2>1, LookupIndex, Zenon
  <2>3. Old(key) = LookupIn(tables, t, key) /\ Old(key)' = LookupIn(tables', t, key)
    BY <1>9, <1>10, Zenon DEF t
  <2> QED
    BY <2>1, <2>2, <2>3, Zenon
<1>13. CASE key = k
  <2>1. v = acked[k]
    <3>1. CASE v = New(key)
      BY <1>1, <1>8, <1>9, <1>11, <1>13, <3>1, ZenonT(40) DEF Faithful
    <3>2. CASE v = Old(key)
      BY <1>1, <1>8, <1>9, <1>12, <1>13, <3>2, ZenonT(40) DEF Faithful
    <3>3. ASSUME NEW h \in Goroutine, v = proc[h].items[key] PROVE v = acked[k]
      <4>1. GoodStep(proc[h], tables, rehasher, current, acked)
        BY CarryOf, ZenonT(40)
      <4> QED
        BY <1>8, <1>13, <3>3, <4>1, Zenon DEF GoodStep
    <3> QED
      BY <1>8, <3>1, <3>2, <3>3, ZenonT(40)
  <2>2. j = i
    BY <1>11, <1>13, ZenonT(40)
  <2>3. New(key)' = w
    BY <1>7, <1>9, <1>11, <1>13, <2>2, ZenonT(40)
  <2> QED
    BY <1>5, <1>8, <2>1, <2>3, WhereValues, ZenonT(40)
<1>14. CASE key # k
  <2>1. CASE v = New(key)
    <3>1. New(key)' = New(key)
      BY <1>7, <1>9, <1>11, <1>14, Zenon
    <3> QED
      BY <1>8, <2>1, <3>1, WhereValues, ZenonT(40)
  <2>2. CASE v = Old(key)
    <3>1. rehasher.rehashing
      BY <1>8, <1>9, <2>2, ZenonT(40)
    <3>2. Old(key)' = Old(key)
      BY <1>7, <1>12, <1>14, <3>1, Zenon
    <3> QED
      BY <1>8, <2>2, <3>2, WhereValues, ZenonT(40)
  <2>3. ASSUME NEW h \in Goroutine, v = proc[h].items[key] PROVE v \in Values(key)'
    <3>1. proc'[h].items[key] = proc[h].items[key]
      <4>1. CASE h = g
        BY <1>3, <1>4, <1>14, <4>1, ZenonT(40) DEF Content
      <4>2. CASE h # g
        <5>1. proc'[h] = proc[h]
          BY <1>3, <4>2, Zenon DEF OnlyMoves
        <5> QED
          BY <5>1, Zenon
      <4> QED
        BY <4>1, <4>2, ZenonT(40)
    <3> QED
      BY <1>8, <2>3, <3>1, WhereValues, ZenonT(40)
  <2> QED
    BY <1>8, <2>1, <2>2, <2>3, Zenon
<1> QED
  BY <1>13, <1>14, Zenon


\* A migration ends with nothing left in its table.
LEMMA EndKeeps ==
    ASSUME Types, Sound, Types', Sound', CarryInv, ~closed, ~closed', ~Swapping, NEW g \in Goroutine,
           StepEnd(g) \/ BatchEnd(g), NEW key \in Key, NEW v \in Values(key)
    PROVE  v \in Values(key)'
<1> DEFINE p == proc[g]
<1>1. GoodStep(p, tables, rehasher, current, acked) /\ Passed(rehasher, tables)
  BY CarryOf, Zenon
<1>2. p.pc = "end" /\ Return(g) /\ tables' = tables /\ current' = current
  BY ZenonT(40) DEF StepEnd, BatchEnd, At
<1>3. p.items = NoEntries /\ (rehasher.rehashing => p.old = rehasher.old)
  BY <1>1, <1>2, Zenon DEF GoodStep, Taking
<1>4. /\ v # None
      /\ v = New(key) \/ v = Old(key) \/ \E h \in Goroutine : v = proc[h].items[key]
  BY WhereValues, Zenon
<1>5. CASE v = New(key)
  <2>1. New(key)' = New(key)
    BY <1>2, Zenon DEF New, Lookup, Count
  <2> QED
    BY <1>4, <1>5, <2>1, WhereValues, ZenonT(40)
<1>6. ASSUME NEW h \in Goroutine, v = proc[h].items[key] PROVE v \in Values(key)'
  <2>1. h # g
    BY <1>3, <1>4, <1>6, Zenon DEF NoEntries
  <2>2. proc'[h] = proc[h]
    BY <1>2, <2>1, Returns, Zenon DEF OnlyMoves
  <2>3. v = proc'[h].items[key]
    BY <1>6, <2>2, Zenon
  <2> QED
    BY <1>4, <2>3, WhereValues, ZenonT(40)
<1>7. CASE v = Old(key)
  <2>1. /\ rehasher.rehashing => Old(key) = LookupIn(tables, rehasher.old, key)
        /\ ~rehasher.rehashing => Old(key) = None
        /\ rehasher.rehashing => rehasher.old \in 1 .. Len(tables)
    BY WhereLooked, Zenon
  <2>2. rehasher.rehashing /\ rehasher.old \in 1 .. Len(tables)
    BY <1>4, <1>7, <2>1, Zenon
  <2> DEFINE t == rehasher.old
  <2>3. tables \in Seq(Shards) /\ t \in 1 .. Len(tables)
    BY <2>2, Zenon DEF Types
  <2>4. PICK n \in Nat \ {0} : DOMAIN tables[t] = 0 .. n - 1 /\ Cardinality(DOMAIN tables[t]) = n
    <3>1. tables[t] \in Shards
      BY <2>3
    <3> QED
      BY <3>1, ShardsOf, Zenon
  <2>5. Count(t) = n
    BY <2>3, <2>4 DEF Count
  <2>6. PICK j \in DOMAIN tables[t] : LookupIn(tables, t, key) = tables[t][j][key]
    <3> HIDE DEF t
    <3>1. SameSize(tables, tables)
      BY <2>3, Zenon DEF SameSize
    <3>2. \E j \in DOMAIN tables[t] : /\ LookupIn(tables, t, key) = tables[t][j][key]
                                      /\ LookupIn(tables, t, key) = tables[t][j][key]
                                      /\ j = Index(key, Count(t))
      BY <2>3, <3>1, LookupIndex, ZenonT(40)
    <3> QED
      BY <3>2, Zenon
  <2>7. ~Bare(tables, t, j)
    BY <1>4, <1>7, <2>1, <2>2, <2>6, Zenon DEF Bare
  <2>8. ASSUME rehasher'.rehashing, rehasher'.old = rehasher.old PROVE v \in Values(key)'
    <3>1. Old(key)' = Old(key)
      BY <1>2, <2>2, <2>8, Zenon DEF Old, Lookup, Count
    <3> QED
      BY <1>4, <1>7, <3>1, WhereValues, ZenonT(40)
  <2>9. CASE rehasher' = rehasher
    BY <2>2, <2>8, <2>9, Zenon
  <2>10. CASE BatchEnd(g)
    <3>1. p.name = "batch"
      BY <2>10, Zenon DEF BatchEnd
    <3>2. \A m \in DOMAIN tables[p.old] : Bare(tables, p.old, m)
      BY <1>1, <1>2, <3>1, Zenon DEF GoodStep
    <3> QED
      BY <1>3, <2>2, <2>6, <2>7, <3>2, Zenon
  <2>11. CASE StepEnd(g)
    <3>1. CASE Kept
      BY <2>9, <3>1, Zenon DEF Kept
    <3>2. CASE Advanced(p)
      BY <2>8, <3>2, Zenon DEF Advanced
    <3>3. CASE Ended(p)
      <4>1. ~p.moved /\ rehasher.idx = p.idx /\ ~(rehasher.idx + 1 < n)
        BY <2>5, <3>3, Zenon DEF Ended
      <4>2. p.name # "batch"
        BY <2>11, ZenonT(40) DEF StepEnd
      <4>3. Bare(tables, t, rehasher.idx)
        BY <1>1, <1>2, <1>3, <2>2, <4>1, <4>2, Zenon DEF GoodStep
      <4>4. \A m \in DOMAIN tables[t] : m < rehasher.idx => Bare(tables, t, m)
        BY <1>1, <2>2, Zenon DEF Passed
      <4>5. rehasher.idx \in Nat
        BY Zenon DEF Types, Rehasher
      <4>6. j < rehasher.idx \/ j = rehasher.idx
        BY <2>4, <2>6, <4>1, <4>5
      <4> QED
        BY <2>6, <2>7, <4>3, <4>4, <4>6, Zenon
    <3> QED
      BY <2>11, <3>1, <3>2, <3>3, StepEnds, Zenon
  <2> QED
    BY <2>10, <2>11, Zenon
<1> QED
  BY <1>4, <1>5, <1>6, <1>7, Zenon

\* What MigrationKeepsEntries says of one step.
Keeps ==
    (~closed' /\ \E g \in Goroutine :
            proc[g].pc \in {"extract", "move", "end"} /\ proc[g]' # proc[g])
          => \A key \in Key : Values(key) \subseteq Values(key)'

\* A Step of a reader loses nothing.
LEMMA KeepsStep ==
    ASSUME OnlyReaders, Types, Sound, StepsInv, CarryInv, Next, Disciplined
    PROVE  Keeps
<1> SUFFICES ASSUME ~closed', NEW g \in Goroutine, proc[g].pc \in {"extract", "move", "end"},
                    proc'[g] # proc[g], NEW key \in Key, NEW v \in Values(key)
             PROVE  v \in Values(key)'
  BY Zenon DEF Keeps
<1>1. Types' /\ Sound'
  BY TypesStep, Zenon
<1>2. PICK f \in Goroutine : Operation(f) \/ Step(f) \/ Admin(f)
  BY Zenon DEF Next
<1>3. OnlyMoves(f) => f = g
  BY Zenon DEF OnlyMoves
<1>4. ~(Operation(f) \/ CheckStep(f) \/ LoadTable(f) \/ StepBegin(f))
  <2> SUFFICES ASSUME Walked(f) PROVE FALSE
    BY Walks, Zenon
  <2>1. f = g /\ proc[f].pc \in OnTheWay \cup {"idle", "begin"}
    BY <1>3, Zenon DEF Walked
  <2> QED
    BY <2>1, Zenon DEF OnTheWay
<1>5. ~Admin(f)
  <2> SUFFICES ASSUME Admin(f) PROVE FALSE
    BY Zenon
  <2>1. proc[f].pc \in {"idle", "swap", "install", "stop"}
    BY Zenon DEF Admin, Resize, ResizeStore, SetRehasher, Install, Close, CloseStop, At
  <2>2. OnlyMoves(f)
    BY AdminMoves, Returns, Zenon DEF Admin, ResizeStore, Install, CloseStop
  <2> QED
    BY <1>3, <2>1, <2>2, Zenon
<1>6. CASE Extract(f) \/ Move(f)
  <2>1. Worked(f)
    BY <1>6, Works, Zenon
  <2>2. f = g /\ closed' = closed /\ current' = current
    BY <1>3, <2>1, Zenon DEF Worked
  <2>3. ~closed /\ ~Swapping
    BY <2>2, Zenon DEF Disciplined, Swapping
  <2>4. CASE Extract(f)
    <3>1. proc[g].pc = "extract" /\ \E out \in SUBSET Key : Extracted(g, out)
      BY <2>2, <2>4, Extracts, ZenonT(40) DEF Extract, At
    <3> QED
      BY <1>1, <2>3, <3>1, ExtractKeeps, Zenon
  <2>5. CASE Move(f)
    <3>1. proc[g].pc = "move" /\ \E k \in Key : Carried(g, k) \/ OutOfRange(g, k)
      BY <2>2, <2>5, Moves, Zenon DEF Move, At
    <3>2. \A k \in Key : ~OutOfRange(g, k)
      BY Zenon DEF OutOfRange
    <3> QED
      BY <1>1, <2>3, <3>1, <3>2, MoveKeeps, Zenon
  <2> QED
    BY <1>6, <2>4, <2>5, Zenon
<1>7. CASE StepEnd(f) \/ BatchEnd(f)
  <2>1. Return(f) /\ closed' = closed /\ current' = current
    BY <1>7, Zenon DEF StepEnd, BatchEnd
  <2>2. f = g
    BY <1>3, <2>1, Returns, Zenon
  <2>3. ~closed /\ ~Swapping
    BY <2>1, Zenon DEF Disciplined, Swapping
  <2> QED
    BY <1>1, <1>7, <2>2, <2>3, EndKeeps, Zenon
<1> QED
  BY <1>2, <1>4, <1>5, <1>6, <1>7, Zenon DEF Step

-----------------------------------------------------------------------------
INSTANCE FiniteSetTheorems

\* None and the numbers up to n are finitely many.
LEMMA CountedFact == Counted
<1>1. Cardinality({}) = 0
  BY FS_EmptySet, Zenon
<1>2. ASSUME NEW n \in Nat \ {0} PROVE Counts(n)
  <2>1. 0 \in Int /\ n - 1 \in Int
    OBVIOUS
  <2>2. Cardinality(0 .. n - 1) = IF 0 > n - 1 THEN 0 ELSE (n - 1) - 0 + 1
    BY <2>1, FS_Interval, Zenon
  <2>3. Cardinality(0 .. n - 1) = n
    BY <2>2
  <2> QED
    BY <2>3, Zenon DEF Counts
<1> QED
  BY <1>1, <1>2, Zenon DEF Counted

(* However many Steps race to finish a migration, the incremental rehasher   *)
(* reports justCompleted once per Resize at most: the reports, and the       *)
(* migration under way, are never more than the tables stored after the      *)
(* first.  The batch rehasher is excluded, whose every Step reports.         *)
THEOREM ReportsOnce ==
    ASSUME "batch" \notin FirstNames \cup SwapNames
    PROVE  Spec => []CompletedOnce
<1> DEFINE Inv == Types /\ Sound /\ DoneInv
<1>1. Init => Inv
  BY CountedFact, TypesInit, DoneInit, Zenon
<1>2. Inv /\ [Next]_vars => Inv'
  BY TypesStep, DoneStep, Zenon
<1>3. Inv => CompletedOnce
  <2> SUFFICES ASSUME Inv, \A g \in Goroutine : ~At(g, "swap")
               PROVE  finished + Running(rehasher) <= Len(tables) - 1
    BY Zenon DEF CompletedOnce, Running
  <2>1. ~Swapping
    BY Zenon DEF Swapping
  <2>2. finished + Running(rehasher) <= Len(tables) - 1 + 0 /\ Len(tables) \in Nat
    BY <2>1 DEF DoneInv, Types
  <2> QED
    BY <2>2
<1> QED
  BY <1>1, <1>2, <1>3, PTL DEF Spec

(* The callers that run a Resize while no other call is under way see no     *)
(* index out of range until Close: with any number of goroutines, writers    *)
(* among them, and any rehasher, the table a Step loaded is the one whose    *)
(* mask gives the index.                                                     *)
THEOREM IndexesInRange == QuietResizeSpec => []PanicsOnlyAfterClose
<1> DEFINE Inv == Types /\ Sound /\ StepsInv
<1>1. Init => Inv
  BY CountedFact, TypesInit, StepsInit, Zenon
<1>2. Inv /\ [Next /\ Disciplined]_vars => Inv'
  BY TypesStep, StepsStep, Zenon
<1>3. Inv => PanicsOnlyAfterClose
  BY Zenon DEF StepsInv, PanicsOnlyAfterClose
<1> QED
  BY <1>1, <1>2, <1>3, PTL DEF QuietResizeSpec

(* While only readers push a migration forward, and Resize is called when no *)
(* other call is under way, no interleaving of Extract, Move and the end of  *)
(* a Step loses an entry, whichever rehasher makes them: for any number of   *)
(* readers, keys, shards and Resizes.                                        *)
THEOREM ReadersLoseNothing ==
    ASSUME \A g \in Goroutine : Calls[g] \cap {"set", "del"} = {}
    PROVE  QuietResizeSpec => MigrationKeepsEntries
<1> DEFINE Inv == Types /\ Sound /\ StepsInv /\ CarryInv
<1>1. OnlyReaders
  BY Zenon DEF OnlyReaders
<1>2. Init => Inv
  BY CountedFact, TypesInit, StepsInit, CarryInit, Zenon
<1>3. Inv /\ [Next /\ Disciplined]_vars => Inv'
  BY <1>1, TypesStep, StepsStep, CarryStep, Zenon
<1>4. Inv /\ [Next /\ Disciplined]_vars => [Keeps]_vars
  BY <1>1, KeepsStep, Zenon
<1>5. QuietResizeSpec => [][Keeps]_vars
  BY <1>2, <1>3, <1>4, PTL DEF QuietResizeSpec
<1> QED
  BY <1>5, Zenon DEF MigrationKeepsEntries, Keeps
=============================================================================
