---------------------------- MODULE ClusterProofs ----------------------------
(****************************************************************************)
(* Failover, Close and the choice of a node, for every number of nodes,     *)
(* timeout, weight, hash and interleaving.                                  *)
(****************************************************************************)
EXTENDS Cluster, SequenceTheorems, TLAPS

Places == {"idle", "probe", "failover", "swapped", "stopped"}

(* The nodes, wherever the health goroutine is.  EachNodeOnce speaks of the  *)
(* modes with a master only; Close needs the third one as well, and that     *)
(* nobody touches the list once the goroutine has stopped.                   *)
NodesInv ==
  /\ mon = [at |-> mon.at, todo |-> mon.todo, old |-> mon.old]
  /\ mon.at \in Places
  /\ list \in Seq(Node)
  /\ mode = "shard" => master = None /\ known = Range(list) /\ mon.at \notin {"failover", "swapped"}
  /\ mode # "shard" =>
       /\ master \in Node
       /\ mon.at = "swapped" => mon.old \in Node
       /\ EachNodeOnce
  /\ closing \in {"no", "stopping", "closed"}
  /\ closing = "closed" => shut = known /\ mon.at = "stopped"

(* The flags and the clock.  since is the code's firstUnhealthyAt: it is     *)
(* never longer ago than the last answer of the master.                      *)
ClockInv ==
  /\ healthy \in [Node -> BOOLEAN]
  /\ since \in Int /\ good \in Int
  /\ 0 <= good /\ good <= FailoverTimeout
  /\ -1 <= since /\ since <= good
  /\ mon.at = "failover" => since >= FailoverTimeout /\ ~healthy[master]

------------------------------------------------------------------------------
(* Lists of nodes                                                           *)

\* What tryFailover does to the list: one node out, the old master in.
LEMMA RelistFacts ==
  ASSUME NEW S, NEW s \in Seq(S), IsInjective(s), NEW i \in DOMAIN s,
         NEW o \in S, o \notin Range(s)
  PROVE  LET t == Append(Without(s, i), o)
         IN /\ t \in Seq(S) /\ IsInjective(t)
            /\ Range(t) = (Range(s) \ {s[i]}) \cup {o}
<1> DEFINE n == Len(s)
           w == Without(s, i)
           t == Append(w, o)
<1>1. n \in Nat /\ DOMAIN s = 1 .. n /\ i \in 1 .. n /\ \A k \in 1 .. n : s[k] \in S
  OBVIOUS
<1> HIDE DEF n
<1>2. /\ w = [j \in 1 .. n - 1 |-> IF j < i THEN s[j] ELSE s[j + 1]]
  BY Zenon DEF Without, n
<1>3. w \in Seq(S) /\ Len(w) = n - 1
  <2>1. n - 1 \in Nat
    BY <1>1
  <2>2. \A j \in 1 .. n - 1 : w[j] \in S
    BY <1>1, <1>2
  <2> QED
    BY <1>2, <2>1, <2>2
<1>4. \A j \in 1 .. n - 1 : w[j] = IF j < i THEN s[j] ELSE s[j + 1]
  BY <1>2, Zenon
<1> HIDE DEF w
<1>5. /\ t \in Seq(S) /\ Len(t) = n /\ t[n] = o
      /\ \A j \in 1 .. n - 1 : t[j] = w[j]
  BY <1>1, <1>3, AppendProperties
<1> HIDE DEF t
<1>6. DOMAIN t = 1 .. n
  BY <1>5
<1>7. \A j \in 1 .. n - 1 : t[j] = IF j < i THEN s[j] ELSE s[j + 1]
  BY <1>4, <1>5, Zenon
<1>8. \A j, k \in 1 .. n : s[j] = s[k] => j = k
  BY <1>1, Zenon DEF IsInjective
<1>9. \A j \in 1 .. n : s[j] # o
  BY <1>1, Zenon DEF Range
<1>10. ASSUME NEW j \in 1 .. n, NEW k \in 1 .. n, t[j] = t[k] PROVE j = k
  <2>1. CASE j = n
    <3>1. k # n => k \in 1 .. n - 1
      BY <1>1
    <3>2. k \in 1 .. n - 1 => t[k] # o
      BY <1>1, <1>7, <1>9
    <3> QED
      BY <1>5, <1>10, <2>1, <3>1, <3>2, Zenon
  <2>2. CASE j # n /\ k = n
    <3>1. j \in 1 .. n - 1
      BY <1>1, <2>2
    <3>2. t[j] # o
      BY <1>1, <1>7, <1>9, <3>1
    <3> QED
      BY <1>5, <1>10, <2>2, <3>2, Zenon
  <2>3. CASE j # n /\ k # n
    <3>1. j \in 1 .. n - 1 /\ k \in 1 .. n - 1
      BY <1>1, <2>3
    <3>2. (IF j < i THEN s[j] ELSE s[j + 1]) = IF k < i THEN s[k] ELSE s[k + 1]
      BY <1>7, <1>10, <3>1, Zenon
    <3> QED
      BY <1>1, <1>8, <3>1, <3>2
  <2> QED
    BY <2>1, <2>2, <2>3, Zenon
<1>11. IsInjective(t)
  BY <1>6, <1>10, Zenon DEF IsInjective
<1>12. Range(t) \subseteq (Range(s) \ {s[i]}) \cup {o}
  <2> SUFFICES ASSUME NEW j \in 1 .. n PROVE t[j] \in (Range(s) \ {s[i]}) \cup {o}
    BY <1>6, Zenon DEF Range
  <2>1. CASE j = n
    BY <1>5, <2>1, Zenon
  <2>2. CASE j # n
    <3>1. j \in 1 .. n - 1
      BY <1>1, <2>2
    <3> DEFINE k == IF j < i THEN j ELSE j + 1
    <3>2. k \in 1 .. n /\ k # i /\ t[j] = s[k]
      BY <1>1, <1>7, <3>1
    <3> HIDE DEF k
    <3>3. s[k] # s[i] /\ s[k] \in Range(s)
      BY <1>1, <1>8, <3>2, Zenon DEF Range
    <3> QED
      BY <3>2, <3>3, Zenon
  <2> QED
    BY <2>1, <2>2, Zenon
<1>13. (Range(s) \ {s[i]}) \cup {o} \subseteq Range(t)
  <2>1. o \in Range(t)
    <3>1. n \in DOMAIN t
      BY <1>1, <1>6
    <3> QED
      BY <1>5, <3>1, Zenon DEF Range
  <2>2. ASSUME NEW k \in 1 .. n, s[k] # s[i] PROVE s[k] \in Range(t)
    <3> DEFINE j == IF k < i THEN k ELSE k - 1
    <3>1. j \in 1 .. n - 1 /\ t[j] = s[k]
      <4>1. k # i
        BY <2>2, Zenon
      <4>2. CASE k < i
        BY <1>1, <1>7, <4>2
      <4>3. CASE i < k
        <5>1. j = k - 1 /\ j \in 1 .. n - 1 /\ ~(j < i) /\ j + 1 = k
          BY <1>1, <4>3
        <5> HIDE DEF j
        <5> QED
          BY <1>7, <5>1, Zenon
      <4> QED
        BY <1>1, <4>1, <4>2, <4>3
    <3> HIDE DEF j
    <3> QED
      BY <1>1, <1>6, <3>1 DEF Range
  <2> QED
    BY <1>1, <2>1, <2>2, Zenon DEF Range
<1> QED
  BY <1>5, <1>11, <1>12, <1>13, Zenon DEF t, w

------------------------------------------------------------------------------
(* The initial states                                                       *)

\* The configured nodes are distinct, so that any part of them is.
LEMMA ConfigFacts ==
  /\ Config \in Seq(Node) /\ Len(Config) \in Nat /\ Len(Config) > 1
  /\ DOMAIN Config = 1 .. Len(Config)
  /\ \A i \in 1 .. Len(Config) : Config[i] \in Node
  /\ \A i, j \in 1 .. Len(Config) : Config[i] = Config[j] => i = j
  /\ None \notin Node
  BY ClusterAssumption DEF IsInjective

(* Any choice of later addresses, in an order without repetitions, is a list *)
(* of replicas that the master is not in.                                    *)
LEMMA ChosenFacts ==
  ASSUME NEW k \in Nat, NEW f \in [1 .. k -> 2 .. Len(Config)],
         \A i, j \in 1 .. k : i < j => f[i] < f[j],
         NEW l, l = [i \in 1 .. k |-> Config[f[i]]]
  PROVE  /\ l \in Seq(Node) /\ IsInjective(l) /\ Config[1] \notin Range(l)
<1>1. \A i \in 1 .. k : f[i] \in 1 .. Len(Config) /\ f[i] # 1
  BY ConfigFacts
<1>2. \A i \in 1 .. k : l[i] \in Node /\ l[i] = Config[f[i]]
  BY <1>1, ConfigFacts, Zenon
<1>3. l \in Seq(Node) /\ DOMAIN l = 1 .. k
  <2>1. l \in [1 .. k -> Node]
    BY <1>2, Zenon
  <2> QED
    BY <2>1
<1>4. ASSUME NEW i \in 1 .. k, NEW j \in 1 .. k, l[i] = l[j] PROVE i = j
  <2>1. f[i] = f[j]
    BY <1>1, <1>2, <1>4, ConfigFacts, Zenon
  <2>2. f[i] \in Int /\ f[j] \in Int
    BY ConfigFacts
  <2> QED
    BY <2>1, <2>2
<1>5. \A i \in 1 .. k : l[i] # Config[1]
  BY <1>1, <1>2, ConfigFacts
<1> QED
  BY <1>3, <1>4, <1>5, Zenon DEF IsInjective, Range

\* The list of newMasterSlaveMode is every configured node but the first.
LEMMA TailFacts ==
  /\ Tail(Config) \in Seq(Node) /\ IsInjective(Tail(Config))
  /\ Config[1] \notin Range(Tail(Config))
<1> DEFINE k == Len(Config) - 1
           f == [i \in 1 .. k |-> i + 1]
<1>1. k \in Nat /\ f \in [1 .. k -> 2 .. Len(Config)]
      /\ \A i, j \in 1 .. k : i < j => f[i] < f[j]
  BY ConfigFacts
<1>2. Tail(Config) = [i \in 1 .. k |-> Config[f[i]]]
  <2> DEFINE t == Tail(Config)
  <2>1. t \in Seq(Node) /\ Len(t) = k /\ \A i \in 1 .. k : t[i] = Config[i + 1]
    <3>1. Config # <<>>
      BY ConfigFacts
    <3> QED
      BY <3>1, ConfigFacts, HeadTailProperties, Zenon
  <2> HIDE DEF t
  <2>2. t = [i \in 1 .. k |-> t[i]]
    BY <2>1
  <2>3. \A i \in 1 .. k : t[i] = Config[f[i]]
    BY <2>1, Zenon
  <2> HIDE DEF k, f
  <2> QED
    BY <2>2, <2>3, Zenon DEF t
<1> HIDE DEF k, f
<1> QED
  BY <1>1, <1>2, ChosenFacts, Zenon

\* The three constructors establish NodesInv.
LEMMA NodesInit == Init => NodesInv
<1> SUFFICES ASSUME Init PROVE NodesInv
  BY Zenon
<1>1. /\ closing = "no" /\ known = Range(list) \cup ({master} \ {None})
  BY Zenon DEF Init
<1>2. Head(Config) = Config[1] /\ Config[1] \in Node /\ None \notin Node
  BY ConfigFacts
<1>3. ASSUME mode # "shard", master = Config[1], list \in Seq(Node), IsInjective(list),
             Config[1] \notin Range(list), mon = Done
      PROVE  NodesInv
  <2>1. mon = [at |-> "idle", todo |-> {}, old |-> None] /\ mon.at = "idle"
        /\ mon.todo = {} /\ mon.old = None
    BY <1>3, Zenon DEF Done
  <2>2. {master} \ {None} = {master}
    BY <1>2, <1>3, Zenon
  <2> QED
    BY <1>1, <1>2, <1>3, <2>1, <2>2, Zenon DEF NodesInv, EachNodeOnce, Places
<1>4. CASE newSentinelMode
  <2>1. PICK k \in 1 .. Len(Config) - 1 : \E f \in [1 .. k -> 2 .. Len(Config)] :
       /\ \A i, j \in 1 .. k : i < j => f[i] < f[j]
       /\ list = [i \in 1 .. k |-> Config[f[i]]]
    BY <1>4, Zenon DEF newSentinelMode
  <2>2. PICK f \in [1 .. k -> 2 .. Len(Config)] :
       /\ \A i, j \in 1 .. k : i < j => f[i] < f[j]
       /\ list = [i \in 1 .. k |-> Config[f[i]]]
    BY <2>1, Zenon
  <2>3. k \in Nat
    BY ConfigFacts
  <2>4. list \in Seq(Node) /\ IsInjective(list) /\ Config[1] \notin Range(list)
    BY <2>2, <2>3, ChosenFacts, Zenon
  <2> QED
    BY <1>2, <1>3, <1>4, <2>4, Zenon DEF newSentinelMode
<1>5. CASE newMasterSlaveMode
  BY <1>2, <1>3, <1>5, TailFacts, Zenon DEF newMasterSlaveMode
<1>6. CASE newShardMode
  <2>1. mon = [at |-> "probe", todo |-> Node, old |-> None] /\ mon.at = "probe"
        /\ mon.todo = Node /\ mon.old = None
    BY <1>6, Zenon DEF newShardMode, Done
  <2>2. mode = "shard" /\ master = None /\ list = Config
    BY <1>6, Zenon DEF newShardMode
  <2>3. {master} \ {None} = {}
    BY <2>2, Zenon
  <2> QED
    BY <1>1, <2>1, <2>2, <2>3, ConfigFacts, Zenon DEF NodesInv, Places
<1> QED
  BY <1>4, <1>5, <1>6, Zenon DEF Init

\* No master is doubted when a mode is constructed.
LEMMA ClockInit == Init => ClockInv
<1> SUFFICES ASSUME Init PROVE ClockInv
  BY Zenon
<1>1. since = -1 /\ good = 0 /\ healthy = [n \in Node |-> n \in known]
  BY Zenon DEF Init
<1>2. mon.at # "failover"
  <2>1. \/ mon = [at |-> "idle", todo |-> {}, old |-> None]
        \/ mon = [at |-> "probe", todo |-> Node, old |-> None]
    BY Zenon DEF Init, newSentinelMode, newMasterSlaveMode, newShardMode, Done
  <2> QED
    BY <2>1
<1> QED
  BY <1>1, <1>2, ClusterAssumption DEF ClockInv

------------------------------------------------------------------------------
(* The steps                                                                *)

(* The goroutine moves, to a place where no failover is under way. *)
LEMMA MonitorMoves ==
  ASSUME NodesInv, NEW at \in {"idle", "probe", "failover", "stopped"}, NEW todo, NEW old,
         mon' = [at |-> at, todo |-> todo, old |-> old],
         mon.at # "swapped", mode = "shard" => at # "failover",
         closing' = "closed" => at = "stopped",
         UNCHANGED <<mode, known, master, list, closing, shut>>
  PROVE  NodesInv'
<1>1. mon'.at = at /\ mon'.todo = todo /\ mon'.old = old
  BY Zenon
<1> QED
  BY <1>1, Zenon DEF NodesInv, EachNodeOnce, Places

(* What neither the nodes nor Close depend on. *)
LEMMA NodesUntouched ==
  ASSUME NodesInv, UNCHANGED <<mode, known, master, list, mon, closing, shut>>
  PROVE  NodesInv'
  BY Zenon DEF NodesInv, EachNodeOnce

\* The health goroutine preserves NodesInv.
LEMMA MonitorStep ==
  ASSUME NodesInv, ClockInv, Monitor
  PROVE  NodesInv'
<1>0. closing = "closed" => mon.at = "stopped"
  BY Zenon DEF NodesInv
<1>r. mon = [at |-> mon.at, todo |-> mon.todo, old |-> mon.old]
  BY Zenon DEF NodesInv
<1>1. CASE Tick
  <2>1. mon' = [at |-> "probe", todo |-> Range(list), old |-> mon.old]
    BY <1>1, <1>r, Zenon DEF Tick
  <2> QED
    BY <1>0, <1>1, <2>1, MonitorMoves, Zenon DEF Tick
<1>2. ASSUME NEW n \in Node, Probe(n) PROVE NodesInv'
  <2>1. mon' = [at |-> "probe", todo |-> mon.todo \ {n}, old |-> mon.old]
    BY <1>2, <1>r, Zenon DEF Probe
  <2> QED
    BY <1>0, <1>2, <2>1, MonitorMoves, Zenon DEF Probe
<1>3. CASE ProbesDone
  <2>1. mon' = [at |-> "idle", todo |-> {}, old |-> None]
    BY <1>3, Zenon DEF ProbesDone, Done
  <2> QED
    BY <1>0, <1>3, <2>1, MonitorMoves, Zenon DEF ProbesDone
<1>4. CASE checkAndFailover
  <2>1. PICK h \in probeNodeHealth(master) :
          mon' = [Done EXCEPT !.at = IF ~h /\ since >= FailoverTimeout
                                     THEN "failover" ELSE "idle"]
    BY <1>4, Zenon DEF checkAndFailover
  <2>2. \E at \in {"idle", "failover"} : mon' = [at |-> at, todo |-> {}, old |-> None]
    BY <2>1, Zenon DEF Done
  <2> QED
    BY <1>0, <1>4, <2>2, MonitorMoves, Zenon DEF checkAndFailover
<1>5. CASE tryFailover
  <2>1. CASE mon' = Done /\ UNCHANGED master
    <3>1. mon' = [at |-> "idle", todo |-> {}, old |-> None]
      BY <2>1, Zenon DEF Done
    <3> QED
      BY <1>0, <1>5, <2>1, <3>1, MonitorMoves, Zenon DEF tryFailover
  <2>2. CASE /\ \E i \in DOMAIN list : best(i) /\ master' = list[i]
             /\ mon' = [at |-> "swapped", todo |-> {}, old |-> master]
    <3>1. PICK i \in DOMAIN list : master' = list[i]
      BY <2>2, Zenon
    <3>2. mon' = [at |-> "swapped", todo |-> {}, old |-> master] /\ mon.at = "failover"
      BY <1>5, <2>2, Zenon DEF tryFailover
    <3>3. mon'.at = "swapped" /\ mon'.old = master /\ mon'.todo = {}
      BY <3>2, Zenon
    <3>4. master' \in Range(list) /\ master' \in Node
      BY <3>1 DEF Range, NodesInv
    <3>5. UNCHANGED <<mode, known, list, closing, shut>>
      BY <1>5, Zenon DEF tryFailover
    <3>6. mode # "shard" /\ closing # "closed" /\ master \in Node /\ EachNodeOnce
      BY <1>0, <3>2, Zenon DEF NodesInv
    <3>7. IsInjective(list) /\ master \notin Range(list) /\ known = Range(list) \cup {master}
      BY <3>2, <3>6, Zenon DEF EachNodeOnce
    <3>8. EachNodeOnce'
      BY <3>2, <3>3, <3>4, <3>5, <3>7, Zenon DEF EachNodeOnce
    <3> QED
      BY <3>2, <3>3, <3>4, <3>5, <3>6, <3>8, Zenon DEF NodesInv, Places
  <2> QED
    BY <1>5, <2>1, <2>2, Zenon DEF tryFailover
<1>6. CASE Relist
  <2>1. PICK i \in DOMAIN list : list[i] = master /\ list' = Append(Without(list, i), mon.old)
    BY <1>6, Zenon DEF Relist
  <2>2. /\ mon.at = "swapped" /\ mon' = [at |-> "idle", todo |-> {}, old |-> None]
        /\ UNCHANGED <<mode, known, master, closing, shut>>
    BY <1>6, Zenon DEF Relist, Done
  <2>3. mon'.at = "idle" /\ mon'.old = None /\ mon'.todo = {}
    BY <2>2, Zenon
  <2>4. mode # "shard" /\ closing # "closed" /\ mon.old \in Node /\ EachNodeOnce
        /\ list \in Seq(Node) /\ master \in Node
    BY <1>0, <2>2, Zenon DEF NodesInv
  <2>5. IsInjective(list) /\ mon.old \notin Range(list) /\ known = Range(list) \cup {mon.old}
        /\ master \in Range(list)
    BY <2>2, <2>4, Zenon DEF EachNodeOnce
  <2>6. /\ list' \in Seq(Node) /\ IsInjective(list')
        /\ Range(list') = (Range(list) \ {master}) \cup {mon.old}
    BY <2>1, <2>4, <2>5, RelistFacts
  <2>7. master' \notin Range(list') /\ known' = Range(list') \cup {master'}
    BY <2>2, <2>5, <2>6, Zenon
  <2>8. EachNodeOnce'
    BY <2>2, <2>3, <2>6, <2>7, Zenon DEF EachNodeOnce
  <2> QED
    BY <2>2, <2>3, <2>4, <2>6, <2>8, Zenon DEF NodesInv, Places
<1> QED
  BY <1>1, <1>2, <1>3, <1>4, <1>5, <1>6, Zenon DEF Monitor

\* Every step preserves NodesInv.
LEMMA NodesStep == NodesInv /\ ClockInv /\ [Next]_vars => NodesInv'
<1> SUFFICES ASSUME NodesInv, ClockInv, [Next]_vars PROVE NodesInv'
  BY Zenon
<1>1. CASE Monitor
  BY <1>1, MonitorStep, Zenon
<1>2. CASE Close
  BY <1>2, Zenon DEF Close, NodesInv, EachNodeOnce, monitorVars
<1>3. CASE Stop
  <2>1. mon = [at |-> mon.at, todo |-> mon.todo, old |-> mon.old]
    BY Zenon DEF NodesInv
  <2>2. mon' = [at |-> "stopped", todo |-> mon.todo, old |-> mon.old]
    BY <1>3, <2>1, Zenon DEF Stop
  <2> QED
    BY <1>3, <2>2, MonitorMoves, Zenon DEF Stop
<1>4. CASE CloseClients
  <2>1. /\ closing' = "closed" /\ mon.at = "stopped" /\ mon' = mon
        /\ shut' = Range(list) \cup ({master} \ {None})
        /\ UNCHANGED <<mode, known, master, list>>
    BY <1>4, Zenon DEF CloseClients, monitorVars
  <2>2. shut' = known'
    <3>1. CASE mode = "shard"
      BY <2>1, <3>1, Zenon DEF NodesInv
    <3>2. CASE mode # "shard"
      BY <2>1, <3>2, ConfigFacts, Zenon DEF NodesInv, EachNodeOnce
    <3> QED
      BY <3>1, <3>2, Zenon
  <2> QED
    BY <2>1, <2>2, Zenon DEF NodesInv, EachNodeOnce
<1>5. CASE Caller \/ OtherRead
  <2>1. UNCHANGED <<mode, known, master, list, mon, closing, shut>>
    BY <1>5, Zenon DEF Caller, OtherRead, Get, Route, ShardLen, Begin, pickSlave, SumWeights,
                WalkWeights, CountNode, UseSlave, LoadMaster, TestNode,
                Finish, CallerStep, monitorVars
  <2> QED
    BY <2>1, NodesUntouched, Zenon
<1>6. CASE Pass \/ \E n \in Node : Lose(n)
  BY <1>6, NodesUntouched, Zenon DEF Pass, Lose, monitorVars
<1>7. CASE UNCHANGED vars
  BY <1>7, NodesUntouched, Zenon DEF vars
<1> QED
  BY <1>1, <1>2, <1>3, <1>4, <1>5, <1>6, <1>7, Zenon DEF Next

\* A flag that is stored leaves the flags Boolean.
LEMMA FlagType ==
  ASSUME NEW n \in Node, NEW h \in BOOLEAN, Flag(n, h), healthy \in [Node -> BOOLEAN]
  PROVE  healthy' \in [Node -> BOOLEAN] /\ healthy'[n] = h
  BY Zenon DEF Flag

\* A probe answers yes or no.
LEMMA ProbeType == ASSUME NEW n PROVE probeNodeHealth(n) \subseteq BOOLEAN
  BY Zenon DEF probeNodeHealth

\* What ClockInv speaks of, unchanged.
LEMMA ClockUntouched ==
  ASSUME ClockInv, UNCHANGED <<since, good, master, healthy>>,
         mon'.at = "failover" => mon.at = "failover"
  PROVE  ClockInv'
  BY Zenon DEF ClockInv

\* The health goroutine preserves ClockInv.
LEMMA MonitorClock ==
  ASSUME NodesInv, ClockInv, Monitor
  PROVE  ClockInv'
<1>r. mon = [at |-> mon.at, todo |-> mon.todo, old |-> mon.old]
  BY Zenon DEF NodesInv
<1>t. FailoverTimeout \in Nat
  BY ClusterAssumption, Zenon
<1>1. CASE Tick
  <2>1. mon' = [at |-> "probe", todo |-> Range(list), old |-> mon.old]
    BY <1>1, <1>r, Zenon DEF Tick
  <2>2. mon'.at = "probe"
    BY <2>1, Zenon
  <2> QED
    BY <1>1, <2>2, ClockUntouched, Zenon DEF Tick
<1>2. ASSUME NEW n \in Node, Probe(n) PROVE ClockInv'
  <2>1. mon' = [at |-> "probe", todo |-> mon.todo \ {n}, old |-> mon.old]
    BY <1>2, <1>r, Zenon DEF Probe
  <2>2. mon'.at # "failover"
    BY <2>1, Zenon
  <2>3. healthy' \in [Node -> BOOLEAN]
    BY <1>2, FlagType, ProbeType, Zenon DEF Probe, ClockInv
  <2>4. UNCHANGED <<since, good>>
    BY <1>2, Zenon DEF Probe
  <2> QED
    BY <2>2, <2>3, <2>4, Zenon DEF ClockInv
<1>3. CASE ProbesDone
  <2>1. mon' = [at |-> "idle", todo |-> {}, old |-> None]
    BY <1>3, Zenon DEF ProbesDone, Done
  <2>2. mon'.at = "idle"
    BY <2>1, Zenon
  <2> QED
    BY <1>3, <2>2, ClockUntouched, Zenon DEF ProbesDone
<1>4. CASE checkAndFailover
  <2>1. PICK h \in probeNodeHealth(master) :
          /\ Flag(master, h)
          /\ since' = IF h THEN -1 ELSE IF since = -1 THEN 0 ELSE since
          /\ good' = IF h THEN 0 ELSE good
          /\ mon' = [Done EXCEPT !.at = IF ~h /\ since >= FailoverTimeout
                                        THEN "failover" ELSE "idle"]
    BY <1>4, Zenon DEF checkAndFailover
  <2>2. h \in BOOLEAN /\ master \in Node /\ master' = master
    BY <1>4, ProbeType, Zenon DEF checkAndFailover, NodesInv
  <2>3. healthy' \in [Node -> BOOLEAN] /\ healthy'[master] = h
    BY <2>1, <2>2, FlagType, Zenon DEF ClockInv
  <2>4. CASE h
    <3>0. since' = -1 /\ good' = 0
      BY <2>1, <2>4, Zenon
    <3>1. mon' = [at |-> "idle", todo |-> {}, old |-> None]
      BY <2>1, <2>4, Zenon DEF Done
    <3>2. mon'.at = "idle"
      BY <3>1, Zenon
    <3> QED
      BY <1>t, <2>3, <3>0, <3>2 DEF ClockInv
  <2>5. CASE ~h
    <3>1. since' = (IF since = -1 THEN 0 ELSE since) /\ good' = good
      BY <2>1, <2>5, Zenon
    <3>2. mon'.at = "failover" => since >= FailoverTimeout
      <4>1. mon' = [at |-> IF since >= FailoverTimeout THEN "failover" ELSE "idle",
                    todo |-> {}, old |-> None]
        BY <2>1, <2>5, Zenon DEF Done
      <4> QED
        BY <4>1, Zenon
    <3>3. mon'.at = "failover" => since' >= FailoverTimeout /\ ~healthy'[master']
      BY <1>t, <2>2, <2>3, <2>5, <3>1, <3>2 DEF ClockInv
    <3> QED
      BY <1>t, <2>3, <3>1, <3>3 DEF ClockInv
  <2> QED
    BY <2>2, <2>4, <2>5, Zenon
<1>5. CASE tryFailover
  <2>1. mon'.at # "failover"
    <3>1. \/ mon' = [at |-> "idle", todo |-> {}, old |-> None]
          \/ mon' = [at |-> "swapped", todo |-> {}, old |-> master]
      BY <1>5, Zenon DEF tryFailover, Done
    <3> QED
      BY <3>1
  <2>2. \/ UNCHANGED <<since, good>>
        \/ since' = -1 /\ good' = 0
    BY <1>5, Zenon DEF tryFailover
  <2>3. healthy' = healthy
    BY <1>5, Zenon DEF tryFailover
  <2> QED
    BY <1>t, <2>1, <2>2, <2>3 DEF ClockInv
<1>6. CASE Relist
  <2>1. mon' = [at |-> "idle", todo |-> {}, old |-> None] /\ UNCHANGED <<since, good>>
        /\ Flag(mon.old, FALSE)
    BY <1>6, Zenon DEF Relist, Done
  <2>2. mon'.at # "failover"
    BY <2>1, Zenon
  <2>3. mon.old \in Node
    BY <1>6, Zenon DEF Relist, NodesInv
  <2>4. healthy' \in [Node -> BOOLEAN]
    BY <2>1, <2>3, FlagType, Zenon DEF ClockInv
  <2> QED
    BY <2>1, <2>2, <2>4, Zenon DEF ClockInv
<1> QED
  BY <1>1, <1>2, <1>3, <1>4, <1>5, <1>6, Zenon DEF Monitor

\* Every step preserves ClockInv.
LEMMA ClockStep == NodesInv /\ ClockInv /\ [Next]_vars => ClockInv'
<1> SUFFICES ASSUME NodesInv, ClockInv, [Next]_vars PROVE ClockInv'
  BY Zenon
<1>1. CASE Monitor
  BY <1>1, MonitorClock, Zenon
<1>2. CASE Pass
  <2>1. /\ since' = (IF since = -1 THEN -1 ELSE Later(since)) /\ good' = Later(good)
        /\ UNCHANGED <<master, healthy, mon>>
    BY <1>2, Zenon DEF Pass
  <2> QED
    BY <2>1, ClusterAssumption DEF ClockInv, Later
<1>3. CASE Stop
  <2>1. mon = [at |-> mon.at, todo |-> mon.todo, old |-> mon.old]
    BY Zenon DEF NodesInv
  <2>2. mon' = [at |-> "stopped", todo |-> mon.todo, old |-> mon.old]
    BY <1>3, <2>1, Zenon DEF Stop
  <2>3. mon'.at = "stopped"
    BY <2>2, Zenon
  <2> QED
    BY <1>3, <2>3, ClockUntouched, Zenon DEF Stop
<1>4. CASE Close \/ CloseClients \/ \E n \in Node : Lose(n)
  BY <1>4, ClockUntouched, Zenon DEF Close, CloseClients, Lose, monitorVars
<1>5. CASE Caller \/ OtherRead
  <2>1. UNCHANGED <<since, good, master, healthy, mon>>
    BY <1>5, Zenon DEF Caller, OtherRead, Get, Route, ShardLen, Begin, pickSlave, SumWeights,
                WalkWeights, CountNode, UseSlave, LoadMaster, TestNode,
                Finish, CallerStep, monitorVars
  <2> QED
    BY <2>1, ClockUntouched, Zenon
<1>6. CASE UNCHANGED vars
  BY <1>6, ClockUntouched, Zenon DEF vars
<1> QED
  BY <1>1, <1>2, <1>3, <1>4, <1>5, <1>6, Zenon DEF Next

------------------------------------------------------------------------------
(* Theorems                                                                 *)

(* EachNodeOnce of tryFailover: through any number of failovers, the master  *)
(* and the list hold every dialled node exactly once, or are between the     *)
(* swap of the master and the update of the list.                            *)
THEOREM NodesKept == Spec => []EachNodeOnce
<1>1. NodesInv => EachNodeOnce
  BY Zenon DEF NodesInv, EachNodeOnce
<1> QED
  BY NodesInit, ClockInit, NodesStep, ClockStep, <1>1, PTL DEF Spec

(* CloseReachesAll of the three Close methods: when Close has returned, the  *)
(* client of every dialled node was closed.                                  *)
THEOREM CloseComplete == Spec => []CloseReachesAll
<1>1. NodesInv => CloseReachesAll
  BY Zenon DEF NodesInv, CloseReachesAll
<1> QED
  BY NodesInit, ClockInit, NodesStep, ClockStep, <1>1, PTL DEF Spec

(* FailoverJustified of checkAndFailover: a master is deposed only after     *)
(* FailoverTimeout without an answer, for a replica flagged healthy.         *)
THEOREM FailoverSound == Spec => FailoverJustified
<1> DEFINE Justified == master' # master =>
             /\ good >= FailoverTimeout /\ ~healthy[master]
             /\ master' \in Range(list) /\ healthy[master']
<1>1. NodesInv /\ ClockInv /\ [Next]_vars => [Justified]_vars
  <2> SUFFICES ASSUME NodesInv, ClockInv, Next, master' # master PROVE Justified
    BY Zenon DEF vars
  <2>1. tryFailover
    BY ZenonT(40) DEF Next, Monitor, Tick, Probe, ProbesDone, checkAndFailover, Relist, Close, Stop,
           CloseClients, Pass, Lose, Caller, OtherRead, Get, Route, ShardLen, Begin,
           pickSlave, SumWeights, WalkWeights, CountNode, UseSlave, LoadMaster, TestNode,
                Finish, CallerStep, monitorVars
  <2>2. PICK i \in DOMAIN list : best(i) /\ master' = list[i]
    BY <2>1, Zenon DEF tryFailover
  <2>3. healthy[list[i]] /\ mon.at = "failover"
    BY <2>1, <2>2, Zenon DEF best, tryFailover
  <2>4. good >= FailoverTimeout
    BY <2>3, ClusterAssumption DEF ClockInv
  <2>5. ~healthy[master]
    BY <2>3, Zenon DEF ClockInv
  <2> QED
    BY <2>2, <2>3, <2>4, <2>5, Zenon DEF Range
<1> QED
  BY NodesInit, ClockInit, NodesStep, ClockStep, <1>1, PTL DEF Spec, FailoverJustified
------------------------------------------------------------------------------
(* Reads from the slaves                                                    *)

\* How many turns ago slot r was tried, of L slots of which m is the last tried.
Back(m, r, L) == IF r <= m THEN m - r ELSE m - r + L

(* A read under way: while the counter was advanced by this read alone, and  *)
(* did not wrap to another slot, its i - 1 turns have tried as many slots,   *)
(* and none of them holds a slave that was healthy throughout.               *)
TriedInv ==
  LET L == Len(op.snap)
  IN  ("other" \notin op.seen /\ ("wrap" \notin op.seen \/ CounterSize % L = 0))
        => \A r \in 0 .. L - 1 :
             op.snap[r + 1] \in op.steady => Back(nextSlave % L, r, L) >= op.i - 1

Reading == {"pick", "picked", "fallback", "master", "answer"}

ReadShape ==
  /\ op = [at |-> op.at, snap |-> op.snap, i |-> op.i, acc |-> op.acc, hash |-> op.hash,
           node |-> op.node, counted |-> op.counted, seen |-> op.seen, steady |-> op.steady]
  /\ op.at \in Reading
  /\ op.snap \in Seq(Node)
  /\ op.i \in 1 .. Len(op.snap) + 1
  /\ \A n \in op.steady : n \in Range(op.snap) /\ healthy[n]

(* What pickSlave returned: nothing, for a reason, or a slave that was       *)
(* healthy and may have gone down since.                                     *)
Excused ==
  \/ "other" \in op.seen
  \/ "wrap" \in op.seen /\ CounterSize % Len(op.snap) # 0

PickedInv ==
  /\ op.at = "pick" => op.node = None
  /\ op.at = "picked" =>
       /\ op.node = None /\ op.steady # {} => Excused
       /\ op.node # None => /\ op.node \in Range(op.snap)
                            /\ healthy[op.node] \/ "down" \in op.seen

ReadInv ==
  mode = "master_slave" =>
    /\ nextSlave \in 0 .. CounterSize - 1
    /\ \/ op = Quiet
       \/ /\ ReadShape /\ FallbackExplained /\ PickedInv
          /\ (op.at = "pick" /\ Len(op.snap) > 0) => TriedInv

\* A remainder is known by its bounds: slot numbers are counted round.
LEMMA RemainderIs ==
  ASSUME NEW L \in Nat, L > 0, NEW q \in Int, NEW r \in 0 .. L - 1
  PROVE  (L * q + r) % L = r
  OBVIOUS

\* What a remainder is.
LEMMA RemainderOf ==
  ASSUME NEW L \in Nat, L > 0, NEW n \in Nat
  PROVE  n % L \in 0 .. L - 1 /\ n = L * (n \div L) + (n % L) /\ n \div L \in Int
  OBVIOUS

\* The counter's next value takes the next slot, the first one after the last.
LEMMA NextSlot ==
  ASSUME NEW L \in Nat, L > 0, NEW n \in Nat
  PROVE  (n + 1) % L = IF n % L = L - 1 THEN 0 ELSE (n % L) + 1
<1> DEFINE q == n \div L
           m == n % L
<1>1. m \in 0 .. L - 1 /\ n = L * q + m /\ q \in Int
  BY RemainderOf, Zenon
<1> HIDE DEF q, m
<1>2. CASE m = L - 1
  <2>1. n + 1 = L * (q + 1) + 0
    BY <1>1, <1>2
  <2>2. (L * (q + 1) + 0) % L = 0
    <3>1. q + 1 \in Int /\ 0 \in 0 .. L - 1
      BY <1>1
    <3> QED
      BY <3>1, RemainderIs, Zenon
  <2> QED
    BY <1>2, <2>1, <2>2, Zenon DEF m
<1>3. CASE m # L - 1
  <2>1. n + 1 = L * q + (m + 1) /\ m + 1 \in 0 .. L - 1
    BY <1>1, <1>3
  <2>2. (L * q + (m + 1)) % L = m + 1
    BY <1>1, <2>1, RemainderIs, Zenon
  <2> QED
    BY <1>3, <2>1, <2>2, Zenon DEF m
<1> QED
  BY <1>2, <1>3, Zenon

(* The counter after AddUint32: unless it wrapped, or its size is a multiple *)
(* of L, the slot after this one.                                            *)
LEMMA NextTurn ==
  ASSUME NEW C \in Nat \ {0}, NEW n \in 0 .. C - 1, NEW L \in Nat, L > 0
  PROVE  LET w == (n + 1) % C
         IN  /\ w \in 0 .. C - 1
             /\ (w # 0 \/ C % L = 0) =>
                  w % L = IF n % L = L - 1 THEN 0 ELSE (n % L) + 1
<1> DEFINE w == (n + 1) % C
           next == IF n % L = L - 1 THEN 0 ELSE (n % L) + 1
<1>0. n \in Nat
  OBVIOUS
<1>n. (n + 1) % L = next
  BY <1>0, NextSlot, Zenon
<1> HIDE DEF next
<1>1. CASE n + 1 < C
  <2>1. w = n + 1
    <3>1. n + 1 = C * 0 + (n + 1) /\ n + 1 \in 0 .. C - 1
      BY <1>1
    <3>2. (C * 0 + (n + 1)) % C = n + 1
      BY <3>1, RemainderIs
    <3> QED
      BY <3>1, <3>2, Zenon
  <2>2. w \in 0 .. C - 1
    BY <1>1, <2>1
  <2>3. w % L = next
    BY <1>n, <2>1, Zenon
  <2> HIDE DEF w
  <2> QED
    BY <2>2, <2>3, Zenon DEF w, next
<1>2. CASE n + 1 = C
  <2>1. w = 0
    <3>1. n + 1 = C * 1 + 0 /\ 0 \in 0 .. C - 1
      BY <1>2
    <3>2. (C * 1 + 0) % C = 0
      BY <3>1, RemainderIs
    <3> QED
      BY <3>1, <3>2, Zenon
  <2>2. 0 % L = 0
    <3>1. 0 = L * 0 + 0 /\ 0 \in 0 .. L - 1
      OBVIOUS
    <3>2. (L * 0 + 0) % L = 0
      BY <3>1, RemainderIs
    <3> QED
      BY <3>1, <3>2, Zenon
  <2>3. C % L = next
    BY <1>n, <1>2, Zenon
  <2>4. w \in 0 .. C - 1
    BY <2>1
  <2>5. C % L = 0 => w % L = next
    BY <2>1, <2>2, <2>3, Zenon
  <2> HIDE DEF w
  <2> QED
    BY <2>1, <2>4, <2>5, Zenon DEF w, next
<1> QED
  BY <1>1, <1>2


(* One turn further, a slot was tried one turn earlier, but for the one just *)
(* tried.                                                                    *)
LEMMA BackMoves ==
  ASSUME NEW L \in Nat, NEW m \in 0 .. L - 1, NEW r \in 0 .. L - 1,
         NEW n, n = IF m = L - 1 THEN 0 ELSE m + 1
  PROVE  /\ n \in 0 .. L - 1
         /\ Back(n, r, L) = IF r = n THEN 0 ELSE Back(m, r, L) + 1
  BY DEF Back

\* Every slot was tried less than L turns ago.
LEMMA BackBounded ==
  ASSUME NEW L \in Nat, NEW m \in 0 .. L - 1, NEW r \in 0 .. L - 1
  PROVE  Back(m, r, L) \in 0 .. L - 1
  BY DEF Back

\* A turn of pickSlave that finds its slave unhealthy keeps TriedInv.
LEMMA TurnTried ==
  ASSUME ReadShape, op.at = "pick", More, TriedInv, nextSlave \in 0 .. CounterSize - 1,
         NEW n, n = (nextSlave + 1) % CounterSize,
         ~healthy[op.snap[(n % Len(op.snap)) + 1]],
         nextSlave' = n,
         op' = [op EXCEPT !.i = @ + 1, !.seen = @ \cup (IF n = 0 THEN {"wrap"} ELSE {})]
  PROVE  TriedInv'
<1> DEFINE L == Len(op.snap)
<1>1. L \in Nat /\ op.i \in 1 .. L /\ L > 0 /\ CounterSize \in Nat \ {0}
  <2>1. op.snap \in Seq(Node) /\ op.i \in 1 .. Len(op.snap) + 1
    BY Zenon DEF ReadShape
  <2>2. CounterSize \in Nat \ {0}
    BY ClusterAssumption, Zenon
  <2>3. op.i <= Len(op.snap)
    BY Zenon DEF More
  <2>4. L \in Nat
    BY <2>1
  <2> QED
    BY <2>1, <2>2, <2>3, <2>4
<1>2. /\ op'.snap = op.snap /\ op'.i = op.i + 1 /\ op'.steady = op.steady
      /\ op'.seen = op.seen \cup (IF n = 0 THEN {"wrap"} ELSE {})
  <2> DEFINE more == IF n = 0 THEN {"wrap"} ELSE {}
  <2> HIDE DEF more
  <2>1. op = [at |-> op.at, snap |-> op.snap, i |-> op.i, acc |-> op.acc, hash |-> op.hash,
              node |-> op.node, counted |-> op.counted, seen |-> op.seen, steady |-> op.steady]
    BY Zenon DEF ReadShape
  <2>2. op' = [op EXCEPT !.i = @ + 1, !.seen = @ \cup more]
    BY Zenon DEF more
  <2>3. op' = [at |-> op.at, snap |-> op.snap, i |-> op.i + 1, acc |-> op.acc, hash |-> op.hash,
               node |-> op.node, counted |-> op.counted, seen |-> op.seen \cup more,
               steady |-> op.steady]
    BY <2>1, <2>2, Zenon
  <2> QED
    BY <2>3, Zenon DEF more
<1>3. Len(op'.snap) = L
  BY <1>2, Zenon
<1>4. nextSlave % L \in 0 .. L - 1
  BY <1>1, SMTT(30)
<1>5. (n # 0 \/ CounterSize % L = 0) =>
         n % L = IF nextSlave % L = L - 1 THEN 0 ELSE (nextSlave % L) + 1
  <2> HIDE DEF L
  <2> QED
    BY <1>1, NextTurn, Zenon
<1> SUFFICES ASSUME "other" \notin op'.seen,
                    "wrap" \notin op'.seen \/ CounterSize % L = 0,
                    NEW r \in 0 .. L - 1, op.snap[r + 1] \in op.steady
             PROVE  Back(n % L, r, L) >= op'.i - 1
  BY <1>2, <1>3, Zenon DEF TriedInv
<1>6. n # 0 \/ CounterSize % L = 0
  BY <1>2, Zenon
<1>7. "other" \notin op.seen /\ ("wrap" \notin op.seen \/ CounterSize % L = 0)
  BY <1>2, Zenon
<1>8. Back(nextSlave % L, r, L) >= op.i - 1
  BY <1>7, Zenon DEF TriedInv
<1>9. r # n % L
  BY Zenon DEF ReadShape
<1>10. Back(n % L, r, L) = Back(nextSlave % L, r, L) + 1
  <2> HIDE DEF L
  <2> DEFINE m == nextSlave % L
             k == n % L
  <2>1. k = IF m = L - 1 THEN 0 ELSE m + 1
    BY <1>5, <1>6, Zenon
  <2>2. m \in 0 .. L - 1 /\ r # k
    BY <1>4, <1>9, Zenon
  <2> HIDE DEF m, k
  <2>3. Back(k, r, L) = Back(m, r, L) + 1
    BY <1>1, <2>1, <2>2, BackMoves, Zenon
  <2> QED
    BY <2>3, Zenon DEF m, k
<1>11. Back(nextSlave % L, r, L) \in Int
  <2> HIDE DEF L
  <2> DEFINE m == nextSlave % L
  <2> HIDE DEF m
  <2>1. m \in 0 .. L - 1
    BY <1>4, Zenon DEF m
  <2>2. Back(m, r, L) \in 0 .. L - 1
    BY <1>1, <2>1, BackBounded, Zenon
  <2> QED
    BY <2>2 DEF m
<1> DEFINE b == Back(nextSlave % L, r, L)
           b1 == Back(n % L, r, L)
<1>12. b >= op.i - 1 /\ b1 = b + 1 /\ b \in Int /\ op.i \in Int /\ op'.i = op.i + 1
  BY <1>1, <1>2, <1>8, <1>10, <1>11
<1> HIDE DEF L, b, b1
<1>13. b1 >= op'.i - 1
  BY <1>12
<1> QED
  BY <1>13, Zenon DEF b1


\* The operation of a read in full, to see what an update leaves of it.
LEMMA ReadFields ==
  ASSUME ReadShape
  PROVE  /\ op = [at |-> op.at, snap |-> op.snap, i |-> op.i, acc |-> op.acc, hash |-> op.hash,
                  node |-> op.node, counted |-> op.counted, seen |-> op.seen,
                  steady |-> op.steady]
         /\ op.at \in Reading /\ op.snap \in Seq(Node) /\ Len(op.snap) \in Nat
         /\ op.i \in 1 .. Len(op.snap) + 1
         /\ \A n \in op.steady : n \in Range(op.snap) /\ healthy[n]
         /\ op # Quiet
<1>0. op.snap \in Seq(Node) /\ op.at \in Reading
  BY Zenon DEF ReadShape
<1>1. op.snap \in Seq(Node) /\ op.at # "idle"
  BY <1>0, Zenon DEF Reading
<1>2. Len(op.snap) \in Nat
  BY <1>1
<1>3. op # Quiet
  <2>1. Quiet.at = "idle"
    BY Zenon DEF Quiet
  <2> QED
    BY <1>1, <2>1, Zenon
<1> QED
  BY <1>1, <1>2, <1>3, Zenon DEF ReadShape

(* What happens during a read beside its own steps: a flag changes, which    *)
(* takes the node out of steady, or others move the counter, which is seen.  *)
LEMMA ReadDisturbed ==
  ASSUME ReadInv, mode = "master_slave", mode' = mode, op # Quiet,
         nextSlave' \in 0 .. CounterSize - 1,
         NEW seen, NEW steady, op' = [op EXCEPT !.steady = steady, !.seen = seen],
         op.seen \subseteq seen, "wrap" \in seen => "wrap" \in op.seen,
         steady \subseteq op.steady, \A n \in steady : healthy'[n],
         \A n \in Range(op.snap) : healthy[n] => healthy'[n] \/ "down" \in seen,
         nextSlave' = nextSlave \/ "other" \in seen
  PROVE  ReadInv'
<1>1. /\ ReadShape /\ FallbackExplained /\ PickedInv
      /\ (op.at = "pick" /\ Len(op.snap) > 0) => TriedInv
  BY Zenon DEF ReadInv
<1>2. op' = [at |-> op.at, snap |-> op.snap, i |-> op.i, acc |-> op.acc, hash |-> op.hash,
             node |-> op.node, counted |-> op.counted, seen |-> seen, steady |-> steady]
  BY <1>1, ReadFields, Zenon
<1>3. \A n \in steady : n \in Range(op.snap) /\ healthy'[n]
  BY <1>1, ReadFields, Zenon
<1>4. /\ ReadShape' /\ op'.at = op.at /\ op'.snap = op.snap /\ op'.i = op.i
      /\ op'.node = op.node /\ op'.seen = seen /\ op'.steady = steady
  <2>1. /\ op.at \in Reading /\ op.snap \in Seq(Node)
        /\ op.i \in 1 .. Len(op.snap) + 1
    BY <1>1, ReadFields, Zenon
  <2>2. /\ op'.at = op.at /\ op'.snap = op.snap /\ op'.i = op.i /\ op'.acc = op.acc
        /\ op'.hash = op.hash /\ op'.node = op.node /\ op'.counted = op.counted
        /\ op'.seen = seen /\ op'.steady = steady
    BY <1>2, Zenon
  <2>3. op' = [at |-> op'.at, snap |-> op'.snap, i |-> op'.i, acc |-> op'.acc,
               hash |-> op'.hash, node |-> op'.node, counted |-> op'.counted,
               seen |-> op'.seen, steady |-> op'.steady]
    BY <1>2, <2>2, Zenon
  <2> QED
    BY <1>3, <2>1, <2>2, <2>3, Zenon DEF ReadShape
<1>5. FallbackExplained' /\ PickedInv'
  BY <1>1, <1>4, Zenon DEF FallbackExplained, PickedInv, Excused
<1>6. ASSUME op.at = "pick", Len(op.snap) > 0 PROVE TriedInv'
  <2>1. TriedInv
    BY <1>1, <1>6, Zenon
  <2>2. CASE "other" \in seen
    BY <1>4, <2>2, Zenon DEF TriedInv
  <2>3. CASE nextSlave' = nextSlave /\ "other" \notin seen
    BY <1>4, <2>1, <2>3, Zenon DEF TriedInv
  <2> QED
    BY <2>2, <2>3, Zenon
<1> QED
  BY <1>4, <1>5, <1>6, Zenon DEF ReadInv

\* A flag that is stored during a read.
LEMMA FlagRead ==
  ASSUME ReadInv, ClockInv, NEW n, NEW h \in BOOLEAN, Flag(n, h), UNCHANGED <<mode, nextSlave>>
  PROVE  ReadInv'
<1> SUFFICES ASSUME mode = "master_slave" PROVE ReadInv'
  BY Zenon DEF ReadInv
<1>1. nextSlave' \in 0 .. CounterSize - 1 /\ nextSlave' = nextSlave /\ mode' = mode
  BY Zenon DEF ReadInv
<1>2. op' = Witnessed(n, h) /\ healthy' = [healthy EXCEPT ![n] = h]
  BY Zenon DEF Flag
<1>3. CASE op = Quiet
  <2>1. op' = Quiet
    BY <1>2, <1>3, Zenon DEF Witnessed
  <2> QED
    BY <1>1, <2>1, Zenon DEF ReadInv
<1>4. CASE op # Quiet
  <2>1. ReadShape
    BY <1>4, Zenon DEF ReadInv
  <2>0. \A m \in Range(op.snap) : m \in Node
    BY <2>1, ReadFields DEF Range
  <2>2. \A m \in op.steady : m \in Range(op.snap) /\ m \in Node /\ healthy[m]
    BY <2>0, <2>1, ReadFields, Zenon
  <2>3. healthy \in [Node -> BOOLEAN]
    BY Zenon DEF ClockInv
  <2>4. \A m \in Node : m # n => healthy'[m] = healthy[m]
    BY <1>2, <2>3, Zenon
  <2>5. CASE healthy[n] = h
    <3>1. op' = op
      BY <1>2, <2>5, Zenon DEF Witnessed
    <3>2. healthy' = healthy
      <4>1. \A m \in Node : healthy'[m] = healthy[m]
        BY <1>2, <2>3, <2>5, Zenon
      <4> QED
        BY <1>2, <2>3, <4>1, Zenon
    <3> QED
      BY <1>1, <3>1, <3>2, Zenon DEF ReadInv, ReadShape, FallbackExplained, PickedInv, Excused,
                                      TriedInv
  <2>6. CASE n \notin Range(op.snap)
    <3>1. op' = [op EXCEPT !.steady = op.steady, !.seen = op.seen]
      BY <1>2, <2>1, <2>6, ReadFields, Zenon DEF Witnessed
    <3>2. \A m \in op.steady : healthy'[m]
      BY <2>2, <2>4, <2>6, Zenon
    <3>3. \A m \in Range(op.snap) : healthy[m] => healthy'[m]
      BY <2>0, <2>4, <2>6, Zenon
    <3> QED
      BY <1>1, <1>4, <3>1, <3>2, <3>3, ReadDisturbed, Zenon
  <2>7. CASE healthy[n] # h /\ n \in Range(op.snap)
    <3> DEFINE steady == op.steady \ {n}
               seen == op.seen \cup {IF h THEN "up" ELSE "down"}
    <3>1. op' = [op EXCEPT !.steady = steady, !.seen = seen]
      BY <1>2, <1>4, <2>7, Zenon DEF Witnessed
    <3>2. \A m \in steady : healthy'[m]
      BY <2>2, <2>4, Zenon
    <3>3. /\ op.seen \subseteq seen /\ ("wrap" \in seen => "wrap" \in op.seen)
          /\ steady \subseteq op.steady
      BY Zenon
    <3>4. \A m \in Range(op.snap) : healthy[m] => healthy'[m] \/ "down" \in seen
      <4>1. CASE h = TRUE
        BY <1>2, <2>0, <2>3, <2>4, <4>1, Zenon
      <4>2. CASE h = FALSE
        BY <4>2, Zenon
      <4> QED
        BY <4>1, <4>2, Zenon
    <3> HIDE DEF steady, seen
    <3> QED
      BY <1>1, <1>4, <3>1, <3>2, <3>3, <3>4, ReadDisturbed, Zenon
  <2> QED
    BY <2>5, <2>6, <2>7, Zenon
<1> QED
  BY <1>3, <1>4, Zenon


\* A read that has tried every slot of its snapshot explains its fallback.
LEMMA AllTried ==
  ASSUME ReadShape, op.at = "pick", ~More, nextSlave \in 0 .. CounterSize - 1,
         Len(op.snap) > 0 => TriedInv, NEW s \in op.steady
  PROVE  \/ "other" \in op.seen
         \/ "wrap" \in op.seen /\ CounterSize % Len(op.snap) # 0
<1> DEFINE L == Len(op.snap)
<1>1. op.snap \in Seq(Node) /\ L \in Nat /\ op.i \in 1 .. L + 1 /\ s \in Range(op.snap)
  BY ReadFields, Zenon
<1>2. op.i = L + 1
  BY <1>1 DEF More
<1>3. PICK j \in 1 .. L : op.snap[j] = s
  BY <1>1 DEF Range
<1>4. L > 0 /\ j - 1 \in 0 .. L - 1 /\ (j - 1) + 1 = j
  BY <1>1, <1>3
<1>5. nextSlave % L \in 0 .. L - 1
  <2>1. nextSlave \in Nat
    BY ClusterAssumption
  <2> HIDE DEF L
  <2> QED
    BY <1>1, <1>4, <2>1
<1> SUFFICES ASSUME "other" \notin op.seen, "wrap" \notin op.seen \/ CounterSize % L = 0
             PROVE  FALSE
  BY Zenon
<1> DEFINE b == Back(nextSlave % L, j - 1, L)
<1>6. b >= op.i - 1
  <2>1. \A r \in 0 .. L - 1 :
          op.snap[r + 1] \in op.steady => Back(nextSlave % L, r, L) >= op.i - 1
    BY <1>4, Zenon DEF TriedInv
  <2>2. op.snap[(j - 1) + 1] \in op.steady
    BY <1>3, <1>4, Zenon
  <2> QED
    BY <1>4, <2>1, <2>2, Zenon
<1>7. b \in 0 .. L - 1
  <2> DEFINE m == nextSlave % L
             r == j - 1
  <2>1. m \in 0 .. L - 1 /\ r \in 0 .. L - 1
    BY <1>4, <1>5, Zenon
  <2> HIDE DEF L, m, r
  <2>2. Back(m, r, L) \in 0 .. L - 1
    BY <1>1, <2>1, BackBounded, Zenon
  <2> QED
    BY <2>2, Zenon DEF m, r
<1> HIDE DEF b, L
<1> QED
  BY <1>1, <1>2, <1>6, <1>7

\* A turn of pickSlave.
LEMMA PickRead ==
  ASSUME ReadInv, mode = "master_slave", pickSlave
  PROVE  ReadInv'
<1> DEFINE L == Len(op.snap)
           n == (nextSlave + 1) % CounterSize
           s == op.snap[(n % L) + 1]
<1>1. op.at = "pick" /\ UNCHANGED <<mode, healthy>>
  BY Zenon DEF pickSlave, CallerStep, monitorVars
<1>2. op # Quiet
  <2>1. Quiet.at = "idle"
    BY Zenon DEF Quiet
  <2> QED
    BY <1>1, <2>1, Zenon
<1>3. /\ nextSlave \in 0 .. CounterSize - 1 /\ ReadShape /\ op.node = None
      /\ Len(op.snap) > 0 => TriedInv
  BY <1>1, <1>2, Zenon DEF ReadInv, PickedInv
<1>4. /\ op = [at |-> op.at, snap |-> op.snap, i |-> op.i, acc |-> op.acc, hash |-> op.hash,
               node |-> op.node, counted |-> op.counted, seen |-> op.seen,
               steady |-> op.steady]
      /\ op.snap \in Seq(Node) /\ L \in Nat /\ op.i \in 1 .. L + 1
      /\ \A m \in op.steady : m \in Range(op.snap) /\ healthy[m]
  BY <1>3, ReadFields, Zenon
<1>5. ASSUME NEW at, NEW i, NEW node, NEW seen, at \in Reading, i \in 1 .. L + 1,
             op' = [at |-> at, snap |-> op.snap, i |-> i, acc |-> op.acc, hash |-> op.hash,
                    node |-> node, counted |-> op.counted, seen |-> seen, steady |-> op.steady]
      PROVE  /\ ReadShape' /\ op'.at = at /\ op'.snap = op.snap /\ op'.node = node
             /\ op'.seen = seen /\ op'.steady = op.steady
  <2>1. /\ op'.at = at /\ op'.snap = op.snap /\ op'.i = i /\ op'.acc = op.acc
        /\ op'.hash = op.hash /\ op'.node = node /\ op'.counted = op.counted
        /\ op'.seen = seen /\ op'.steady = op.steady
    BY <1>5, Zenon
  <2>2. op' = [at |-> op'.at, snap |-> op'.snap, i |-> op'.i, acc |-> op'.acc,
               hash |-> op'.hash, node |-> op'.node, counted |-> op'.counted,
               seen |-> op'.seen, steady |-> op'.steady]
    BY <1>5, <2>1, Zenon
  <2> QED
    BY <1>1, <1>4, <1>5, <2>1, <2>2, Zenon DEF ReadShape
<1>6. CASE More /\ healthy[s]
  <2>1. nextSlave' = n /\ op' = [op EXCEPT !.at = "picked", !.node = s]
    BY <1>6, Zenon DEF pickSlave
  <2>2. /\ L > 0 /\ op.i \in 1 .. L + 1
    BY <1>4, <1>6 DEF More
  <2>3. n \in 0 .. CounterSize - 1
    <3>1. CounterSize \in Nat \ {0}
      BY ClusterAssumption, Zenon
    <3> HIDE DEF L
    <3> QED
      BY <1>3, <1>4, <2>2, <3>1, NextTurn, Zenon
  <2>4. s # None /\ s \in Range(op.snap)
    <3>1. n % L \in 0 .. L - 1
      <4>1. n \in Nat
        BY <2>3, ClusterAssumption
      <4> HIDE DEF L, n
      <4> QED
        BY <1>4, <2>2, <4>1
    <3>2. s \in Node /\ s \in Range(op.snap)
      <4> DEFINE k == n % L
      <4>1. k + 1 \in 1 .. L
        BY <1>4, <3>1
      <4> HIDE DEF k
      <4>2. op.snap[k + 1] \in Node /\ op.snap[k + 1] \in Range(op.snap)
        BY <1>4, <4>1 DEF Range
      <4> QED
        BY <4>2, Zenon DEF k
    <3> QED
      BY <3>2, ConfigFacts, Zenon
  <2> HIDE DEF s, n
  <2>5. op' = [at |-> "picked", snap |-> op.snap, i |-> op.i, acc |-> op.acc, hash |-> op.hash,
               node |-> s, counted |-> op.counted, seen |-> op.seen, steady |-> op.steady]
    BY <1>4, <2>1, Zenon
  <2>6. ReadShape' /\ op'.at = "picked" /\ op'.node = s
    BY <1>5, <2>2, <2>5 DEF Reading
  <2>7. FallbackExplained' /\ PickedInv' /\ op'.at # "pick"
    BY <1>1, <1>6, <2>4, <2>5, <2>6, Zenon DEF FallbackExplained, PickedInv
  <2> QED
    BY <1>1, <2>1, <2>3, <2>6, <2>7, Zenon DEF ReadInv
<1>7. CASE More /\ ~healthy[s]
  <2> DEFINE seen == op.seen \cup (IF n = 0 THEN {"wrap"} ELSE {})
  <2>1. /\ nextSlave' = n
        /\ op' = [op EXCEPT !.i = @ + 1, !.seen = @ \cup (IF n = 0 THEN {"wrap"} ELSE {})]
    BY <1>7, Zenon DEF pickSlave
  <2>2. L > 0 /\ op.i + 1 \in 1 .. L + 1
    BY <1>4, <1>7 DEF More
  <2>3. n \in 0 .. CounterSize - 1
    <3>1. CounterSize \in Nat \ {0}
      BY ClusterAssumption, Zenon
    <3> HIDE DEF L
    <3> QED
      BY <1>3, <1>4, <2>2, <3>1, NextTurn, Zenon
  <2>4. TriedInv'
    <3> HIDE DEF n
    <3>1. n = (nextSlave + 1) % CounterSize
      BY Zenon DEF n
    <3> QED
      BY <1>1, <1>3, <1>7, <2>1, <2>2, <3>1, TurnTried, Zenon
  <2>5. op' = [at |-> "pick", snap |-> op.snap, i |-> op.i + 1, acc |-> op.acc, hash |-> op.hash,
               node |-> op.node, counted |-> op.counted, seen |-> seen, steady |-> op.steady]
    BY <1>1, <1>4, <2>1, Zenon
  <2> HIDE DEF seen
  <2>6. ReadShape' /\ op'.at = "pick"
    BY <1>5, <2>2, <2>5 DEF Reading
  <2>7. FallbackExplained' /\ PickedInv'
    BY <1>3, <2>5, <2>6, Zenon DEF FallbackExplained, PickedInv
  <2> QED
    BY <1>1, <2>1, <2>3, <2>4, <2>6, <2>7, Zenon DEF ReadInv
<1>8. CASE ~More
  <2>1. nextSlave' = nextSlave /\ op' = [op EXCEPT !.at = "picked"]
    BY <1>8, Zenon DEF pickSlave
  <2>2. op' = [at |-> "picked", snap |-> op.snap, i |-> op.i, acc |-> op.acc, hash |-> op.hash,
               node |-> op.node, counted |-> op.counted, seen |-> op.seen, steady |-> op.steady]
    BY <1>4, <2>1, Zenon
  <2>3. /\ ReadShape' /\ op'.at = "picked" /\ op'.snap = op.snap /\ op'.seen = op.seen
        /\ op'.steady = op.steady
    BY <1>4, <1>5, <2>2 DEF Reading
  <2>4. op.steady # {} => \/ "other" \in op.seen
                          \/ "wrap" \in op.seen /\ CounterSize % Len(op.snap) # 0
    BY <1>1, <1>3, <1>8, AllTried, Zenon
  <2>5. FallbackExplained' /\ PickedInv' /\ op'.at # "pick"
    BY <1>3, <2>2, <2>3, <2>4, Zenon DEF FallbackExplained, PickedInv, Excused
  <2> QED
    BY <1>1, <1>3, <2>1, <2>3, <2>5, Zenon DEF ReadInv
<1> QED
  BY <1>6, <1>7, <1>8, Zenon


\* A read starts: no slot was tried, and steady is what is healthy.
LEMMA GetRead ==
  ASSUME ReadInv, NodesInv, mode = "master_slave", Get
  PROVE  ReadInv'
<1> DEFINE steady == {n \in Range(list) : healthy[n]}
<1>1. /\ op' = [at |-> "pick", snap |-> list, i |-> 1, acc |-> 0, hash |-> 0,
                node |-> None, counted |-> {}, seen |-> {}, steady |-> steady]
      /\ UNCHANGED <<mode, healthy, nextSlave>>
  BY Zenon DEF Get, Begin, monitorVars
<1>2. list \in Seq(Node) /\ Len(list) \in Nat
  BY DEF NodesInv
<1>3. \A n \in steady : n \in Range(list) /\ healthy'[n]
  BY <1>1, Zenon
<1> HIDE DEF steady
<1>4. /\ op'.at = "pick" /\ op'.snap = list /\ op'.i = 1 /\ op'.acc = 0 /\ op'.hash = 0
      /\ op'.node = None /\ op'.counted = {} /\ op'.seen = {} /\ op'.steady = steady
  BY <1>1, Zenon
<1>5. op' = [at |-> op'.at, snap |-> op'.snap, i |-> op'.i, acc |-> op'.acc,
             hash |-> op'.hash, node |-> op'.node, counted |-> op'.counted,
             seen |-> op'.seen, steady |-> op'.steady]
  BY <1>1, <1>4, Zenon
<1>6. ReadShape'
  <2>1. 1 \in 1 .. Len(list) + 1
    BY <1>2
  <2> QED
    BY <1>2, <1>3, <1>4, <1>5, <2>1, Zenon DEF ReadShape, Reading
<1>7. FallbackExplained' /\ PickedInv'
  BY <1>1, <1>4, Zenon DEF FallbackExplained, PickedInv
<1>8. nextSlave' \in 0 .. CounterSize - 1
  BY <1>1, Zenon DEF ReadInv
<1>9. Len(list) > 0 => TriedInv'
  <2> DEFINE L == Len(list)
             m == nextSlave' % L
  <2> SUFFICES ASSUME L > 0, NEW r \in 0 .. L - 1 PROVE Back(m, r, L) >= op'.i - 1
    BY <1>4, Zenon DEF TriedInv
  <2>1. nextSlave' \in Nat
    BY <1>8, ClusterAssumption
  <2>2. m \in 0 .. L - 1
    <3> HIDE DEF L
    <3>1. L \in Nat
      BY <1>2, Zenon DEF L
    <3> QED
      BY <2>1, <3>1, RemainderOf, Zenon
  <2> HIDE DEF m, L
  <2>3. Back(m, r, L) \in 0 .. L - 1
    BY <1>2, <2>2, BackBounded, Zenon DEF L
  <2> QED
    BY <1>4, <2>3
<1> QED
  BY <1>4, <1>6, <1>7, <1>8, <1>9, Zenon DEF ReadInv

\* Another reader advances the counter.
LEMMA OtherReadSeen ==
  ASSUME ReadInv, mode = "master_slave", OtherRead
  PROVE  ReadInv'
<1>1. /\ nextSlave' = (nextSlave + 1) % CounterSize /\ UNCHANGED <<mode, healthy>>
      /\ op' = IF op = Quiet THEN op ELSE [op EXCEPT !.seen = @ \cup {"other"}]
  BY Zenon DEF OtherRead, CallerStep, monitorVars
<1>2. nextSlave' \in 0 .. CounterSize - 1
  <2>1. CounterSize \in Nat \ {0} /\ nextSlave \in 0 .. CounterSize - 1
    BY ClusterAssumption, Zenon DEF ReadInv
  <2> QED
    BY <1>1, <2>1
<1>3. CASE op = Quiet
  BY <1>1, <1>2, <1>3, Zenon DEF ReadInv
<1>4. CASE op # Quiet
  <2> DEFINE seen == op.seen \cup {"other"}
  <2>0. ReadShape
    BY <1>4, Zenon DEF ReadInv
  <2>1. op' = [op EXCEPT !.steady = op.steady, !.seen = seen]
    BY <1>1, <1>4, <2>0, ReadFields, Zenon
  <2>2. /\ op.seen \subseteq seen /\ "other" \in seen /\ ("wrap" \in seen => "wrap" \in op.seen)
    BY Zenon
  <2>3. /\ \A n \in op.steady : healthy'[n]
        /\ \A n \in Range(op.snap) : healthy[n] => healthy'[n]
    BY <1>1, <2>0, ReadFields, Zenon
  <2> HIDE DEF seen
  <2> QED
    BY <1>1, <1>2, <1>4, <2>1, <2>2, <2>3, ReadDisturbed, Zenon
<1> QED
  BY <1>3, <1>4, Zenon

\* What ReadInv speaks of, unchanged.
LEMMA ReadUntouched ==
  ASSUME ReadInv, UNCHANGED <<mode, healthy, nextSlave, op>>
  PROVE  ReadInv'
  BY Zenon DEF ReadInv, ReadShape, FallbackExplained, PickedInv, Excused, TriedInv

\* Get loads the flag of its slave again, or the master, or the master's flag.
LEMMA ServeRead ==
  ASSUME ReadInv, mode = "master_slave", UseSlave \/ LoadMaster \/ TestNode
  PROVE  ReadInv'
<1>1. op.at \in {"picked", "fallback", "master"}
  BY Zenon DEF UseSlave, LoadMaster, TestNode
<1>2. op # Quiet
  <2>1. Quiet.at = "idle"
    BY Zenon DEF Quiet
  <2> QED
    BY <1>1, <2>1, Zenon
<1>3. /\ ReadShape /\ PickedInv /\ nextSlave \in 0 .. CounterSize - 1
  BY <1>2, Zenon DEF ReadInv
<1>4. UNCHANGED <<mode, healthy, nextSlave>>
  BY Zenon DEF UseSlave, LoadMaster, TestNode, CallerStep, monitorVars
<1>5. ASSUME NEW at \in {"fallback", "master", "answer"}, NEW node,
             op' = [op EXCEPT !.at = at, !.node = node]
      PROVE  /\ ReadShape' /\ op'.at = at /\ op'.snap = op.snap /\ op'.node = node
             /\ op'.seen = op.seen /\ op'.steady = op.steady
             /\ op'.at # "pick" /\ op'.at # "picked"
  <2>1. op' = [at |-> at, snap |-> op.snap, i |-> op.i, acc |-> op.acc, hash |-> op.hash,
               node |-> node, counted |-> op.counted, seen |-> op.seen, steady |-> op.steady]
    BY <1>3, <1>5, ReadFields, Zenon
  <2>2. /\ op'.at = at /\ op'.snap = op.snap /\ op'.i = op.i /\ op'.acc = op.acc
        /\ op'.hash = op.hash /\ op'.node = node /\ op'.counted = op.counted
        /\ op'.seen = op.seen /\ op'.steady = op.steady
    BY <2>1, Zenon
  <2>3. op' = [at |-> op'.at, snap |-> op'.snap, i |-> op'.i, acc |-> op'.acc,
               hash |-> op'.hash, node |-> op'.node, counted |-> op'.counted,
               seen |-> op'.seen, steady |-> op'.steady]
    BY <2>1, <2>2, Zenon
  <2>4. /\ op.snap \in Seq(Node) /\ op.i \in 1 .. Len(op.snap) + 1
        /\ \A n \in op.steady : n \in Range(op.snap) /\ healthy[n]
    BY <1>3, ReadFields, Zenon
  <2>5. at \in Reading
    BY Zenon DEF Reading
  <2> QED
    BY <1>4, <2>2, <2>3, <2>4, <2>5, Zenon DEF ReadShape
<1>6. CASE UseSlave
  <2> DEFINE at == IF op.node # None /\ healthy[op.node] THEN "answer" ELSE "fallback"
  <2>1. op.at = "picked" /\ op' = [op EXCEPT !.at = at]
    BY <1>6, Zenon DEF UseSlave
  <2>2. op' = [op EXCEPT !.at = at, !.node = op.node]
    BY <1>3, <2>1, ReadFields, Zenon
  <2>3. at \in {"fallback", "master", "answer"}
    BY Zenon
  <2>4. at = "fallback" => op.node = None \/ ~healthy[op.node]
    BY Zenon
  <2> HIDE DEF at
  <2>5. /\ ReadShape' /\ op'.at = at /\ op'.snap = op.snap /\ op'.node = op.node
        /\ op'.seen = op.seen /\ op'.steady = op.steady
        /\ op'.at # "pick" /\ op'.at # "picked"
    BY <1>5, <2>2, <2>3, Zenon
  <2>6. \A n \in op.steady : healthy[n]
    BY <1>3, ReadFields, Zenon
  <2>7. FallbackExplained'
    BY <1>3, <2>1, <2>4, <2>5, <2>6, Zenon DEF FallbackExplained, PickedInv, Excused
  <2> QED
    BY <1>3, <1>4, <2>5, <2>7, Zenon DEF ReadInv, PickedInv
<1>7. ASSUME NEW at \in {"master", "answer"}, NEW node,
             op' = [op EXCEPT !.at = at, !.node = node]
      PROVE  ReadInv'
  <2>1. at # "fallback" /\ at \in {"fallback", "master", "answer"}
    BY Zenon
  <2> QED
    BY <1>3, <1>4, <1>5, <1>7, <2>1, Zenon DEF ReadInv, PickedInv, FallbackExplained
<1>8. CASE LoadMaster
  BY <1>7, <1>8, Zenon DEF LoadMaster
<1>9. CASE TestNode
  <2>1. op' = [op EXCEPT !.at = "answer",
                         !.node = IF op.node # None /\ healthy[op.node] THEN op.node ELSE None]
    BY <1>3, <1>9, ReadFields, Zenon DEF TestNode
  <2> QED
    BY <1>7, <2>1, Zenon
<1> QED
  BY <1>6, <1>8, <1>9, Zenon

\* Every step preserves ReadInv.
LEMMA ReadStep == NodesInv /\ ClockInv /\ ReadInv /\ [Next]_vars => ReadInv'
<1> SUFFICES ASSUME NodesInv, ClockInv, ReadInv, [Next]_vars PROVE ReadInv'
  BY Zenon
<1>1. CASE Monitor
  <2>1. ASSUME NEW n \in Node, Probe(n) PROVE ReadInv'
    BY <2>1, ProbeType, FlagRead, Zenon DEF Probe
  <2>2. CASE checkAndFailover
    BY <2>2, ProbeType, FlagRead, Zenon DEF checkAndFailover
  <2>3. CASE Relist
    BY <2>3, FlagRead, Zenon DEF Relist
  <2>4. CASE Tick \/ ProbesDone \/ tryFailover
    BY <2>4, ReadUntouched, Zenon DEF Tick, ProbesDone, tryFailover
  <2> QED
    BY <1>1, <2>1, <2>2, <2>3, <2>4, Zenon DEF Monitor
<1>2. CASE Close \/ Stop \/ CloseClients \/ Pass \/ \E n \in Node : Lose(n)
  BY <1>2, ReadUntouched, Zenon DEF Close, Stop, CloseClients, Pass, Lose, monitorVars
<1>3. CASE UNCHANGED vars
  BY <1>3, ReadUntouched, Zenon DEF vars
<1>4. CASE Caller \/ OtherRead
  <2>1. CASE mode # "master_slave"
    <3>1. mode' = mode
      BY <1>4, Zenon DEF Caller, OtherRead, Get, Route, ShardLen, Begin, pickSlave, SumWeights,
                  WalkWeights, CountNode, UseSlave, LoadMaster, TestNode,
                Finish, CallerStep, monitorVars
    <3> QED
      BY <2>1, <3>1, Zenon DEF ReadInv
  <2>2. CASE mode = "master_slave"
    <3>1. op.at \in {"idle"} \cup Reading
      <4>1. op = Quiet => op.at = "idle"
        BY DEF Quiet
      <4>2. op # Quiet => op.at \in Reading
        BY <2>2, Zenon DEF ReadInv, ReadShape
      <4> QED
        BY <4>1, <4>2, Zenon
    <3>2. ~SumWeights /\ ~WalkWeights /\ ~CountNode /\ ~ShardLen /\ \A h \in Hash : ~Route(h)
      BY <2>2, <3>1, Zenon DEF Reading, SumWeights, WalkWeights, CountNode, ShardLen, Route
    <3>3. CASE Finish
      <4>1. op' = Quiet /\ UNCHANGED <<mode, nextSlave>>
        BY <3>3, Zenon DEF Finish, CallerStep
      <4> QED
        BY <4>1, Zenon DEF ReadInv
    <3> QED
      BY <1>4, <2>2, <3>2, <3>3, GetRead, PickRead, OtherReadSeen, ServeRead, Zenon
      DEF Caller
  <2> QED
    BY <2>1, <2>2, Zenon
<1> QED
  BY <1>1, <1>2, <1>3, <1>4, Zenon DEF Next

\* No read is under way when a mode is constructed.
LEMMA ReadInit == Init => ReadInv
  BY ClusterAssumption DEF Init, ReadInv

(* FallbackExplained of pickSlave: for any number of slaves, any size of the *)
(* counter and any interleaving of probes, failovers and other readers, Get  *)
(* passes over a slave that stayed healthy only if another reader moved the  *)
(* counter, or it wrapped and its size is not a multiple of the slaves, or   *)
(* the slave it was given went down before Get loaded its flag again.        *)
THEOREM FallbacksExplained == Spec => []FallbackExplained
<1>1. ReadInv => FallbackExplained
  <2>1. op = Quiet => op.at = "idle"
    BY DEF Quiet
  <2> QED
    BY <2>1, Zenon DEF ReadInv, FallbackExplained
<1> QED
  BY NodesInit, ClockInit, ReadInit, NodesStep, ClockStep, ReadStep, <1>1, PTL DEF Spec

------------------------------------------------------------------------------
(* Routing by weight                                                        *)

INSTANCE FiniteSetTheorems

(* pickNode's first pass has come to place i: S are the places it found      *)
(* healthy, acc is their weight.  Flags have changed since only if seen says *)
(* so, and h are the flags as they are now.                                  *)
Summed(S, snap, i, acc, seen, steady, h) ==
  /\ S \subseteq 1 .. i - 1
  /\ \A k \in 0 .. i - 1 : IsFiniteSet(Shares(S \cap (1 .. k), snap))
  /\ acc = Cardinality(Shares(S \cap (1 .. i - 1), snap))
  /\ "down" \notin seen => \A j \in S : h[snap[j]]
  /\ "up" \notin seen => \A j \in 1 .. i - 1 : h[snap[j]] => j \in S
  /\ \A j \in 1 .. i - 1 : snap[j] \in steady => j \in S

(* Its second pass has come to place i: the index lies in the shares of S,   *)
(* and those of the places behind have at most acc if no node went down.     *)
Walked(S, snap, i, acc, hash, seen) ==
  /\ hash < Cardinality(Shares(S \cap (1 .. Len(snap)), snap))
  /\ acc <= hash
  /\ "down" \notin seen => Cardinality(Shares(S \cap (1 .. i - 1), snap)) <= acc
  /\ seen = {} => acc = Cardinality(Shares(S \cap (1 .. i - 1), snap))

RouteShape ==
  /\ op = [at |-> op.at, snap |-> op.snap, i |-> op.i, acc |-> op.acc, hash |-> op.hash,
           node |-> op.node, counted |-> op.counted, seen |-> op.seen, steady |-> op.steady]
  /\ op.at \in {"sum", "walk", "picked", "len", "total", "answer"}
  /\ op.snap \in Seq(Node)
  /\ op.i \in 1 .. Len(op.snap) + 1
  /\ op.acc \in Nat /\ op.hash \in Nat
  /\ \A n \in op.steady : n \in Range(op.snap) /\ healthy[n]
  /\ op.at \in {"sum", "walk"} => op.node = None

SumInv ==
  op.at = "sum" => \E S : Summed(S, op.snap, op.i, op.acc, op.seen, op.steady, healthy)

WalkInv ==
  op.at = "walk" =>
    \E S, total :
      /\ Summed(S, op.snap, Len(op.snap) + 1, total, op.seen, op.steady, healthy)
      /\ Walked(S, op.snap, op.i, op.acc, op.hash, op.seen)

RouteInv ==
  mode = "shard" => \/ op = Quiet
                    \/ RouteShape /\ RoutesByWeight /\ SumInv /\ WalkInv

\* The next place adds its weight to the shares if it is counted.
Grows(S, l, k) ==
  /\ IsFiniteSet(Shares(S \cap (1 .. k), l))
  /\ Cardinality(Shares(S \cap (1 .. k - 1), l)) \in Nat
  /\ Cardinality(Shares(S \cap (1 .. k), l))
       = Cardinality(Shares(S \cap (1 .. k - 1), l)) + IF k \in S THEN Weight[l[k]] ELSE 0

\* It does.
LEMMA NextShare ==
  ASSUME NEW S, NEW l, NEW k \in Nat \ {0}, Weight[l[k]] \in Nat,
         IsFiniteSet(Shares(S \cap (1 .. k - 1), l))
  PROVE  Grows(S, l, k)
<1> DEFINE P == S \cap (1 .. k - 1)
           Q == S \cap (1 .. k)
           block == {k} \X (1 .. Weight[l[k]])
<1>1. Cardinality(Shares(P, l)) \in Nat
  BY FS_CardinalityType, Zenon
<1>2. CASE k \notin S
  <2>1. Q = P
    BY <1>2
  <2> HIDE DEF P, Q
  <2>2. Cardinality(Shares(Q, l)) = Cardinality(Shares(P, l)) + IF k \in S THEN Weight[l[k]] ELSE 0
    BY <1>1, <1>2, <2>1
  <2> QED
    BY <1>1, <2>1, <2>2, Zenon DEF P, Q, Grows
<1>3. CASE k \in S
  <2>1. Q = P \cup {k}
    BY <1>3
  <2>2. Shares(Q, l) = Shares(P, l) \cup block
    BY <2>1, Zenon DEF Shares
  <2>3. IsFiniteSet(block) /\ Cardinality(block) = Weight[l[k]]
    <3> DEFINE T == 1 .. Weight[l[k]]
    <3>1. IsFiniteSet(T) /\ Cardinality(T) = Weight[l[k]]
      <4> DEFINE w == Weight[l[k]]
      <4>1. 1 \in Int /\ w \in Int /\ w \in Nat
        OBVIOUS
      <4> HIDE DEF w
      <4>2. IsFiniteSet(1 .. w) /\ Cardinality(1 .. w) = IF 1 > w THEN 0 ELSE w - 1 + 1
        BY <4>1, FS_Interval, Zenon
      <4>3. (IF 1 > w THEN 0 ELSE w - 1 + 1) = w
        BY <4>1
      <4> QED
        BY <4>2, <4>3 DEF w
    <3>2. IsFiniteSet({k}) /\ Cardinality({k}) = 1
      BY FS_Singleton, Zenon
    <3> HIDE DEF T
    <3>3. IsFiniteSet({k} \X T) /\ Cardinality({k} \X T) = 1 * Cardinality(T)
      BY <3>1, <3>2, FS_Product, Zenon
    <3> QED
      BY <3>1, <3>3 DEF T
  <2>4. Shares(P, l) \cap block = {}
    <3> SUFFICES ASSUME NEW x, x \in Shares(P, l), x \in block PROVE FALSE
      BY Zenon
    <3>1. PICK j \in P : x \in {j} \X (1 .. Weight[l[j]])
      BY Zenon DEF Shares
    <3>2. x[1] = j /\ x[1] = k
      BY <3>1, Zenon
    <3>3. j # k
      BY <3>1
    <3> QED
      BY <3>2, <3>3, Zenon
  <2> HIDE DEF P, Q, block
  <2>5. /\ IsFiniteSet(Shares(P, l) \cup block)
        /\ Cardinality(Shares(P, l) \cup block)
             = Cardinality(Shares(P, l)) + Cardinality(block) - Cardinality(Shares(P, l) \cap block)
    <3>1. IsFiniteSet(Shares(P, l))
      BY Zenon DEF P
    <3> QED
      BY <2>3, <3>1, FS_Union, Zenon
  <2>6. Cardinality({}) = 0
    BY FS_EmptySet, Zenon
  <2>7. /\ IsFiniteSet(Shares(Q, l))
        /\ Cardinality(Shares(Q, l)) = Cardinality(Shares(P, l)) + Weight[l[k]] - 0
    BY <2>2, <2>3, <2>4, <2>5, <2>6, Zenon
  <2>8. Cardinality(Shares(Q, l)) = Cardinality(Shares(P, l)) + Weight[l[k]]
    BY <1>1, <2>7
  <2> QED
    BY <1>1, <1>3, <2>7, <2>8, Zenon DEF P, Q, Grows
<1> QED
  BY <1>2, <1>3, Zenon

\* No shares are none.
LEMMA NoShare ==
  ASSUME NEW l, NEW k
  PROVE  Shares({} \cap k, l) = {} /\ IsFiniteSet(Shares({} \cap k, l))
         /\ Cardinality(Shares({} \cap k, l)) = 0
<1>1. Shares({} \cap k, l) = {}
  BY Zenon DEF Shares
<1> QED
  BY <1>1, FS_EmptySet, Zenon

\* Flags that change, and are seen to, leave the first pass what it knows.
LEMMA SummedKept ==
  ASSUME NEW S, NEW snap, Len(snap) \in Nat, NEW i \in 1 .. Len(snap) + 1, NEW acc,
         NEW seen, NEW steady, NEW h, NEW seen2, NEW steady2, NEW h2,
         Summed(S, snap, i, acc, seen, steady, h),
         seen \subseteq seen2, steady2 \subseteq steady,
         "down" \notin seen2 => \A j \in 1 .. Len(snap) : h[snap[j]] => h2[snap[j]],
         "up" \notin seen2 => \A j \in 1 .. Len(snap) : h2[snap[j]] => h[snap[j]]
  PROVE  Summed(S, snap, i, acc, seen2, steady2, h2)
<1>1. \A j \in 1 .. i - 1 : j \in 1 .. Len(snap)
  OBVIOUS
<1>2. S \subseteq 1 .. Len(snap)
  BY <1>1, Zenon DEF Summed
<1>3. "down" \notin seen2 => \A j \in S : h2[snap[j]]
  BY <1>2, Zenon DEF Summed
<1>4. "up" \notin seen2 => \A j \in 1 .. i - 1 : h2[snap[j]] => j \in S
  BY <1>1, Zenon DEF Summed
<1>5. \A j \in 1 .. i - 1 : snap[j] \in steady2 => j \in S
  BY Zenon DEF Summed
<1> QED
  BY <1>3, <1>4, <1>5, Zenon DEF Summed

\* A turn of the first pass.
LEMMA SummedMore ==
  ASSUME NEW S, NEW snap \in Seq(Node), NEW i \in 1 .. Len(snap), NEW acc,
         NEW seen, NEW steady, NEW h \in [Node -> BOOLEAN],
         Summed(S, snap, i, acc, seen, steady, h),
         \A n \in steady : h[n]
  PROVE  \E T : Summed(T, snap, i + 1, acc + IF h[snap[i]] THEN Weight[snap[i]] ELSE 0,
                       seen, steady, h)
<1> DEFINE T == IF h[snap[i]] THEN S \cup {i} ELSE S
<1>1. /\ S \subseteq 1 .. i - 1
      /\ \A k \in 0 .. i - 1 : IsFiniteSet(Shares(S \cap (1 .. k), snap))
      /\ acc = Cardinality(Shares(S \cap (1 .. i - 1), snap))
      /\ "down" \notin seen => \A j \in S : h[snap[j]]
      /\ "up" \notin seen => \A j \in 1 .. i - 1 : h[snap[j]] => j \in S
      /\ \A j \in 1 .. i - 1 : snap[j] \in steady => j \in S
  BY Zenon DEF Summed
<1>2. /\ i \in Nat \ {0} /\ i - 1 \in 0 .. i - 1 /\ snap[i] \in Node /\ Weight[snap[i]] \in Nat
      /\ h[snap[i]] \in BOOLEAN
  <2>1. snap[i] \in Node
    OBVIOUS
  <2> QED
    BY <2>1, ClusterAssumption
<1>3. \A k \in 0 .. i - 1 : T \cap (1 .. k) = S \cap (1 .. k)
  BY <1>2
<1>4. T \subseteq 1 .. i /\ (i \in T <=> h[snap[i]]) /\ (i + 1) - 1 = i
  <2>1. i \in 1 .. i /\ i \notin 1 .. i - 1 /\ 1 .. i - 1 \subseteq 1 .. i /\ (i + 1) - 1 = i
    BY <1>2
  <2> QED
    BY <1>1, <2>1, Zenon
<1>5. \A j : j \in T <=> j \in S \/ (j = i /\ h[snap[i]])
  BY <1>1, Zenon
<1> HIDE DEF T
<1>6. /\ IsFiniteSet(Shares(T \cap (1 .. i), snap))
      /\ Cardinality(Shares(T \cap (1 .. i), snap))
           = acc + IF h[snap[i]] THEN Weight[snap[i]] ELSE 0
  <2>1. /\ IsFiniteSet(Shares(T \cap (1 .. i - 1), snap))
        /\ Cardinality(Shares(T \cap (1 .. i - 1), snap)) = acc
    BY <1>1, <1>2, <1>3, Zenon
  <2>2. /\ IsFiniteSet(Shares(T \cap (1 .. i), snap))
        /\ Cardinality(Shares(T \cap (1 .. i), snap))
             = Cardinality(Shares(T \cap (1 .. i - 1), snap))
               + IF i \in T THEN Weight[snap[i]] ELSE 0
    <3>1. Grows(T, snap, i)
      BY <1>2, <2>1, NextShare, Zenon
    <3> QED
      BY <3>1, Zenon DEF Grows
  <2> QED
    BY <1>4, <2>1, <2>2, Zenon
<1>7. \A k \in 0 .. i : IsFiniteSet(Shares(T \cap (1 .. k), snap))
  <2>1. \A k \in 0 .. i : k = i \/ k \in 0 .. i - 1
    BY <1>2
  <2>2. \A k \in 0 .. i - 1 : IsFiniteSet(Shares(T \cap (1 .. k), snap))
    BY <1>1, <1>3, Zenon
  <2> QED
    BY <1>6, <2>1, <2>2, Zenon
<1>8. "down" \notin seen => \A j \in T : h[snap[j]]
  BY <1>1, <1>5, Zenon
<1>9. \A j \in 1 .. i : j = i \/ j \in 1 .. i - 1
  BY <1>2
<1>10. "up" \notin seen => \A j \in 1 .. i : h[snap[j]] => j \in T
  BY <1>1, <1>5, <1>9, Zenon
<1>11. \A j \in 1 .. i : snap[j] \in steady => j \in T
  BY <1>1, <1>5, <1>9, Zenon
<1>12. Summed(T, snap, i + 1, acc + IF h[snap[i]] THEN Weight[snap[i]] ELSE 0, seen, steady, h)
  BY <1>4, <1>6, <1>7, <1>8, <1>10, <1>11, Zenon DEF Summed
<1> QED
  BY <1>12, Zenon

\* If no flag changed, the first pass counted the virtual nodes.
LEMMA SummedVirtual ==
  ASSUME NEW S, NEW snap, Len(snap) \in Nat, NEW acc, NEW steady,
         Summed(S, snap, Len(snap) + 1, acc, {}, steady, healthy),
         NEW k \in 0 .. Len(snap)
  PROVE  Virtual(snap, k) = Shares(S \cap (1 .. k), snap)
<1> DEFINE H == {j \in 1 .. k : healthy[snap[j]]}
<1>1. (Len(snap) + 1) - 1 = Len(snap) /\ \A j \in 1 .. k : j \in 1 .. Len(snap)
  OBVIOUS
<1>2. /\ \A j \in S : healthy[snap[j]]
      /\ \A j \in 1 .. Len(snap) : healthy[snap[j]] => j \in S
  BY <1>1, Zenon DEF Summed
<1>3. H = S \cap (1 .. k)
  BY <1>1, <1>2, Zenon
<1> QED
  BY <1>3, Zenon DEF Virtual

\* The operation with other values at a place of pickNode.
Moved(at, i, acc, hash, node) ==
  op' = [at |-> at, snap |-> op.snap, i |-> i, acc |-> acc, hash |-> hash, node |-> node,
         counted |-> op.counted, seen |-> op.seen, steady |-> op.steady]

\* Its fields.
LEMMA MovedFields ==
  ASSUME RouteShape, NEW at, NEW i, NEW acc, NEW hash, NEW node,
         Moved(at, i, acc, hash, node), healthy' = healthy,
         at \in {"sum", "walk", "picked"}, i \in 1 .. Len(op.snap) + 1,
         acc \in Nat, hash \in Nat, at # "picked" => node = None
  PROVE  /\ RouteShape'
         /\ op'.at = at /\ op'.snap = op.snap /\ op'.i = i /\ op'.acc = acc /\ op'.hash = hash
         /\ op'.node = node /\ op'.seen = op.seen /\ op'.steady = op.steady
<1>1. /\ op'.at = at /\ op'.snap = op.snap /\ op'.i = i /\ op'.acc = acc /\ op'.hash = hash
      /\ op'.node = node /\ op'.counted = op.counted /\ op'.seen = op.seen
      /\ op'.steady = op.steady
  BY Zenon DEF Moved
<1>2. op' = [at |-> op'.at, snap |-> op'.snap, i |-> op'.i, acc |-> op'.acc,
             hash |-> op'.hash, node |-> op'.node, counted |-> op'.counted,
             seen |-> op'.seen, steady |-> op'.steady]
  BY <1>1, Zenon DEF Moved
<1>3. op.snap \in Seq(Node) /\ \A n \in op.steady : n \in Range(op.snap) /\ healthy[n]
  BY Zenon DEF RouteShape
<1>4. /\ op'.at \in {"sum", "walk", "picked", "len", "total", "answer"}
      /\ op'.at \in {"sum", "walk"} => op'.node = None
  BY <1>1, Zenon
<1>5. RouteShape'
  BY <1>1, <1>2, <1>3, <1>4, Zenon DEF RouteShape
<1> QED
  BY <1>1, <1>5, Zenon

\* A shard operation that is under way.
LEMMA RouteFields ==
  ASSUME RouteShape
  PROVE  /\ op = [at |-> op.at, snap |-> op.snap, i |-> op.i, acc |-> op.acc, hash |-> op.hash,
                  node |-> op.node, counted |-> op.counted, seen |-> op.seen,
                  steady |-> op.steady]
         /\ op.snap \in Seq(Node) /\ Len(op.snap) \in Nat /\ op.i \in 1 .. Len(op.snap) + 1
         /\ op.acc \in Nat /\ op.hash \in Nat
         /\ \A n \in op.steady : n \in Range(op.snap) /\ healthy[n]
         /\ op.at \in {"sum", "walk"} => op.node = None
         /\ op # Quiet
<1>1. op.snap \in Seq(Node) /\ op.at \in {"sum", "walk", "picked", "len", "total", "answer"}
  BY Zenon DEF RouteShape
<1>2. Len(op.snap) \in Nat
  BY <1>1
<1>3. op # Quiet
  <2>1. Quiet.at = "idle"
    BY Zenon DEF Quiet
  <2> QED
    BY <1>1, <2>1, Zenon
<1> QED
  BY <1>1, <1>2, <1>3, Zenon DEF RouteShape

\* A turn of the first pass, or its end.
LEMMA SumRoute ==
  ASSUME RouteShape, SumInv, healthy \in [Node -> BOOLEAN], mode = "shard", SumWeights
  PROVE  RouteInv'
<1> DEFINE L == Len(op.snap)
<1>1. op.at = "sum" /\ UNCHANGED <<mode, healthy>>
  BY Zenon DEF SumWeights, CallerStep, monitorVars
<1>2. /\ op = [at |-> op.at, snap |-> op.snap, i |-> op.i, acc |-> op.acc, hash |-> op.hash,
               node |-> op.node, counted |-> op.counted, seen |-> op.seen, steady |-> op.steady]
      /\ op.snap \in Seq(Node) /\ L \in Nat /\ op.i \in 1 .. L + 1
      /\ op.acc \in Nat /\ op.hash \in Nat /\ op.node = None
      /\ \A n \in op.steady : n \in Range(op.snap) /\ healthy[n]
  BY <1>1, RouteFields, Zenon
<1>3. PICK S : Summed(S, op.snap, op.i, op.acc, op.seen, op.steady, healthy)
  BY <1>1, Zenon DEF SumInv
<1>4. CASE More
  <2> DEFINE acc == op.acc + IF healthy[op.snap[op.i]] THEN Weight[op.snap[op.i]] ELSE 0
  <2>1. op.i \in 1 .. L /\ op.i + 1 \in 1 .. L + 1
    BY <1>2, <1>4 DEF More
  <2>2. op' = [op EXCEPT !.i = @ + 1, !.acc = @ + IF healthy[Here] THEN Weight[Here] ELSE 0]
    BY <1>4, Zenon DEF SumWeights
  <2>3. Moved("sum", op.i + 1, acc, op.hash, op.node)
    BY <1>1, <1>2, <2>2, Zenon DEF Moved, Here
  <2>4. acc \in Nat
    <3> DEFINE w == Weight[op.snap[op.i]]
    <3>1. op.snap[op.i] \in Node
      BY <1>2, <2>1
    <3>2. w \in Nat
      BY <3>1, ClusterAssumption, Zenon
    <3> HIDE DEF w
    <3>3. op.acc + w \in Nat /\ op.acc + 0 \in Nat
      BY <1>2, <3>2
    <3> QED
      BY <3>3, Zenon DEF w
  <2>5. PICK T : Summed(T, op.snap, op.i + 1, acc, op.seen, op.steady, healthy)
    <3>1. \A n \in op.steady : healthy[n]
      BY <1>2, Zenon
    <3> QED
      BY <1>2, <1>3, <2>1, <3>1, SummedMore
  <2> HIDE DEF acc
  <2>6. /\ RouteShape' /\ op'.at = "sum" /\ op'.snap = op.snap /\ op'.i = op.i + 1
        /\ op'.acc = acc /\ op'.seen = op.seen /\ op'.steady = op.steady
    BY <1>1, <1>2, <2>1, <2>3, <2>4, MovedFields
  <2>7. SumInv'
    BY <1>1, <2>5, <2>6, Zenon DEF SumInv
  <2>8. WalkInv' /\ RoutesByWeight'
    BY <2>6, Zenon DEF WalkInv, RoutesByWeight
  <2> QED
    BY <2>6, <2>7, <2>8, Zenon DEF RouteInv
<1>5. CASE ~More
  <2>1. op.i = L + 1 /\ (L + 1) - 1 = L
    BY <1>2, <1>5 DEF More
  <2>2. Summed(S, op.snap, L + 1, op.acc, op.seen, op.steady, healthy)
    BY <1>3, <2>1, Zenon
  <2>3. /\ IsFiniteSet(Shares(S \cap (1 .. L), op.snap))
        /\ op.acc = Cardinality(Shares(S \cap (1 .. L), op.snap))
        /\ S \subseteq 1 .. L
        /\ \A j \in 1 .. L : op.snap[j] \in op.steady => j \in S
    <3>1. L \in 0 .. L
      BY <1>2
    <3> QED
      BY <2>1, <2>2, <3>1, Zenon DEF Summed
  <2>4. CASE op.acc = 0
    <3>1. op' = [op EXCEPT !.at = "picked"]
      BY <1>5, <2>4, Zenon DEF SumWeights
    <3>2. Moved("picked", op.i, op.acc, op.hash, op.node)
      BY <1>2, <3>1, Zenon DEF Moved
    <3>3. /\ RouteShape' /\ op'.at = "picked" /\ op'.snap = op.snap /\ op'.hash = op.hash
          /\ op'.node = None /\ op'.seen = op.seen /\ op'.steady = op.steady
      BY <1>1, <1>2, <3>2, MovedFields
    <3>4. op.steady = {}
      <4> SUFFICES ASSUME NEW n \in op.steady PROVE FALSE
        BY Zenon
      <4>1. PICK j \in 1 .. L : op.snap[j] = n
        BY <1>2 DEF Range
      <4>2. j \in S \cap (1 .. L)
        BY <2>3, <4>1, Zenon
      <4>3. <<j, 1>> \in {j} \X (1 .. Weight[op.snap[j]])
        <5>1. op.snap[j] \in Node
          BY <1>2
        <5>2. Weight[op.snap[j]] \in Nat \ {0}
          BY <5>1, ClusterAssumption, Zenon
        <5>3. 1 \in 1 .. Weight[op.snap[j]]
          BY <5>2
        <5> QED
          BY <5>3, Zenon
      <4>4. <<j, 1>> \in Shares(S \cap (1 .. L), op.snap)
        BY <4>2, <4>3, Zenon DEF Shares
      <4>5. \A U : IsFiniteSet(U) /\ Cardinality(U) = 0 => U = {}
        BY FS_EmptySet, Zenon
      <4>6. Shares(S \cap (1 .. L), op.snap) = {}
        BY <2>3, <2>4, <4>5, Zenon
      <4> QED
        BY <4>4, <4>6, Zenon
    <3>5. ASSUME op.seen = {} PROVE Cardinality(Virtual(op.snap, L)) = 0
      <4>1. L \in 0 .. L
        BY <1>2
      <4>2. Virtual(op.snap, L) = Shares(S \cap (1 .. L), op.snap)
        <5>1. Summed(S, op.snap, L + 1, op.acc, {}, op.steady, healthy)
          BY <2>2, <3>5, Zenon
        <5> QED
          BY <1>2, <4>1, <5>1, SummedVirtual, Zenon
      <4> QED
        BY <2>3, <2>4, <4>2, Zenon
    <3>6. \A k : Virtual(op.snap, k)' = Virtual(op.snap, k)
      BY <1>1, <3>3, Zenon DEF Virtual
    <3>7. RoutesByWeight'
      BY <1>1, <3>3, <3>4, <3>5, <3>6, Zenon DEF RoutesByWeight
    <3> QED
      BY <3>3, <3>7, Zenon DEF RouteInv, SumInv, WalkInv
  <2>5. CASE op.acc # 0
    <3> DEFINE hash == op.hash % op.acc
    <3>1. op' = [op EXCEPT !.at = "walk", !.i = 1, !.acc = 0, !.hash = @ % op.acc]
      BY <1>5, <2>5, Zenon DEF SumWeights
    <3>2. Moved("walk", 1, 0, hash, op.node)
      BY <1>2, <3>1, Zenon DEF Moved
    <3>3. hash \in Nat /\ 0 <= hash /\ hash < op.acc
      BY <1>2, <2>5
    <3> HIDE DEF hash
    <3>4. /\ RouteShape' /\ op'.at = "walk" /\ op'.snap = op.snap /\ op'.i = 1
          /\ op'.acc = 0 /\ op'.hash = hash /\ op'.seen = op.seen /\ op'.steady = op.steady
      <4>1. 1 \in 1 .. L + 1 /\ 0 \in Nat
        BY <1>2
      <4> QED
        BY <1>1, <1>2, <3>2, <3>3, <4>1, MovedFields
    <3>5. Walked(S, op.snap, 1, 0, hash, op.seen)
      <4>1. S \cap (1 .. 1 - 1) = {} \cap (1 .. 1 - 1)
        OBVIOUS
      <4>2. Cardinality(Shares(S \cap (1 .. 1 - 1), op.snap)) = 0
        BY <4>1, NoShare, Zenon
      <4>3. 0 <= 0
        OBVIOUS
      <4> QED
        BY <2>3, <3>3, <4>2, <4>3, Zenon DEF Walked
    <3>6. WalkInv'
      BY <1>1, <2>2, <3>4, <3>5, Zenon DEF WalkInv
    <3> QED
      BY <3>4, <3>6, Zenon DEF RouteInv, SumInv, RoutesByWeight
  <2> QED
    BY <2>4, <2>5, Zenon
<1> QED
  BY <1>4, <1>5, Zenon

\* What a turn of the second pass knows of its place.
Turn(S, i, w, here) ==
  /\ Cardinality(Shares(S \cap (1 .. i), op.snap))
       = Cardinality(Shares(S \cap (1 .. i - 1), op.snap)) + IF i \in S THEN w ELSE 0
  /\ Cardinality(Shares(S \cap (1 .. i - 1), op.snap)) \in Nat
  /\ "down" \notin op.seen => (i \in S => here)
  /\ "up" \notin op.seen => (here => i \in S)

\* A turn of the second pass, or its end.
LEMMA WalkRoute ==
  ASSUME RouteShape, WalkInv, healthy \in [Node -> BOOLEAN], mode = "shard", WalkWeights
  PROVE  RouteInv'
<1> DEFINE L == Len(op.snap)
<1>1. op.at = "walk" /\ UNCHANGED <<mode, healthy>>
  BY Zenon DEF WalkWeights, CallerStep, monitorVars
<1>2. /\ op = [at |-> op.at, snap |-> op.snap, i |-> op.i, acc |-> op.acc, hash |-> op.hash,
               node |-> op.node, counted |-> op.counted, seen |-> op.seen, steady |-> op.steady]
      /\ op.snap \in Seq(Node) /\ L \in Nat /\ op.i \in 1 .. L + 1
      /\ op.acc \in Nat /\ op.hash \in Nat /\ op.node = None
      /\ \A n \in op.steady : n \in Range(op.snap) /\ healthy[n]
  BY <1>1, RouteFields, Zenon
<1>3. PICK S, total :
        /\ Summed(S, op.snap, L + 1, total, op.seen, op.steady, healthy)
        /\ Walked(S, op.snap, op.i, op.acc, op.hash, op.seen)
  BY <1>1, Zenon DEF WalkInv
<1> DEFINE C(k) == Cardinality(Shares(S \cap (1 .. k), op.snap))
<1>4. /\ op.hash < C(L) /\ op.acc <= op.hash
      /\ "down" \notin op.seen => C(op.i - 1) <= op.acc
      /\ op.seen = {} => op.acc = C(op.i - 1)
  BY <1>3, Zenon DEF Walked
<1>5. CASE ~More
  <2>1. op.i = L + 1 /\ op.i - 1 = L
    BY <1>2, <1>5 DEF More
  <2>2. "down" \in op.seen
    <3> SUFFICES ASSUME "down" \notin op.seen PROVE FALSE
      BY Zenon
    <3>1. C(L) <= op.acc /\ C(L) \in Nat
      <4>1. L \in 0 .. (L + 1) - 1
        BY <1>2
      <4>2. IsFiniteSet(Shares(S \cap (1 .. L), op.snap))
        BY <1>3, <4>1, Zenon DEF Summed
      <4>3. C(L) \in Nat
        BY <4>2, FS_CardinalityType, Zenon
      <4> QED
        BY <1>4, <2>1, <4>3, Zenon
    <3> HIDE DEF C
    <3> QED
      BY <1>2, <1>4, <3>1
  <2>3. Moved("picked", op.i, op.acc, op.hash, op.node)
    <3>1. op' = [op EXCEPT !.at = "picked"]
      BY <1>5, Zenon DEF WalkWeights
    <3> QED
      BY <1>2, <3>1, Zenon DEF Moved
  <2>4. /\ RouteShape' /\ op'.at = "picked" /\ op'.seen = op.seen
    BY <1>1, <1>2, <2>3, MovedFields, Zenon
  <2>5. RoutesByWeight'
    BY <2>2, <2>4, Zenon DEF RoutesByWeight
  <2> QED
    BY <2>4, <2>5, Zenon DEF RouteInv, SumInv, WalkInv
<1>6. CASE More
  <2> DEFINE here == healthy[op.snap[op.i]]
             w == Weight[op.snap[op.i]]
             cursor == op.acc + IF here THEN w ELSE 0
  <2>1. op.i \in 1 .. L /\ op.i + 1 \in 1 .. L + 1 /\ (op.i + 1) - 1 = op.i /\ op.i \in Nat \ {0}
    BY <1>2, <1>6 DEF More
  <2>2. op.snap[op.i] \in Node /\ w \in Nat /\ here \in BOOLEAN
    <3>1. op.snap[op.i] \in Node
      BY <1>2, <2>1
    <3> QED
      BY <3>1, ClusterAssumption, Zenon
  <2>3. Turn(S, op.i, w, here)
    <3>1. op.i - 1 \in 0 .. (L + 1) - 1 /\ op.i \in 1 .. (L + 1) - 1
      BY <1>2, <2>1
    <3>2. /\ IsFiniteSet(Shares(S \cap (1 .. op.i - 1), op.snap))
          /\ "down" \notin op.seen => (op.i \in S => here)
          /\ "up" \notin op.seen => (here => op.i \in S)
      BY <1>3, <3>1, Zenon DEF Summed
    <3>3. Grows(S, op.snap, op.i)
      BY <2>1, <2>2, <3>2, NextShare, Zenon
    <3> QED
      BY <3>2, <3>3, Zenon DEF Turn, Grows
  <2>4. cursor \in Nat
    <3> HIDE DEF w, here
    <3> QED
      BY <1>2, <2>2
  <2>5. op' = IF here /\ op.hash < cursor
              THEN [op EXCEPT !.at = "picked", !.node = Here]
              ELSE [op EXCEPT !.i = @ + 1, !.acc = cursor]
    BY <1>6, Zenon DEF WalkWeights, Here
  <2> HIDE DEF cursor
  <2>6. CASE here /\ op.hash < cursor
    <3>1. Moved("picked", op.i, op.acc, op.hash, op.snap[op.i])
      BY <1>2, <2>5, <2>6, Zenon DEF Moved, Here
    <3>2. /\ RouteShape' /\ op'.at = "picked" /\ op'.snap = op.snap /\ op'.hash = op.hash
          /\ op'.node = op.snap[op.i] /\ op'.seen = op.seen
      BY <1>1, <1>2, <3>1, MovedFields
    <3>3. op.snap[op.i] # None
      BY <2>2, ClusterAssumption, Zenon
    <3>4. ASSUME op.seen = {}
          PROVE  /\ C(op.i - 1) <= op.hash % C(L) /\ op.hash % C(L) < C(op.i) /\ C(L) # 0
                 /\ \A k \in 0 .. L : Cardinality(Virtual(op.snap, k)) = C(k)
      <4>1. \A k \in 0 .. L : Virtual(op.snap, k) = Shares(S \cap (1 .. k), op.snap)
        <5>1. Summed(S, op.snap, L + 1, total, {}, op.steady, healthy)
          BY <1>3, <3>4, Zenon
        <5> QED
          BY <1>2, <5>1, SummedVirtual, Zenon
      <4>2. C(L) \in Nat
        <5>1. L \in 0 .. (L + 1) - 1
          BY <1>2
        <5>2. IsFiniteSet(Shares(S \cap (1 .. L), op.snap))
          BY <1>3, <5>1, Zenon DEF Summed
        <5> QED
          BY <5>2, FS_CardinalityType, Zenon
      <4>3. op.acc = C(op.i - 1) /\ C(op.i) = C(op.i - 1) + w
        BY <1>4, <2>3, <2>6, <3>4, Zenon DEF Turn
      <4>4. \A k \in 0 .. L : Cardinality(Virtual(op.snap, k)) = C(k)
        BY <4>1, Zenon
      <4>5. cursor = op.acc + w
        BY <2>6, Zenon DEF cursor
      <4> HIDE DEF C, w, here
      <4>6. op.hash % C(L) = op.hash /\ C(L) # 0
        BY <1>2, <1>4, <4>2, SMTT(30)
      <4> QED
        BY <1>4, <2>6, <4>3, <4>4, <4>5, <4>6, Zenon
    <3>5. \A k : Virtual(op.snap, k)' = Virtual(op.snap, k)
      BY <1>1, <3>2, Zenon DEF Virtual
    <3>6. op.i - 1 \in 0 .. L /\ op.i \in 0 .. L /\ L \in 0 .. L
      BY <1>2, <2>1
    <3> HIDE DEF C
    <3>7. RoutesByWeight'
      <4> SUFFICES ASSUME op'.seen = {}
          PROVE  LET upTo(i) == Cardinality(Virtual(op.snap, i)')
                     tot == upTo(Len(op.snap))
                 IN IF tot = 0 THEN op'.node = None
                    ELSE \E i \in 1 .. Len(op.snap) :
                           /\ op'.node = op.snap[i]
                           /\ upTo(i - 1) <= op.hash % tot /\ op.hash % tot < upTo(i)
        BY <3>2, <3>3, Zenon DEF RoutesByWeight
      <4>1. /\ C(op.i - 1) <= op.hash % C(L) /\ op.hash % C(L) < C(op.i) /\ C(L) # 0
            /\ \A k \in 0 .. L : Cardinality(Virtual(op.snap, k)') = C(k)
        BY <3>2, <3>4, <3>5, Zenon
      <4> QED
        BY <2>1, <3>2, <3>6, <4>1, Zenon
    <3> QED
      BY <3>2, <3>7, Zenon DEF RouteInv, SumInv, WalkInv
  <2>7. CASE ~(here /\ op.hash < cursor)
    <3>1. Moved("walk", op.i + 1, cursor, op.hash, op.node)
      BY <1>1, <1>2, <2>5, <2>7, Zenon DEF Moved
    <3>2. /\ RouteShape' /\ op'.at = "walk" /\ op'.snap = op.snap /\ op'.i = op.i + 1
          /\ op'.acc = cursor /\ op'.hash = op.hash /\ op'.seen = op.seen
          /\ op'.steady = op.steady
      BY <1>1, <1>2, <2>1, <2>4, <3>1, MovedFields
    <3>3. /\ cursor <= op.hash
          /\ "down" \notin op.seen => C(op.i) <= cursor
          /\ op.seen = {} => cursor = C(op.i)
      <4>1. /\ C(op.i) = C(op.i - 1) + IF op.i \in S THEN w ELSE 0
            /\ C(op.i - 1) \in Nat
            /\ "down" \notin op.seen => (op.i \in S => here)
            /\ "up" \notin op.seen => (here => op.i \in S)
        BY <2>3, Zenon DEF Turn
      <4>2. cursor = op.acc + IF here THEN w ELSE 0
        BY Zenon DEF cursor
      <4> HIDE DEF C, w, here
      <4> QED
        BY <1>2, <1>4, <2>2, <2>4, <2>7, <4>1, <4>2, SMTT(30)
    <3>4. Walked(S, op.snap, op.i + 1, cursor, op.hash, op.seen)
      BY <1>4, <2>1, <3>3, Zenon DEF Walked
    <3>5. WalkInv'
      BY <1>1, <1>3, <3>2, <3>4, Zenon DEF WalkInv
    <3> QED
      BY <3>2, <3>5, Zenon DEF RouteInv, SumInv, RoutesByWeight
  <2> QED
    BY <2>6, <2>7, Zenon
<1> QED
  BY <1>5, <1>6, Zenon

\* A flag that is stored during a shard operation.
LEMMA FlagRoute ==
  ASSUME RouteInv, ClockInv, NEW n, NEW h \in BOOLEAN, Flag(n, h), mode' = mode
  PROVE  RouteInv'
<1> SUFFICES ASSUME mode = "shard" PROVE RouteInv'
  BY Zenon DEF RouteInv
<1>1. op' = Witnessed(n, h) /\ healthy' = [healthy EXCEPT ![n] = h]
  BY Zenon DEF Flag
<1>2. CASE op = Quiet
  <2>1. op' = Quiet
    BY <1>1, <1>2, Zenon DEF Witnessed
  <2> QED
    BY <2>1, Zenon DEF RouteInv
<1>3. CASE op # Quiet
  <2> DEFINE L == Len(op.snap)
             changed == healthy[n] # h /\ n \in Range(op.snap)
             steady == IF changed THEN op.steady \ {n} ELSE op.steady
             seen == IF changed THEN op.seen \cup {IF h THEN "up" ELSE "down"} ELSE op.seen
  <2>1. RouteShape /\ RoutesByWeight /\ SumInv /\ WalkInv
    BY <1>3, Zenon DEF RouteInv
  <2>2. /\ op = [at |-> op.at, snap |-> op.snap, i |-> op.i, acc |-> op.acc, hash |-> op.hash,
                 node |-> op.node, counted |-> op.counted, seen |-> op.seen,
                 steady |-> op.steady]
        /\ op.snap \in Seq(Node) /\ L \in Nat /\ op.i \in 1 .. L + 1
        /\ \A m \in op.steady : m \in Range(op.snap) /\ healthy[m]
    BY <2>1, RouteFields, Zenon
  <2>3. op' = [at |-> op.at, snap |-> op.snap, i |-> op.i, acc |-> op.acc, hash |-> op.hash,
               node |-> op.node, counted |-> op.counted, seen |-> seen, steady |-> steady]
    <3>1. CASE changed
      <4>1. op' = [op EXCEPT !.steady = @ \ {n}, !.seen = @ \cup {IF h THEN "up" ELSE "down"}]
        BY <1>1, <1>3, <3>1, Zenon DEF Witnessed
      <4> QED
        BY <2>2, <3>1, <4>1, Zenon
    <3>2. CASE ~changed
      <4>1. op' = op
        BY <1>1, <3>2, Zenon DEF Witnessed
      <4> QED
        BY <2>2, <3>2, <4>1, Zenon
    <3> QED
      BY <3>1, <3>2, Zenon
  <2>4. /\ healthy \in [Node -> BOOLEAN]
        /\ \A j \in 1 .. L : op.snap[j] \in Node /\ op.snap[j] \in Range(op.snap)
    <3>1. \A j \in 1 .. L : op.snap[j] \in Node /\ j \in DOMAIN op.snap
      BY <2>2
    <3> QED
      BY <3>1, Zenon DEF ClockInv, Range
  <2>5. \A m \in Node : healthy'[m] = IF m = n THEN h ELSE healthy[m]
    BY <1>1, <2>4, Zenon
  <2>6. /\ seen = {} => ~changed
        /\ "down" \notin seen => \A j \in 1 .. L : healthy[op.snap[j]] => healthy'[op.snap[j]]
        /\ "up" \notin seen => \A j \in 1 .. L : healthy'[op.snap[j]] => healthy[op.snap[j]]
    <3>1. CASE changed
      <4>1. CASE h = TRUE
        BY <2>4, <2>5, <3>1, <4>1, ZenonT(40)
      <4>2. CASE h = FALSE
        BY <2>4, <2>5, <3>1, <4>2, Zenon
      <4> QED
        BY <4>1, <4>2, ZenonT(40)
    <3>2. CASE ~changed
      BY <2>4, <2>5, <3>2, Zenon
    <3> QED
      BY <3>1, <3>2, Zenon
  <2>7. /\ op.seen \subseteq seen /\ steady \subseteq op.steady
        /\ \A m \in steady : m \in Range(op.snap) /\ m \in Node /\ healthy'[m]
    <3>1. \A m \in op.steady : m \in Range(op.snap) /\ m \in Node /\ healthy[m]
      BY <2>2 DEF Range
    <3>2. CASE changed
      BY <2>5, <3>1, <3>2, Zenon
    <3>3. CASE ~changed
      BY <2>5, <3>1, <3>3, Zenon
    <3> QED
      BY <3>2, <3>3, Zenon
  <2> HIDE DEF changed, seen, steady
  <2>8. /\ op'.at = op.at /\ op'.snap = op.snap /\ op'.i = op.i /\ op'.acc = op.acc
        /\ op'.hash = op.hash /\ op'.node = op.node /\ op'.counted = op.counted
        /\ op'.seen = seen /\ op'.steady = steady
    BY <2>3, Zenon
  <2>9. RouteShape'
    <3>1. op' = [at |-> op'.at, snap |-> op'.snap, i |-> op'.i, acc |-> op'.acc,
                 hash |-> op'.hash, node |-> op'.node, counted |-> op'.counted,
                 seen |-> op'.seen, steady |-> op'.steady]
      BY <2>3, <2>8, Zenon
    <3> QED
      BY <2>1, <2>7, <2>8, <3>1, Zenon DEF RouteShape
  <2>10. SumInv'
    <3> SUFFICES ASSUME op.at = "sum"
                 PROVE  \E S : Summed(S, op.snap, op.i, op.acc, seen, steady, healthy')
      BY <2>8, Zenon DEF SumInv
    <3>1. PICK S : Summed(S, op.snap, op.i, op.acc, op.seen, op.steady, healthy)
      BY <2>1, Zenon DEF SumInv
    <3>2. Summed(S, op.snap, op.i, op.acc, seen, steady, healthy')
      BY <2>2, <2>6, <2>7, <3>1, SummedKept, Zenon
    <3> QED
      BY <3>2, Zenon
  <2>11. WalkInv'
    <3> SUFFICES ASSUME op.at = "walk"
                 PROVE  \E S, total : /\ Summed(S, op.snap, L + 1, total, seen, steady, healthy')
                                      /\ Walked(S, op.snap, op.i, op.acc, op.hash, seen)
      BY <2>8, Zenon DEF WalkInv
    <3>1. PICK S, total : /\ Summed(S, op.snap, L + 1, total, op.seen, op.steady, healthy)
                          /\ Walked(S, op.snap, op.i, op.acc, op.hash, op.seen)
      BY <2>1, Zenon DEF WalkInv
    <3>2. L + 1 \in 1 .. L + 1
      BY <2>2, SMTT(30)
    <3>3. Summed(S, op.snap, L + 1, total, seen, steady, healthy')
      BY <2>2, <2>6, <2>7, <3>1, <3>2, SummedKept, Zenon
    <3>4. Walked(S, op.snap, op.i, op.acc, op.hash, seen)
      BY <2>7, <3>1, Zenon DEF Walked
    <3> QED
      BY <3>3, <3>4, Zenon
  <2>12. RoutesByWeight'
    <3>1. ASSUME seen = {}, NEW k \in 0 .. L PROVE Virtual(op.snap, k)' = Virtual(op.snap, k)
      <4>1. \A j \in 1 .. k : j \in 1 .. L
        BY <2>2
      <4>2. \A j \in 1 .. k : healthy'[op.snap[j]] <=> healthy[op.snap[j]]
        BY <2>6, <3>1, <4>1, Zenon
      <4>3. {j \in 1 .. k : healthy'[op.snap[j]]} = {j \in 1 .. k : healthy[op.snap[j]]}
        BY <4>2, Zenon
      <4> QED
        BY <2>8, <4>3, Zenon DEF Virtual
    <3>2. L \in 0 .. L /\ \A i \in 1 .. L : i \in 0 .. L /\ i - 1 \in 0 .. L
      BY <2>2
    <3> QED
      BY <2>1, <2>7, <2>8, <3>1, <3>2, Zenon DEF RoutesByWeight
  <2> QED
    BY <2>9, <2>10, <2>11, <2>12, Zenon DEF RouteInv
<1> QED
  BY <1>2, <1>3, Zenon

\* A shard operation begins.
LEMMA BeginRoute ==
  ASSUME NodesInv, NEW at \in {"sum", "len"}, NEW h \in Nat, Begin(at, h)
  PROVE  RouteInv'
<1> DEFINE steady == {n \in Range(list) : healthy[n]}
<1>1. /\ op' = [at |-> at, snap |-> list, i |-> 1, acc |-> 0, hash |-> h,
                node |-> None, counted |-> {}, seen |-> {}, steady |-> steady]
      /\ UNCHANGED <<mode, healthy>>
  BY Zenon DEF Begin, monitorVars
<1>2. list \in Seq(Node) /\ Len(list) \in Nat
  BY DEF NodesInv
<1>3. \A n \in steady : n \in Range(list) /\ healthy'[n]
  BY <1>1, Zenon
<1> HIDE DEF steady
<1>4. /\ op'.at = at /\ op'.snap = list /\ op'.i = 1 /\ op'.acc = 0 /\ op'.hash = h
      /\ op'.node = None /\ op'.counted = {} /\ op'.seen = {} /\ op'.steady = steady
  BY <1>1, Zenon
<1>5. op' = [at |-> op'.at, snap |-> op'.snap, i |-> op'.i, acc |-> op'.acc,
             hash |-> op'.hash, node |-> op'.node, counted |-> op'.counted,
             seen |-> op'.seen, steady |-> op'.steady]
  BY <1>1, <1>4, Zenon
<1>6. /\ 1 \in 1 .. Len(list) + 1 /\ 0 \in Nat
      /\ at \in {"sum", "walk", "picked", "len", "total", "answer"} /\ at # "picked" /\ at # "walk"
  BY <1>2
<1>7. RouteShape'
  BY <1>2, <1>3, <1>4, <1>5, <1>6, Zenon DEF RouteShape
<1>8. RoutesByWeight' /\ WalkInv'
  BY <1>4, <1>6, Zenon DEF RoutesByWeight, WalkInv
<1>9. SumInv'
  <2>1. 1 .. 1 - 1 = {}
    OBVIOUS
  <2>2. Summed({}, list, 1, 0, {}, steady, healthy')
    BY <2>1, NoShare, Zenon DEF Summed
  <2> QED
    BY <1>4, <2>2, Zenon DEF SumInv
<1> QED
  BY <1>7, <1>8, <1>9, Zenon DEF RouteInv

\* Len and Keys choose no node.
LEMMA CountRoute ==
  ASSUME RouteShape, CountNode
  PROVE  RouteInv'
<1>1. op.at = "len" /\ UNCHANGED <<mode, healthy>>
  BY Zenon DEF CountNode, CallerStep, monitorVars
<1>2. /\ op = [at |-> op.at, snap |-> op.snap, i |-> op.i, acc |-> op.acc, hash |-> op.hash,
               node |-> op.node, counted |-> op.counted, seen |-> op.seen, steady |-> op.steady]
      /\ op.snap \in Seq(Node) /\ Len(op.snap) \in Nat /\ op.i \in 1 .. Len(op.snap) + 1
      /\ op.acc \in Nat /\ op.hash \in Nat
      /\ \A n \in op.steady : n \in Range(op.snap) /\ healthy[n]
  BY RouteFields, Zenon
<1>3. ASSUME NEW at \in {"len", "total"}, NEW i \in 1 .. Len(op.snap) + 1, NEW counted,
             op' = [at |-> at, snap |-> op.snap, i |-> i, acc |-> op.acc, hash |-> op.hash,
                    node |-> op.node, counted |-> counted, seen |-> op.seen,
                    steady |-> op.steady]
      PROVE  RouteInv'
  <2>1. /\ op'.at = at /\ op'.snap = op.snap /\ op'.i = i /\ op'.acc = op.acc
        /\ op'.hash = op.hash /\ op'.node = op.node /\ op'.counted = counted
        /\ op'.seen = op.seen /\ op'.steady = op.steady
    BY <1>3, Zenon
  <2>2. op' = [at |-> op'.at, snap |-> op'.snap, i |-> op'.i, acc |-> op'.acc,
               hash |-> op'.hash, node |-> op'.node, counted |-> op'.counted,
               seen |-> op'.seen, steady |-> op'.steady]
    BY <1>3, <2>1, Zenon
  <2>3. /\ op'.at \in {"sum", "walk", "picked", "len", "total", "answer"}
        /\ op'.at # "sum" /\ op'.at # "walk" /\ op'.at # "picked"
    BY <2>1, Zenon
  <2>4. RouteShape'
    BY <1>1, <1>2, <1>3, <2>1, <2>2, <2>3, Zenon DEF RouteShape
  <2> QED
    BY <2>3, <2>4, Zenon DEF RouteInv, RoutesByWeight, SumInv, WalkInv
<1>4. CASE ~More
  <2>1. op' = [op EXCEPT !.at = "total"]
    BY <1>4, Zenon DEF CountNode
  <2>2. op' = [at |-> "total", snap |-> op.snap, i |-> op.i, acc |-> op.acc, hash |-> op.hash,
               node |-> op.node, counted |-> op.counted, seen |-> op.seen, steady |-> op.steady]
    BY <1>2, <2>1, Zenon
  <2> QED
    BY <1>2, <1>3, <2>2, Zenon
<1>5. CASE More
  <2>1. op.i + 1 \in 1 .. Len(op.snap) + 1
    BY <1>2, <1>5 DEF More
  <2>2. \/ op' = Quiet
        \/ op' = [op EXCEPT !.i = @ + 1]
        \/ op' = [op EXCEPT !.i = @ + 1, !.counted = @ \cup {Here}]
    BY <1>5, Zenon DEF CountNode
  <2>3. CASE op' = Quiet
    BY <2>3, Zenon DEF RouteInv
  <2>4. CASE op' = [op EXCEPT !.i = @ + 1]
    <3>1. op' = [at |-> "len", snap |-> op.snap, i |-> op.i + 1, acc |-> op.acc,
                 hash |-> op.hash, node |-> op.node, counted |-> op.counted,
                 seen |-> op.seen, steady |-> op.steady]
      BY <1>1, <1>2, <2>4, Zenon
    <3> QED
      BY <1>3, <2>1, <3>1, Zenon
  <2>5. CASE op' = [op EXCEPT !.i = @ + 1, !.counted = @ \cup {Here}]
    <3>1. op' = [at |-> "len", snap |-> op.snap, i |-> op.i + 1, acc |-> op.acc,
                 hash |-> op.hash, node |-> op.node, counted |-> op.counted \cup {Here},
                 seen |-> op.seen, steady |-> op.steady]
      BY <1>1, <1>2, <2>5, Zenon
    <3> QED
      BY <1>3, <2>1, <3>1, Zenon
  <2> QED
    BY <2>2, <2>3, <2>4, <2>5, Zenon
<1> QED
  BY <1>4, <1>5, Zenon

\* ShardMode.node tests the flag of its node again.
LEMMA TestRoute ==
  ASSUME RouteShape, mode = "shard", TestNode
  PROVE  RouteInv'
<1> DEFINE node == IF op.node # None /\ healthy[op.node] THEN op.node ELSE None
<1>1. UNCHANGED <<mode, healthy>>
  BY Zenon DEF TestNode, CallerStep, monitorVars
<1>2. /\ op = [at |-> op.at, snap |-> op.snap, i |-> op.i, acc |-> op.acc, hash |-> op.hash,
               node |-> op.node, counted |-> op.counted, seen |-> op.seen, steady |-> op.steady]
      /\ op.snap \in Seq(Node) /\ op.i \in 1 .. Len(op.snap) + 1
      /\ op.acc \in Nat /\ op.hash \in Nat
      /\ \A n \in op.steady : n \in Range(op.snap) /\ healthy[n]
  BY RouteFields, Zenon
<1>3. op' = [at |-> "answer", snap |-> op.snap, i |-> op.i, acc |-> op.acc, hash |-> op.hash,
             node |-> node, counted |-> op.counted, seen |-> op.seen, steady |-> op.steady]
  BY <1>2, Zenon DEF TestNode
<1> HIDE DEF node
<1>4. /\ op'.at = "answer" /\ op'.snap = op.snap /\ op'.i = op.i /\ op'.acc = op.acc
      /\ op'.hash = op.hash /\ op'.node = node /\ op'.counted = op.counted
      /\ op'.seen = op.seen /\ op'.steady = op.steady
  BY <1>3, Zenon
<1>5. op' = [at |-> op'.at, snap |-> op'.snap, i |-> op'.i, acc |-> op'.acc,
             hash |-> op'.hash, node |-> op'.node, counted |-> op'.counted,
             seen |-> op'.seen, steady |-> op'.steady]
  BY <1>3, <1>4, Zenon
<1>6. RouteShape'
  BY <1>1, <1>2, <1>4, <1>5, Zenon DEF RouteShape
<1> QED
  BY <1>4, <1>6, Zenon DEF RouteInv, RoutesByWeight, SumInv, WalkInv

\* What RouteInv speaks of, unchanged.
LEMMA RouteUntouched ==
  ASSUME RouteInv, UNCHANGED <<mode, healthy, op>>
  PROVE  RouteInv'
  BY Zenon DEF RouteInv, RouteShape, RoutesByWeight, SumInv, WalkInv, Virtual

\* Every step preserves RouteInv.
LEMMA RouteStep == NodesInv /\ ClockInv /\ RouteInv /\ [Next]_vars => RouteInv'
<1> SUFFICES ASSUME NodesInv, ClockInv, RouteInv, [Next]_vars PROVE RouteInv'
  BY Zenon
<1>1. CASE Monitor
  <2>1. ASSUME NEW n \in Node, Probe(n) PROVE RouteInv'
    BY <2>1, ProbeType, FlagRoute, Zenon DEF Probe
  <2>2. CASE checkAndFailover
    BY <2>2, ProbeType, FlagRoute, Zenon DEF checkAndFailover
  <2>3. CASE Relist
    BY <2>3, FlagRoute, Zenon DEF Relist
  <2>4. CASE Tick \/ ProbesDone \/ tryFailover
    BY <2>4, RouteUntouched, Zenon DEF Tick, ProbesDone, tryFailover
  <2> QED
    BY <1>1, <2>1, <2>2, <2>3, <2>4, Zenon DEF Monitor
<1>2. CASE Close \/ Stop \/ CloseClients \/ Pass \/ \E n \in Node : Lose(n)
  BY <1>2, RouteUntouched, Zenon DEF Close, Stop, CloseClients, Pass, Lose, monitorVars
<1>3. CASE UNCHANGED vars
  BY <1>3, RouteUntouched, Zenon DEF vars
<1>4. CASE Caller \/ OtherRead
  <2>1. CASE mode # "shard"
    <3>1. mode' = mode
      BY <1>4, Zenon DEF Caller, OtherRead, Get, Route, ShardLen, Begin, pickSlave, SumWeights,
                  WalkWeights, CountNode, UseSlave, LoadMaster, TestNode,
                Finish, CallerStep, monitorVars
    <3> QED
      BY <2>1, <3>1, Zenon DEF RouteInv
  <2>2. CASE mode = "shard"
    <3>1. CASE op = Quiet
      <4>1. op.at = "idle"
        BY <3>1, Zenon DEF Quiet
      <4>2. /\ ~SumWeights /\ ~WalkWeights /\ ~CountNode /\ ~Finish /\ ~pickSlave /\ ~Get
            /\ ~OtherRead /\ ~UseSlave /\ ~LoadMaster /\ ~TestNode
        BY <2>2, <4>1, Zenon DEF SumWeights, WalkWeights, CountNode, Finish, pickSlave, Get,
                                 OtherRead, UseSlave, LoadMaster, TestNode
      <4>3. ASSUME NEW h \in Hash, Route(h) PROVE RouteInv'
        <5>1. h \in Nat /\ Begin("sum", h)
          BY <4>3, ClusterAssumption, Zenon DEF Route
        <5> QED
          BY <5>1, BeginRoute, Zenon
      <4>4. CASE ShardLen
        <5>1. 0 \in Nat /\ Begin("len", 0)
          BY <4>4, Zenon DEF ShardLen
        <5> QED
          BY <5>1, BeginRoute, Zenon
      <4> QED
        BY <1>4, <4>2, <4>3, <4>4, Zenon DEF Caller
    <3>2. CASE op # Quiet
      <4>1. RouteShape /\ SumInv /\ WalkInv /\ healthy \in [Node -> BOOLEAN]
        BY <2>2, <3>2, Zenon DEF RouteInv, ClockInv
      <4>2. op.at \in {"sum", "walk", "picked", "len", "total", "answer"}
        BY <4>1, Zenon DEF RouteShape
      <4>3. /\ ~pickSlave /\ ~Get /\ ~OtherRead /\ ~ShardLen /\ \A h \in Hash : ~Route(h)
            /\ ~UseSlave /\ ~LoadMaster
        BY <2>2, <3>2, <4>2, Zenon DEF pickSlave, Get, OtherRead, ShardLen, Route, Begin,
                                       UseSlave, LoadMaster
      <4>4. CASE Finish
        BY <4>4, Zenon DEF Finish, RouteInv
      <4> QED
        BY <1>4, <2>2, <4>1, <4>3, <4>4, SumRoute, WalkRoute, CountRoute, TestRoute, Zenon
        DEF Caller
    <3> QED
      BY <3>1, <3>2, Zenon
  <2> QED
    BY <2>1, <2>2, Zenon
<1> QED
  BY <1>1, <1>2, <1>3, <1>4, Zenon DEF Next

\* No operation is under way when a mode is constructed.
LEMMA RouteInit == Init => RouteInv
  BY Zenon DEF Init, RouteInv

(* RoutesByWeight of pickNode: for any nodes, weights and hashes and any     *)
(* interleaving of probes, a key goes to the node in whose share of the      *)
(* healthy weights its hash falls if no flag changed between the two passes, *)
(* and finds no node although one stayed healthy only if another went down.  *)
THEOREM RoutesSound == Spec => []RoutesByWeight
<1>1. RouteInv => RoutesByWeight
  <2>1. op = Quiet => op.at = "idle"
    BY DEF Quiet
  <2>2. (mode = "shard" /\ op.at = "picked" => RoutesByWeight) => RoutesByWeight
    BY Zenon DEF RoutesByWeight
  <2> QED
    BY <2>1, <2>2, Zenon DEF RouteInv
<1> QED
  BY NodesInit, ClockInit, RouteInit, NodesStep, ClockStep, RouteStep, <1>1, PTL DEF Spec

==============================================================================
