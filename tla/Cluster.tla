------------------------------- MODULE Cluster -------------------------------
(****************************************************************************)
(* The client-side cluster of package cluster: a ClusterManager over one of *)
(* three topologies.                                                        *)
(*                                                                          *)
(*  - "sentinel" and "master_slave" keep a master pointer and a list of     *)
(*    replicas.  One goroutine (monitorLoop, healthLoop) probes every node  *)
(*    at each tick and, once the master has been unhealthy for              *)
(*    FailoverTimeout, swaps the master with the first healthy replica.     *)
(*    The two files have the same control; "master_slave" adds pickSlave,   *)
(*    the round-robin choice of a replica for reads.                        *)
(*  - "shard" keeps a list of weighted nodes, probed concurrently by a      *)
(*    HealthChecker, and routes a key by hashing it into the weights of     *)
(*    the nodes flagged healthy (pickNode).                                 *)
(*                                                                          *)
(* One caller is followed step by step; every flag it reads is read on its  *)
(* own, as the code's atomic loads are.  Other callers share only the       *)
(* round-robin counter, and OtherRead is their effect on it.                *)
(*                                                                          *)
(* A client never dials again (net/client.go keeps its first connections),  *)
(* so a link that is lost stays lost.  A node of Flaky, which may be slow or *)
(* have lost part of its connections, answers some probes and not others.   *)
(****************************************************************************)
EXTENDS Integers, Sequences, FiniteSets, Functions

CONSTANTS
  Config,           \* the configured addresses in order, the master first
  None,             \* no node (a nil *Node)
  Flaky,            \* the nodes whose answer to a probe may be late or missing
  Weight,           \* Weight[n]: Node.Weight
  Hash,             \* the hashes keys may have
  Modes,            \* the topologies explored
  FailoverTimeout,  \* in ticks of the clock
  CounterSize       \* nextSlave counts modulo this (2^32 in the code)

Node == Range(Config)

ASSUME ClusterAssumption ==
  /\ Config \in Seq(Node) /\ Len(Config) > 1 /\ IsInjective(Config)
  /\ None \notin Node /\ Flaky \subseteq Node
  /\ Weight \in [Node -> Nat \ {0}]
  /\ Hash \subseteq Nat
  /\ Modes \subseteq {"sentinel", "master_slave", "shard"}
  /\ FailoverTimeout \in Nat
  /\ CounterSize \in Nat \ {0}

VARIABLES
  mode,      \* Options.Mode
  known,     \* the nodes that were dialled (fixed once built)
  master,    \* master atomic.Pointer[Node]; None in shard mode
  list,      \* replicas, slaves or nodes
  healthy,   \* healthy[n]: Node.Healthy
  link,      \* link[n]: n's client still has a connection
  mon,       \* the health goroutine: where it is, what it has still to probe
  since,     \* time since firstUnhealthyAt, -1 for the zero Time
  nextSlave, \* the round-robin counter
  closing,   \* Close: "no", "stopping" (stopCh closed), "closed"
  shut,      \* the nodes whose client was closed
  op,        \* the caller's operation
  good       \* history: time since the master last answered a probe, or was
             \* promoted; it stops at FailoverTimeout

vars == <<mode, known, master, list, healthy, link, mon, since, nextSlave,
          closing, shut, op, good>>

monitorVars == <<master, list, healthy, mon, since, good>>

------------------------------------------------------------------------------
(* Construction                                                             *)

Quiet == [at |-> "idle"]
Done == [at |-> "idle", todo |-> {}, old |-> None]

\* newSentinelMode: a replica that cannot be dialled is left out, one at least
\* must remain
newSentinelMode ==
  /\ mode = "sentinel"
  /\ master = Head(Config)
  /\ \E k \in 1 .. Len(Config) - 1 : \E f \in [1 .. k -> 2 .. Len(Config)] :
       /\ \A i, j \in 1 .. k : i < j => f[i] < f[j]
       /\ list = [i \in 1 .. k |-> Config[f[i]]]
  /\ mon = Done

\* newMasterSlaveMode: every slave must be dialled
newMasterSlaveMode ==
  /\ mode = "master_slave"
  /\ master = Head(Config)
  /\ list = Tail(Config)
  /\ mon = Done

\* newShardMode: every node must be dialled; the checker probes them at once
newShardMode ==
  /\ mode = "shard"
  /\ master = None
  /\ list = Config
  /\ mon = [Done EXCEPT !.at = "probe", !.todo = Node]

Init ==
  /\ mode \in Modes
  /\ newSentinelMode \/ newMasterSlaveMode \/ newShardMode
  /\ known = Range(list) \cup ({master} \ {None})
  /\ healthy = [n \in Node |-> n \in known]
  /\ link = [n \in Node |-> TRUE]
  /\ since = -1
  /\ nextSlave = 0
  /\ closing = "no"
  /\ shut = {}
  /\ op = Quiet
  /\ good = 0

------------------------------------------------------------------------------
(* The environment                                                          *)

\* the connections of a node are lost
Lose(n) ==
  /\ n \in known /\ link[n]
  /\ link' = [link EXCEPT ![n] = FALSE]
  /\ UNCHANGED <<mode, known, monitorVars, nextSlave, closing, shut, op>>

Later(t) == IF t < FailoverTimeout THEN t + 1 ELSE t

\* the clock moves; both durations stop at FailoverTimeout
Pass ==
  /\ mode # "shard"
  /\ good < FailoverTimeout \/ since \in 0 .. FailoverTimeout - 1
  /\ since' = IF since = -1 THEN -1 ELSE Later(since)
  /\ good' = Later(good)
  /\ UNCHANGED <<mode, known, master, list, healthy, link, mon, nextSlave,
                 closing, shut, op>>

------------------------------------------------------------------------------
(* What the caller's operation has to know of the steps taken during it     *)

\* the flag of a node of its snapshot changes while an operation is under way
Witnessed(n, h) ==
  IF op = Quiet \/ healthy[n] = h \/ n \notin Range(op.snap) THEN op
  ELSE [op EXCEPT !.steady = @ \ {n},
                  !.seen = @ \cup {IF h THEN "up" ELSE "down"}]

Flag(n, h) ==
  /\ healthy' = [healthy EXCEPT ![n] = h]
  /\ op' = Witnessed(n, h)

------------------------------------------------------------------------------
(* Probes and failover                                                      *)

\* the ticker of monitorLoop, healthLoop or HealthChecker.loop fires
Tick ==
  /\ mon.at = "idle"
  /\ mon' = [mon EXCEPT !.at = "probe", !.todo = Range(list)]
  /\ UNCHANGED <<mode, known, master, list, healthy, link, since, nextSlave,
                 closing, shut, op, good>>

\* probeNodeHealth, HealthChecker.probe: one Len within the timeout
probeNodeHealth(n) ==
  IF ~link[n] THEN {FALSE} ELSE IF n \in Flaky THEN {TRUE, FALSE} ELSE {TRUE}

\* replicas are probed in the order of the list, the nodes of a shard mode by
\* a goroutine each
MayProbe(n) ==
  /\ n \in mon.todo
  /\ \/ mode = "shard"
     \/ \E i \in DOMAIN list :
          list[i] = n /\ \A j \in 1 .. i - 1 : list[j] \notin mon.todo

Probe(n) ==
  /\ mon.at = "probe"
  /\ MayProbe(n)
  /\ \E h \in probeNodeHealth(n) : Flag(n, h)
  /\ mon' = [mon EXCEPT !.todo = @ \ {n}]
  /\ UNCHANGED <<mode, known, master, list, link, since, nextSlave, closing,
                 shut, good>>

\* probeAll: wg.Wait, and the loop waits for its next tick
ProbesDone ==
  /\ mode = "shard" /\ mon.at = "probe" /\ mon.todo = {}
  /\ mon' = Done
  /\ UNCHANGED <<mode, known, master, list, healthy, link, since, nextSlave,
                 closing, shut, op, good>>

\* the last answer is kept: firstUnhealthyAt survives a healthy probe
Mut_checkAndFailover ==
  /\ mode # "shard" /\ mon.at = "probe" /\ mon.todo = {}
  /\ \E h \in probeNodeHealth(master) :
       /\ Flag(master, h)
       /\ since' = IF since = -1 /\ ~h THEN 0 ELSE since
       /\ good' = IF h THEN 0 ELSE good
       /\ mon' = [Done EXCEPT !.at = IF ~h /\ since >= FailoverTimeout
                                     THEN "failover" ELSE "idle"]
  /\ UNCHANGED <<mode, known, master, list, link, nextSlave, closing, shut>>

\* the master is probed after its replicas
checkAndFailover ==
  /\ mode # "shard" /\ mon.at = "probe" /\ mon.todo = {}
  /\ \E h \in probeNodeHealth(master) :
       /\ Flag(master, h)
       /\ since' = IF h THEN -1 ELSE IF since = -1 THEN 0 ELSE since
       /\ good' = IF h THEN 0 ELSE good
       /\ mon' = [Done EXCEPT !.at = IF ~h /\ since >= FailoverTimeout
                                     THEN "failover" ELSE "idle"]
  /\ UNCHANGED <<mode, known, master, list, link, nextSlave, closing, shut>>

\* the failover gives up when the first replica is unhealthy
Mut_best(i) == i = 1 /\ healthy[list[i]]

\* the first replica whose flag is set
best(i) == healthy[list[i]] /\ \A j \in 1 .. i - 1 : ~healthy[list[j]]

\* tryFailover up to master.Swap(best); the lists are changed after it
tryFailover ==
  /\ mon.at = "failover"
  /\ \/ /\ healthy[master] \/ ~\E i \in DOMAIN list : best(i)
        /\ mon' = Done
        /\ UNCHANGED <<master, since, good>>
     \/ /\ ~healthy[master]
        /\ \E i \in DOMAIN list : best(i) /\ master' = list[i]
        /\ since' = -1
        /\ good' = 0
        /\ mon' = [at |-> "swapped", todo |-> {}, old |-> master]
  /\ UNCHANGED <<mode, known, list, healthy, link, nextSlave, closing, shut, op>>

Without(s, i) == [j \in 1 .. Len(s) - 1 |-> IF j < i THEN s[j] ELSE s[j + 1]]

\* the promoted node stays in the list
Mut_Relist ==
  /\ mon.at = "swapped"
  /\ list' = Append(list, mon.old)
  /\ Flag(mon.old, FALSE)
  /\ mon' = Done
  /\ UNCHANGED <<mode, known, master, link, since, nextSlave, closing, shut, good>>

\* the rest of tryFailover, under mu: the promoted node leaves the list, the
\* old master enters it
Relist ==
  /\ mon.at = "swapped"
  /\ \E i \in DOMAIN list :
       /\ list[i] = master
       /\ list' = Append(Without(list, i), mon.old)
  /\ Flag(mon.old, FALSE)
  /\ mon' = Done
  /\ UNCHANGED <<mode, known, master, link, since, nextSlave, closing, shut, good>>

------------------------------------------------------------------------------
(* Close                                                                    *)

\* the caller, between two operations, closes stopCh
Close ==
  /\ closing = "no" /\ op = Quiet
  /\ closing' = "stopping"
  /\ UNCHANGED <<mode, known, monitorVars, link, nextSlave, shut, op>>

\* the goroutine receives from stopCh, between two rounds only
Stop ==
  /\ closing = "stopping" /\ mon.at = "idle"
  /\ mon' = [mon EXCEPT !.at = "stopped"]
  /\ UNCHANGED <<mode, known, master, list, healthy, link, since, nextSlave,
                 closing, shut, op, good>>

\* Close does not wait for the goroutine
Mut_CloseClients ==
  /\ closing = "stopping"
  /\ shut' = Range(list) \cup ({master} \ {None})
  /\ closing' = "closed"
  /\ UNCHANGED <<mode, known, monitorVars, link, nextSlave, op>>

\* wg.Wait has returned: the clients of the master and of the list are closed
CloseClients ==
  /\ closing = "stopping" /\ mon.at = "stopped"
  /\ shut' = Range(list) \cup ({master} \ {None})
  /\ closing' = "closed"
  /\ UNCHANGED <<mode, known, monitorVars, link, nextSlave, op>>

------------------------------------------------------------------------------
(* The caller                                                               *)

\* an operation starts: steady are the nodes whose flag has been set since
Begin(at, h) ==
  /\ closing = "no" /\ op = Quiet
  /\ op' = [at |-> at, snap |-> list, i |-> 1, acc |-> 0, hash |-> h,
            node |-> None, counted |-> {}, seen |-> {},
            steady |-> {n \in Range(list) : healthy[n]}]
  /\ UNCHANGED <<mode, known, monitorVars, link, nextSlave, closing, shut>>

\* MasterSlaveMode.Get and ShardMode.Get, Set, Del, Len, Keys
Get == mode = "master_slave" /\ Begin("pick", 0)
Route(h) == mode = "shard" /\ Begin("sum", h)
ShardLen == mode = "shard" /\ Begin("len", 0)

CallerStep == UNCHANGED <<mode, known, monitorVars, link, closing, shut>>

More == op.i <= Len(op.snap)
Here == op.snap[op.i]

\* one slave too few is tried
Mut_pickSlave ==
  /\ op.at = "pick"
  /\ CallerStep
  /\ IF op.i < Len(op.snap)
     THEN LET n == (nextSlave + 1) % CounterSize
              s == op.snap[(n % Len(op.snap)) + 1]
          IN /\ nextSlave' = n
             /\ op' = IF healthy[s] THEN [op EXCEPT !.at = "picked", !.node = s]
                      ELSE [op EXCEPT !.i = @ + 1,
                                      !.seen = @ \cup (IF n = 0 THEN {"wrap"} ELSE {})]
     ELSE nextSlave' = nextSlave /\ op' = [op EXCEPT !.at = "picked"]

\* one turn of pickSlave's loop: advance the shared counter, load one flag
pickSlave ==
  /\ op.at = "pick"
  /\ CallerStep
  /\ IF More
     THEN LET n == (nextSlave + 1) % CounterSize
              s == op.snap[(n % Len(op.snap)) + 1]
          IN /\ nextSlave' = n
             /\ op' = IF healthy[s] THEN [op EXCEPT !.at = "picked", !.node = s]
                      ELSE [op EXCEPT !.i = @ + 1,
                                      !.seen = @ \cup (IF n = 0 THEN {"wrap"} ELSE {})]
     ELSE nextSlave' = nextSlave /\ op' = [op EXCEPT !.at = "picked"]

\* another goroutine's AddUint32
OtherRead ==
  /\ mode = "master_slave"
  /\ nextSlave' = (nextSlave + 1) % CounterSize
  /\ op' = IF op = Quiet THEN op ELSE [op EXCEPT !.seen = @ \cup {"other"}]
  /\ CallerStep

\* pickNode, first pass: the weight of the nodes flagged healthy
SumWeights ==
  /\ op.at = "sum"
  /\ CallerStep /\ UNCHANGED nextSlave
  /\ op' = CASE More      -> [op EXCEPT !.i = @ + 1,
                                !.acc = @ + IF healthy[Here] THEN Weight[Here] ELSE 0]
             [] ~More /\ op.acc = 0 -> [op EXCEPT !.at = "picked"]
             [] OTHER     -> [op EXCEPT !.at = "walk", !.i = 1, !.acc = 0,
                                        !.hash = @ % op.acc]

\* the walk stops one virtual node late
Mut_WalkWeights ==
  /\ op.at = "walk"
  /\ CallerStep /\ UNCHANGED nextSlave
  /\ op' = IF ~More THEN [op EXCEPT !.at = "picked"]
           ELSE LET cursor == op.acc + IF healthy[Here] THEN Weight[Here] ELSE 0
                IN IF healthy[Here] /\ op.hash <= cursor
                   THEN [op EXCEPT !.at = "picked", !.node = Here]
                   ELSE [op EXCEPT !.i = @ + 1, !.acc = cursor]

\* pickNode, second pass: the node in whose share the index falls
WalkWeights ==
  /\ op.at = "walk"
  /\ CallerStep /\ UNCHANGED nextSlave
  /\ op' = IF ~More THEN [op EXCEPT !.at = "picked"]
           ELSE LET cursor == op.acc + IF healthy[Here] THEN Weight[Here] ELSE 0
                IN IF healthy[Here] /\ op.hash < cursor
                   THEN [op EXCEPT !.at = "picked", !.node = Here]
                   ELSE [op EXCEPT !.i = @ + 1, !.acc = cursor]

\* ShardMode.Len and Keys: unhealthy nodes are skipped, the first failed call
\* fails the operation
CountNode ==
  /\ op.at = "len"
  /\ CallerStep /\ UNCHANGED nextSlave
  /\ CASE ~More          -> op' = [op EXCEPT !.at = "total"]
       [] More /\ ~healthy[Here] -> op' = [op EXCEPT !.i = @ + 1]
       [] OTHER          ->
            \E ok \in probeNodeHealth(Here) :
              op' = IF ok THEN [op EXCEPT !.i = @ + 1, !.counted = @ \cup {Here}]
                    ELSE Quiet

\* MasterSlaveMode.Get loads the flag of the slave it was given once more
UseSlave ==
  /\ mode = "master_slave" /\ op.at = "picked"
  /\ op' = [op EXCEPT !.at = IF op.node # None /\ healthy[op.node]
                             THEN "answer" ELSE "fallback"]
  /\ CallerStep /\ UNCHANGED nextSlave

\* it falls back to the master of that moment
LoadMaster ==
  /\ op.at = "fallback"
  /\ op' = [op EXCEPT !.at = "master", !.node = master]
  /\ CallerStep /\ UNCHANGED nextSlave

\* the flag of the master it loaded, or in ShardMode.node that of the node that
\* pickNode returned; None stands for the error
TestNode ==
  /\ op.at = "master" \/ (mode = "shard" /\ op.at = "picked")
  /\ op' = [op EXCEPT !.at = "answer",
                      !.node = IF op.node # None /\ healthy[op.node] THEN @ ELSE None]
  /\ CallerStep /\ UNCHANGED nextSlave

\* the call to the chosen node (or the error) ends the operation; Get, Set and
\* Del of the shard mode do not test the node that pickNode returned
Finish ==
  /\ op.at \in {"answer", "total"} \/ (mode = "shard" /\ op.at = "picked")
  /\ op' = Quiet
  /\ CallerStep /\ UNCHANGED nextSlave

------------------------------------------------------------------------------
Monitor == Tick \/ (\E n \in Node : Probe(n)) \/ ProbesDone \/ checkAndFailover
           \/ tryFailover \/ Relist

Caller == Get \/ (\E h \in Hash : Route(h)) \/ ShardLen \/ pickSlave
          \/ SumWeights \/ WalkWeights \/ CountNode
          \/ UseSlave \/ LoadMaster \/ TestNode \/ Finish

Next == \/ \E n \in Node : Lose(n)
        \/ Pass \/ Monitor \/ Close \/ Stop \/ CloseClients
        \/ Caller \/ OtherRead

Spec == Init /\ [][Next]_vars

(* The health goroutine keeps being scheduled, its ticker keeps firing and   *)
(* the clock keeps moving.  A select with the ticker and stopCh both ready   *)
(* takes each with probability one half: strong fairness of Stop.            *)
FairSpec == Spec /\ WF_vars(Monitor) /\ WF_vars(Pass) /\ SF_vars(Stop)
            /\ WF_vars(CloseClients)

------------------------------------------------------------------------------
(* Properties                                                               *)

\* Every variable has its type.
TypeOK ==
  /\ mode \in Modes
  /\ known \subseteq Node
  /\ master \in Node \cup {None}
  /\ list \in Seq(known)
  /\ healthy \in [Node -> BOOLEAN]
  /\ link \in [Node -> BOOLEAN]
  /\ mon.at \in {"idle", "probe", "failover", "swapped", "stopped"}
  /\ mon.todo \subseteq known
  /\ mon.old \in known \cup {None}
  /\ since \in -1 .. FailoverTimeout
  /\ good \in 0 .. FailoverTimeout
  /\ nextSlave \in 0 .. CounterSize - 1
  /\ closing \in {"no", "stopping", "closed"}
  /\ shut \subseteq known
  /\ op = Quiet \/ op.at \in {"pick", "sum", "walk", "len", "picked", "fallback", "master",
                             "answer", "total"}

\* No failover loses or duplicates a node: the master and the list hold every
\* dialled node once, except between master.Swap and the update of the list in
\* tryFailover, when the promoted node is in both and the old master in neither.
EachNodeOnce ==
  mode # "shard" =>
    /\ IsInjective(list)
    /\ IF mon.at = "swapped"
       THEN /\ master \in Range(list) /\ mon.old \notin Range(list)
            /\ known = Range(list) \cup {mon.old}
       ELSE /\ master \notin Range(list)
            /\ known = Range(list) \cup {master}

\* checkAndFailover deposes a master only when no probe of it has succeeded
\* for FailoverTimeout, and in favour of a replica flagged healthy.
FailoverJustified ==
  [][master' # master =>
       /\ good >= FailoverTimeout /\ ~healthy[master]
       /\ master' \in Range(list) /\ healthy[master']]_vars

\* Close reaches every dialled node, whatever failover it arrives in: waiting
\* for the goroutine is what keeps the old master from being missed.
CloseReachesAll ==
  closing = "closed" => shut = known

\* The virtual nodes pickNode's comment speaks of: each node at a place in S,
\* as often as its weight says.
Shares(S, l) == UNION {{j} \X (1 .. Weight[l[j]]) : j \in S}

\* Those of the healthy nodes among the first i.
Virtual(l, i) == Shares({j \in 1 .. i : healthy[l[j]]}, l)

\* pickNode returns the node of the index-th virtual node, in the order of the
\* list, when no flag changed during its two passes; when flags changed it
\* misses a node that stayed healthy only if another one went down.
RoutesByWeight ==
  (mode = "shard" /\ op.at = "picked") =>
    /\ op.seen = {} =>
         LET upTo(i) == Cardinality(Virtual(op.snap, i))
             total == upTo(Len(op.snap))
         IN IF total = 0 THEN op.node = None
            ELSE \E i \in 1 .. Len(op.snap) :
                   /\ op.node = op.snap[i]
                   /\ upTo(i - 1) <= op.hash % total /\ op.hash % total < upTo(i)
    /\ (op.node = None /\ op.steady # {}) => "down" \in op.seen

\* The node RoutesByWeight gives a hash while the flags that are set are S's.
Owner(h, S) ==
  LET upTo(i) == Cardinality(Shares({j \in 1 .. i : Config[j] \in S}, Config))
      index == h % upTo(Len(Config))
  IN {Config[i] : i \in {j \in DOMAIN Config : upTo(j - 1) <= index /\ index < upTo(j)}}

\* What the comment of ShardMode ("using consistent hashing") promises: a key
\* keeps its node while that node is healthy.  pickNode reduces the hash modulo
\* the weight of the healthy nodes, so that another node's flag moves the key.
KeysStayPut ==
  (mode = "shard" /\ op.at = "idle") =>
    \A h \in Hash : \A n \in Owner(h, Node) :
      healthy[n] => Owner(h, {m \in Node : healthy[m]}) = {n}

\* MasterSlaveMode.Get falls back to the master, though a slave of its snapshot
\* stayed healthy, only if another reader moved the counter meanwhile, or the
\* counter wrapped and its size is not a multiple of the number of slaves, or
\* the slave it was given went down before its flag was loaded again.
FallbackExplained ==
  (mode = "master_slave" /\ op.at = "fallback" /\ op.steady # {})
     => \/ "other" \in op.seen
        \/ "wrap" \in op.seen /\ CounterSize % Len(op.snap) # 0
        \/ op.node # None /\ op.node \notin op.steady /\ "down" \in op.seen

\* Failover ends with a master that can answer, and Close with its clients
\* closed, even one that waits for a round of probes or a failover: if the
\* connections of some node that answers every probe last, from some time on the
\* cluster is closed, or nobody closes it and the master has its connections.
MasterServes ==
  (<>[](\E n \in known \ Flaky : link[n]))
    => <>[](\/ closing = "closed"
            \/ closing = "no" /\ (mode = "shard" \/ link[master]))

==============================================================================
