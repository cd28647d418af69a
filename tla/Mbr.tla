--------------------------------- MODULE Mbr ---------------------------------
(****************************************************************************)
(* Package mbr: the decision engine that grows the shard table under load.  *)
(*                                                                          *)
(* RunDecisionLoop samples the cache at each tick, pushes the sample into   *)
(* the ring buffer of FeatureMatrix, scores it (Decide) and sends an event  *)
(* when the decision changed.  RunMigrationExecutor receives the events and *)
(* runs Execute: Resize, then wait for the incremental rehash to end, in    *)
(* pause while the machine is loaded, and by force after MaxMigrationTime.  *)
(* The two goroutines meet in the channel, in the flag migrationActive and  *)
(* in the cache, of which only the shard count and the steps left to the    *)
(* rehash are kept (module Cache has the rest).                             *)
(*                                                                          *)
(* Ratios are integers: a rate of memory growth in thousandths a second, a  *)
(* ratio in hundredths, a factor in thousandths, a score in 1/100000.       *)
(****************************************************************************)
EXTENDS Integers, Sequences, FiniteSets

CONSTANTS
  Sample,       \* the feature records a tick may collect
  Capacity,     \* of the ring buffer
  ChanSize,     \* of decisionCh
  Snapshot,     \* what the monitor may report: [cpu, mem], in hundredths
  KeyCount,     \* what cache.Len may return to Execute
  Work,         \* how many steps a rehash may need
  MinLoad,      \* the floor of the adjusted load (64 in the code)
  TargetLoadPerShard, MinShards, MaxShards,   \* MigratorConfig
  FirstShards,  \* the shard count of the cache at the start
  MaxResizes    \* bound: resizes, by the executor or by others

Features == [memGrowth : Int, hitRate : Nat, newKeys : Nat, evictions : Nat,
             keysGrowth : Int, output : Nat, backlog : Nat, aof : Nat, large : Nat]

ASSUME MbrAssumption ==
  /\ Sample \subseteq Features
  /\ Capacity \in Nat \ {0} /\ ChanSize \in Nat
  /\ KeyCount \subseteq Nat /\ Work \subseteq Nat
  /\ {MinLoad, TargetLoadPerShard, MinShards, MaxShards, FirstShards} \subseteq Nat \ {0}
  /\ \A s \in Snapshot : s.cpu \in 0 .. 100 /\ s.mem \in 0 .. 100
  /\ MaxResizes \in Nat

VARIABLES
  buf, head,    \* FeatureMatrix; size is Len(buf)
  prevDecision, \* of RunDecisionLoop; "" before the first event
  deciding,     \* RunDecisionLoop is between Push and the send
  decisionCh,
  snap,         \* Monitor.Latest
  exec,         \* where RunMigrationExecutor is, and its target
  state,        \* MigrationProgress.State
  migrationActive,
  overdue,      \* Execute's loop has run for MaxMigrationTime
  shards, left, \* the cache: shard count, steps left to its rehash
  resizes,      \* resizes so far
  origin,       \* history: who began the last rehash
  cancelled,    \* the context
  past          \* history: the last windows pushed, oldest first

decisionVars == <<buf, head, prevDecision, deciding, past>>
executorVars == <<exec, state, migrationActive>>
cacheVars == <<shards, left, resizes, origin>>

vars == <<decisionVars, decisionCh, snap, executorVars, overdue, cacheVars,
          cancelled>>

Larger(a, b) == IF a >= b THEN a ELSE b
Smaller(a, b) == IF a <= b THEN a ELSE b

------------------------------------------------------------------------------
(* FeatureMatrix                                                            *)

\* the write position is not moved
Mut_Push(w) ==
  IF Len(buf) < Capacity
  THEN buf' = Append(buf, w) /\ UNCHANGED head
  ELSE buf' = [buf EXCEPT ![head + 1] = w] /\ UNCHANGED head

Push(w) ==
  IF Len(buf) < Capacity
  THEN buf' = Append(buf, w) /\ UNCHANGED head
  ELSE /\ buf' = [buf EXCEPT ![head + 1] = w]
       /\ head' = (head + 1) % Capacity

\* the newest n windows, oldest first
GetRecent(n) ==
  LET m     == Smaller(n, Len(buf))
      start == (head - m + Capacity) % Capacity
  IN IF Len(buf) < Capacity
     THEN [i \in 1 .. m |-> buf[Len(buf) - m + i]]
     ELSE [i \in 1 .. m |-> buf[((start + i - 1) % Capacity) + 1]]

------------------------------------------------------------------------------
(* The scorecard                                                            *)

One == 1000

memGrowthScore(rate) ==
  CASE rate <= 0 -> 0 [] rate >= 50 -> One [] OTHER -> rate * 20

hitRateScore(rate) ==
  CASE rate >= 95 -> 0 [] rate <= 70 -> One [] OTHER -> (95 - rate) * 40

newKeysScore(rate) ==
  CASE rate >= 50 -> One [] rate <= 10 -> 0 [] OTHER -> (rate - 10) * 25

evictionPressureScore(eps) ==
  CASE eps >= 100 -> One [] eps <= 10 -> 0 [] OTHER -> ((eps - 10) * One) \div 90

keysGrowthScore(rate) ==
  CASE rate <= 0 -> 0 [] rate >= 500 -> One [] OTHER -> rate * 2

\* from -One to 0; the AOF buffer is in megabytes
bufferPenalty(s) ==
  LET over(usage) == IF usage > 80 THEN (usage - 80) * 50 ELSE 0
      aof == IF s.aof > 512 THEN Smaller(((s.aof - 512) * One) \div 512, One) ELSE 0
      large == Smaller(s.large, 10) * 100
  IN - Smaller(over(s.output) + over(s.backlog) + aof + large, One)

isFalsePressure(s) == s.output > 80 \/ s.aof > 512 \/ s.large > 0

clamp01(v) == Larger(0, Smaller(v, 100 * One))

\* DefaultWeights, in hundredths, applied to the factors of a window
Weighted(s, bufPen) ==
  LET growth == Larger(memGrowthScore(s.memGrowth), (keysGrowthScore(s.keysGrowth) * 8) \div 10)
  IN clamp01(35 * growth + 25 * hitRateScore(s.hitRate) + 20 * newKeysScore(s.newKeys)
             + 15 * evictionPressureScore(s.evictions) + 5 * bufPen)

\* falsePressureFactor and migrationSuppressionFactor
Suppressed(w, raw) ==
  LET damped == IF isFalsePressure(w.sample) THEN (raw * 6) \div 10 ELSE raw
  IN IF w.busy THEN (damped * 3) \div 10 ELSE damped

\* the final score of Decide
Score(w) == Suppressed(w, Weighted(w.sample, bufferPenalty(w.sample)))

\* the score of a window of the past: false pressure costs the whole penalty
recomputeScore(w) ==
  Suppressed(w, Weighted(w.sample, IF isFalsePressure(w.sample) THEN -One
                                   ELSE bufferPenalty(w.sample)))

migrateThreshold == 55 * One
consecutiveWindows == 2

\* only the current window and the one before it are looked at
Mut_Decide(w) ==
  LET recent == GetRecent(consecutiveWindows + 1)
  IN IF /\ Score(w) > migrateThreshold
        /\ IF Len(recent) >= consecutiveWindows + 1
           THEN recomputeScore(recent[consecutiveWindows]) > migrateThreshold
           ELSE Score(w) > migrateThreshold + 10 * One
     THEN "MIGRATE" ELSE "EVICT"

\* the window has been pushed already: it is the last of the recent ones
Decide(w) ==
  LET recent == GetRecent(consecutiveWindows + 1)
  IN IF /\ Score(w) > migrateThreshold
        /\ IF Len(recent) >= consecutiveWindows + 1
           THEN \A i \in 1 .. consecutiveWindows :
                  recomputeScore(recent[i]) > migrateThreshold
           ELSE Score(w) > migrateThreshold + 10 * One
     THEN "MIGRATE" ELSE "EVICT"

------------------------------------------------------------------------------
(* RunDecisionLoop                                                          *)

Running == ~cancelled

\* history: the windows Decide should look back at
Remember(w) ==
  past' = IF Len(past) < consecutiveWindows + 1 THEN Append(past, w)
          ELSE Append(Tail(past), w)

\* GetLatestStats and Push; busy is RehashActive || MigrationActive
GetLatestStats(s) ==
  LET w == [sample |-> s, busy |-> left > 0 \/ migrationActive]
  IN /\ Running /\ ~deciding
     /\ deciding' = TRUE
     /\ Push(w)
     /\ Remember(w)
     /\ UNCHANGED <<prevDecision, decisionCh, snap, executorVars, overdue,
                    cacheVars, cancelled>>

\* Decide, and the send that never blocks
SendDecision ==
  /\ deciding
  /\ deciding' = FALSE
  /\ LET d == Decide(past[Len(past)])
     IN IF d # prevDecision /\ Len(decisionCh) < ChanSize
        THEN prevDecision' = d /\ decisionCh' = Append(decisionCh, d)
        ELSE UNCHANGED <<prevDecision, decisionCh>>
  /\ UNCHANGED <<buf, head, past, snap, executorVars, overdue, cacheVars, cancelled>>

------------------------------------------------------------------------------
(* The migration executor                                                   *)

Outside == [at |-> "select", from |-> 0, target |-> 0]
IsRehashing == left > 0
IsActive == state \in {"RUNNING", "PAUSED"}

shouldPause == snap.cpu > 80 \/ snap.mem > 85

Pow2 == {2 ^ i : i \in 0 .. 12}

nextPowerOfTwo(n) ==
  IF n <= 1 THEN 1
  ELSE CHOOSE p \in Pow2 : p >= n /\ \A q \in Pow2 : q >= n => p <= q

\* above 60% of memory the load per shard shrinks, down to a quarter
calculateTargetShards(currentKeys) ==
  LET adjusted == Larger(MinLoad,
                    (TargetLoadPerShard * (1600 - 30 * (snap.mem - 60))) \div 1600)
      effectiveLoad == IF snap.mem > 60 THEN adjusted ELSE TargetLoadPerShard
      target == currentKeys \div effectiveLoad
  IN nextPowerOfTwo(Smaller(Larger(target, MinShards), MaxShards))

\* bound: a resize Execute may be about to make counts already
RoomToResize ==
  resizes + (IF exec.at \in {"execute", "resize"} THEN 1 ELSE 0) < MaxResizes

\* an event is received; anything but a MIGRATE that can run is skipped
Receive ==
  /\ exec = Outside /\ decisionCh # <<>> /\ RoomToResize
  /\ decisionCh' = Tail(decisionCh)
  /\ exec' = IF Head(decisionCh) = "MIGRATE" /\ ~IsRehashing /\ ~IsActive
             THEN [Outside EXCEPT !.at = "execute"] ELSE exec
  /\ UNCHANGED <<decisionVars, snap, state, migrationActive, overdue, cacheVars,
                 cancelled>>

\* Execute: the target is computed from a key count and a snapshot
Execute(currentKeys) ==
  LET targetShards == calculateTargetShards(currentKeys)
  IN /\ exec.at = "execute"
     /\ exec' = IF IsRehashing \/ targetShards <= shards THEN Outside
                ELSE [at |-> "resize", from |-> shards, target |-> targetShards]
     /\ UNCHANGED <<decisionVars, decisionCh, snap, state, migrationActive,
                    overdue, cacheVars, cancelled>>

\* cache.Resize, which fails when another caller's rehash is under way
Resize ==
  /\ exec.at = "resize"
  /\ IF IsRehashing
     THEN exec' = Outside /\ UNCHANGED cacheVars
     ELSE /\ exec' = [Outside EXCEPT !.at = "resized"]
          /\ shards' = exec.target
          /\ left' \in Work
          /\ resizes' = resizes + 1
          /\ origin' = "executor"
  /\ UNCHANGED <<decisionVars, decisionCh, snap, state, migrationActive,
                 overdue, cancelled>>

\* SetMigrationActive(true), updateProgress(MigrationRunning), start
BeginWatch ==
  /\ exec.at = "resized"
  /\ exec' = [exec EXCEPT !.at = "watch"]
  /\ state' = "RUNNING"
  /\ migrationActive' = TRUE
  /\ UNCHANGED <<decisionVars, decisionCh, snap, overdue, cacheVars, cancelled>>

\* Execute returns, through its deferred SetMigrationActive(false)
Return(s) ==
  /\ exec' = Outside
  /\ state' = s
  /\ migrationActive' = FALSE
  /\ overdue' = FALSE

Continue(at, s) ==
  /\ exec' = [exec EXCEPT !.at = at]
  /\ state' = s
  /\ UNCHANGED <<migrationActive, overdue>>

\* the test of Execute's loop
Watch ==
  /\ exec.at = "watch"
  /\ IF IsRehashing THEN Continue("wait", state) ELSE Return("COMPLETED")
  /\ UNCHANGED <<decisionVars, decisionCh, snap, cacheVars, cancelled>>

\* its select finds a tick; the rehash may have ended since the test
Tick ==
  /\ exec.at = "wait"
  /\ IF shouldPause THEN Continue("paused", "PAUSED")
     ELSE Continue(IF overdue THEN "force" ELSE "watch", state)
  /\ UNCHANGED <<decisionVars, decisionCh, snap, cacheVars, cancelled>>

\* its select finds the context done
Abandon ==
  /\ exec.at = "wait" /\ cancelled
  /\ Return(state)
  /\ UNCHANGED <<decisionVars, decisionCh, snap, cacheVars, cancelled>>

\* waitResume and what follows it
WaitResume ==
  /\ exec.at = "paused"
  /\ shouldPause => cancelled
  /\ IF cancelled THEN Return(state)
     ELSE Continue(IF overdue THEN "force" ELSE "watch", "RUNNING")
  /\ UNCHANGED <<decisionVars, decisionCh, snap, cacheVars, cancelled>>

\* forceComplete gives up instead of stepping
Mut_forceComplete ==
  /\ exec.at = "force"
  /\ IsRehashing /\ Continue("watch", state)
  /\ UNCHANGED <<decisionVars, decisionCh, snap, cacheVars, cancelled>>

\* forceComplete makes a single Get
Mut_forceCompleteOnce ==
  /\ exec.at = "force"
  /\ left' = Larger(0, left - 1)
  /\ Continue("watch", "COMPLETED")
  /\ UNCHANGED <<decisionVars, decisionCh, snap, shards, resizes, origin, cancelled>>

\* forceComplete: Gets that step the rehash until it ends
forceComplete ==
  /\ exec.at = "force"
  /\ IF IsRehashing THEN left' = left - 1 /\ Continue("force", state)
     ELSE Continue("watch", "COMPLETED") /\ UNCHANGED left
  /\ UNCHANGED <<decisionVars, decisionCh, snap, shards, resizes, origin, cancelled>>

------------------------------------------------------------------------------
(* The rest of the program                                                  *)

\* a Get, Set or Del of another goroutine moves the rehash
OtherStep ==
  /\ IsRehashing
  /\ left' = left - 1
  /\ UNCHANGED <<decisionVars, decisionCh, snap, executorVars, overdue, shards,
                 resizes, origin, cancelled>>

OtherResize(n) ==
  /\ ~IsRehashing /\ RoomToResize /\ n # shards
  /\ shards' = n
  /\ left' \in Work
  /\ resizes' = resizes + 1
  /\ origin' = "others"
  /\ UNCHANGED <<decisionVars, decisionCh, snap, executorVars, overdue, cancelled>>

Observe(s) ==
  /\ snap' = s
  /\ UNCHANGED <<decisionVars, decisionCh, executorVars, overdue, cacheVars,
                 cancelled>>

MaxMigrationTime ==
  /\ exec.at \in {"watch", "wait", "paused"} /\ ~overdue
  /\ overdue' = TRUE
  /\ UNCHANGED <<decisionVars, decisionCh, snap, executorVars, cacheVars, cancelled>>

Cancel ==
  /\ ~cancelled
  /\ cancelled' = TRUE
  /\ UNCHANGED <<decisionVars, decisionCh, snap, executorVars, overdue, cacheVars>>

------------------------------------------------------------------------------
Init ==
  /\ buf = <<>> /\ head = 0 /\ past = <<>>
  /\ prevDecision = "" /\ deciding = FALSE
  /\ decisionCh = <<>>
  /\ snap \in Snapshot
  /\ exec = Outside /\ state = "IDLE" /\ migrationActive = FALSE
  /\ overdue = FALSE
  /\ shards = FirstShards /\ left = 0 /\ resizes = 0 /\ origin = "nobody"
  /\ cancelled = FALSE

Executor == \/ Receive \/ Resize \/ BeginWatch
            \/ Watch \/ Tick \/ Abandon \/ WaitResume \/ forceComplete
            \/ \E n \in KeyCount : Execute(n)

Next == \/ \E s \in Sample : GetLatestStats(s)
        \/ SendDecision \/ Executor \/ OtherStep \/ MaxMigrationTime \/ Cancel
        \/ \E n \in {1, 2} : OtherResize(n)
        \/ \E s \in Snapshot : Observe(s)

Spec == Init /\ [][Next]_vars

(* The executor's goroutine keeps being scheduled, its ticker keeps firing   *)
(* and time passes.                                                          *)
FairSpec == Spec /\ WF_vars(Executor) /\ WF_vars(MaxMigrationTime)

------------------------------------------------------------------------------
(* Properties                                                               *)

Window == [sample : Sample, busy : BOOLEAN]
Decision == {"EVICT", "MIGRATE"}

\* Every variable has its type.
TypeOK ==
  /\ Len(buf) <= Capacity /\ \A i \in DOMAIN buf : buf[i] \in Window
  /\ head \in 0 .. Capacity - 1
  /\ prevDecision \in Decision \cup {""}
  /\ deciding \in BOOLEAN
  /\ Len(decisionCh) <= ChanSize /\ \A i \in DOMAIN decisionCh : decisionCh[i] \in Decision
  /\ snap \in Snapshot
  /\ exec.at \in {"select", "execute", "resize", "resized", "watch", "wait",
                 "paused", "force"}
  /\ state \in {"IDLE", "RUNNING", "PAUSED", "COMPLETED"}
  /\ migrationActive \in BOOLEAN /\ overdue \in BOOLEAN /\ cancelled \in BOOLEAN
  /\ shards \in Pow2 /\ left \in Nat /\ resizes \in 0 .. MaxResizes
  /\ origin \in {"nobody", "executor", "others"}

\* GetRecent returns the windows pushed last, oldest first, wherever the ring
\* of FeatureMatrix has wrapped.
RecentIsHistory ==
  Capacity > consecutiveWindows => GetRecent(consecutiveWindows + 1) = past

\* What RunDecisionLoop emits as MIGRATE was decided on a window sampled outside
\* any rehash or migration and, once there is a history, confirmed by the
\* two windows before it: none of the three was below the threshold when it was
\* scored.
MigrateConfirmed ==
  [][(decisionCh' # decisionCh /\ deciding /\ ~deciding' /\ prevDecision' = "MIGRATE")
       => /\ ~past[Len(past)].busy
          /\ Len(past) > consecutiveWindows =>
               \A i \in DOMAIN past : Score(past[i]) > migrateThreshold]_vars

\* the rehash that Execute began is under way
OwnRehash == IsRehashing /\ origin = "executor"

\* What MigrationProgress and the provider's flag tell others of a migration,
\* whatever other callers step, resize or observe meanwhile: while the rehash
\* that Execute began is under way it is suppressed and never reported as
\* COMPLETED (but for the moment between Resize and updateProgress, when the
\* progress is still that of the last migration), and only a cancelled context
\* makes Execute leave it, or leave an active progress behind.
ProgressHonest ==
  /\ OwnRehash => migrationActive \/ exec.at = "resized" \/ cancelled
  /\ OwnRehash /\ state = "COMPLETED" => exec.at = "resized"
  /\ IsActive /\ ~migrationActive => cancelled

\* Execute stays for ever in no migration but one whose context lasts while the
\* load keeps coming back: once the load has relented for good or the context is
\* cancelled it returns, traffic or no traffic.  forceComplete makes the steps
\* nobody else makes, and a pause ends although the rehash it waits for may have
\* ended before it began.
ExecuteReturns == []<>(exec = Outside \/ (shouldPause /\ ~cancelled))

------------------------------------------------------------------------------
(* What docs/mbr.md says and the code does not do                           *)

DocumentedScore(w) ==
  LET raw    == Weighted(w.sample, bufferPenalty(w.sample))
      damped == IF isFalsePressure(w.sample) THEN (raw * 4) \div 10 ELSE raw
  IN IF w.busy THEN (damped * 3) \div 10 ELSE damped

\* docs/mbr.md, steps 3 and 5 of the scoring: false pressure costs a factor of
\* 0.4, and a MIGRATE needs three windows above 0.7.
MigrateAsDocumented ==
  [][(decisionCh' # decisionCh /\ deciding /\ ~deciding' /\ prevDecision' = "MIGRATE")
       => /\ Len(past) > consecutiveWindows
          /\ \A i \in DOMAIN past : DocumentedScore(past[i]) > 70 * One]_vars

\* docs/mbr.md, on pausing under load: a migration that exceeds its maximum
\* duration is finished by forceComplete.
ForcedWhenOverdue == overdue ~> exec.at \in {"force", "select"}
==============================================================================
