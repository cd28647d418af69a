------------------------------ MODULE MbrProofs ------------------------------
(****************************************************************************)
(* What holds of the migration executor for every ring capacity, channel    *)
(* size, configuration and workload.                                        *)
(****************************************************************************)
EXTENDS Mbr, SequenceTheorems, TLAPS

Watching == {"watch", "wait", "paused", "force"}
States == {"IDLE", "RUNNING", "PAUSED", "COMPLETED"}

\* The executor is a record with a place.
Placed(e) == e = [at |-> e.at, from |-> e.from, target |-> e.target]

(* ProgressHonest is not inductive: it has to be known that Execute is       *)
(* entered only while no rehash of its own is under way and the progress is  *)
(* neither RUNNING nor PAUSED, unless the context was cancelled before.      *)
ExecInv ==
  /\ exec.at \in {"select", "execute", "resize", "resized"} \cup Watching
  /\ Placed(exec)
  /\ exec.at = "select" => exec = Outside
  /\ state \in States
  /\ migrationActive \in BOOLEAN
  /\ migrationActive <=> exec.at \in Watching
  /\ exec.at \in {"execute", "resize", "resized"} => ~IsActive
  /\ exec.at = "select" /\ IsActive => cancelled

RehashInv ==
  /\ left \in Int
  /\ OwnRehash => exec.at \in {"resized"} \cup Watching \/ cancelled
  /\ OwnRehash /\ state = "COMPLETED" => exec.at = "resized"

FlagsInv == ExecInv /\ RehashInv

\* The records that Execute writes.
LEMMA Places ==
  /\ Outside.at = "select" /\ Placed(Outside)
  /\ \A a : [Outside EXCEPT !.at = a].at = a /\ Placed([Outside EXCEPT !.at = a])
  /\ \A a, f, t : LET e == [at |-> a, from |-> f, target |-> t] IN e.at = a /\ Placed(e)
  /\ \A e, a : Placed(e) => [e EXCEPT !.at = a].at = a /\ Placed([e EXCEPT !.at = a])
  BY DEF Outside, Placed

\* Nothing runs when the executor is made.
LEMMA FlagsInit == Init => FlagsInv
<1> SUFFICES ASSUME Init PROVE FlagsInv
  OBVIOUS
<1>1. exec = Outside /\ exec.at = "select" /\ Placed(exec) /\ state = "IDLE"
      /\ migrationActive = FALSE /\ left = 0 /\ origin = "nobody"
  BY Places, Zenon DEF Init
<1>2. ExecInv
  BY <1>1, Zenon DEF ExecInv, Watching, IsActive, States
<1>3. left \in Int /\ ~OwnRehash
  BY <1>1 DEF OwnRehash
<1> QED
  BY <1>2, <1>3, Zenon DEF FlagsInv, RehashInv

(* Whatever the way out of Execute, provided an active progress is left      *)
(* behind only when the context was cancelled.                               *)
LEMMA ReturnFlags ==
  ASSUME FlagsInv, NEW s \in States, Return(s), UNCHANGED <<cacheVars, cancelled>>,
         s \in {"RUNNING", "PAUSED"} => cancelled,
         OwnRehash => cancelled /\ s # "COMPLETED"
  PROVE  FlagsInv'
<1>1. /\ exec' = Outside /\ exec'.at = "select" /\ Placed(exec')
      /\ state' = s /\ migrationActive' = FALSE
  BY Places, Zenon DEF Return
<1>2. left' = left /\ (cancelled' <=> cancelled) /\ (OwnRehash' <=> OwnRehash)
  BY DEF cacheVars, OwnRehash, IsRehashing
<1>3. ExecInv'
  BY <1>1, <1>2, Zenon DEF ExecInv, Watching, IsActive, States
<1>4. left \in Int
  BY Zenon DEF FlagsInv, RehashInv
<1>5. RehashInv'
  BY <1>1, <1>2, <1>4, Zenon DEF RehashInv
<1> QED
  BY <1>3, <1>5, Zenon DEF FlagsInv

(* A step inside Execute's loop. *)
LEMMA ContinueFlags ==
  ASSUME FlagsInv, exec.at \in Watching, NEW at \in Watching, NEW s \in States,
         Continue(at, s), cancelled' = cancelled, left' \in Int,
         OwnRehash' => OwnRehash /\ s # "COMPLETED"
  PROVE  FlagsInv'
<1>1. exec'.at = at /\ Placed(exec')
  BY Places, Zenon DEF Continue, FlagsInv, ExecInv
<1>2. state' = s /\ migrationActive' = migrationActive
  BY Zenon DEF Continue
<1>3. ExecInv'
  BY <1>1, <1>2, Zenon DEF FlagsInv, ExecInv, Watching, IsActive, States
<1> QED
  BY <1>1, <1>2, <1>3, Zenon DEF FlagsInv, RehashInv

\* A step that leaves the executor and the cache alone.
LEMMA IdleFlags ==
  ASSUME FlagsInv, UNCHANGED <<executorVars, left, origin>>, cancelled => cancelled'
  PROVE  FlagsInv'
<1>1. /\ exec' = exec /\ state' = state /\ migrationActive' = migrationActive
      /\ left' = left /\ origin' = origin
  BY DEF executorVars
<1>2. OwnRehash' <=> OwnRehash
  BY <1>1, Zenon DEF OwnRehash, IsRehashing
<1> QED
  BY <1>1, <1>2, Zenon DEF FlagsInv, ExecInv, RehashInv, IsActive

\* A rehash that moves on is no other rehash.
LEMMA StepOn ==
  ASSUME left \in Int, IsRehashing, left' = left - 1, origin' = origin
  PROVE  left' \in Int /\ (OwnRehash' => OwnRehash)
  BY DEF OwnRehash, IsRehashing

\* Every step preserves FlagsInv.
LEMMA FlagsStep == FlagsInv /\ [Next]_vars => FlagsInv'
<1> SUFFICES ASSUME FlagsInv, [Next]_vars PROVE FlagsInv'
  OBVIOUS
<1>0. Work \subseteq Int
  BY MbrAssumption
<1>1. ASSUME NEW s \in Sample, GetLatestStats(s) PROVE FlagsInv'
  BY <1>1, IdleFlags DEF GetLatestStats, cacheVars
<1>2. CASE SendDecision
  BY <1>2, IdleFlags DEF SendDecision, cacheVars
<1>3. CASE Receive
  <2>1. /\ state' = state /\ migrationActive' = migrationActive /\ left' = left
        /\ cancelled' = cancelled /\ (OwnRehash' <=> OwnRehash) /\ exec = Outside
    BY <1>3 DEF Receive, cacheVars, OwnRehash, IsRehashing
  <2>2. CASE ~IsRehashing /\ ~IsActive /\ exec' = [Outside EXCEPT !.at = "execute"]
    <3>1. exec'.at = "execute" /\ Placed(exec') /\ exec.at = "select" /\ ~OwnRehash
      BY <2>1, <2>2, Places, Zenon DEF OwnRehash
    <3> QED
      BY <2>1, <2>2, <3>1, Zenon DEF FlagsInv, ExecInv, RehashInv, IsActive, Watching
  <2>3. CASE exec' = exec
    BY <2>1, <2>3, Zenon DEF FlagsInv, ExecInv, RehashInv, IsActive
  <2> QED
    BY <1>3, <2>2, <2>3, Zenon DEF Receive
<1>4. CASE Resize
  <2>1. /\ state' = state /\ migrationActive' = migrationActive /\ cancelled' = cancelled
        /\ exec.at = "resize"
    BY <1>4, Zenon DEF Resize
  <2>2. CASE IsRehashing
    <3>1. exec' = Outside /\ exec'.at = "select" /\ Placed(exec')
      BY <1>4, <2>2, Places, Zenon DEF Resize
    <3>2. left' = left /\ (OwnRehash' <=> OwnRehash)
      BY <1>4, <2>2 DEF Resize, cacheVars, OwnRehash, IsRehashing
    <3> QED
      BY <2>1, <3>1, <3>2, Zenon DEF FlagsInv, ExecInv, RehashInv, IsActive, Watching
  <2>3. CASE ~IsRehashing
    <3>1. exec'.at = "resized" /\ Placed(exec') /\ left' \in Int
      <4>1. exec' = [Outside EXCEPT !.at = "resized"] /\ left' \in Work
        BY <1>4, <2>3, Zenon DEF Resize
      <4>2. exec'.at = "resized" /\ Placed(exec')
        BY <4>1, Places, Zenon
      <4> QED
        BY <1>0, <4>1, <4>2
    <3> QED
      BY <2>1, <3>1, Zenon DEF FlagsInv, ExecInv, RehashInv, IsActive, Watching
  <2> QED
    BY <2>2, <2>3, Zenon
<1>5. CASE BeginWatch
  <2>1. exec'.at = "watch" /\ Placed(exec') /\ state' = "RUNNING" /\ migrationActive' = TRUE
    BY <1>5, Places, Zenon DEF BeginWatch, FlagsInv, ExecInv
  <2>2. left' = left
    BY <1>5 DEF BeginWatch, cacheVars
  <2> QED
    BY <2>1, <2>2, Zenon DEF FlagsInv, ExecInv, RehashInv, IsActive, Watching, States
<1>6. CASE Watch \/ Tick \/ Abandon \/ WaitResume
  <2>1. /\ cancelled' = cancelled /\ left' = left /\ UNCHANGED cacheVars
        /\ (OwnRehash' <=> OwnRehash) /\ left \in Int /\ state \in States
    <3>1. cancelled' = cancelled /\ UNCHANGED cacheVars
      BY <1>6, Zenon DEF Watch, Tick, Abandon, WaitResume
    <3> QED
      BY <3>1 DEF cacheVars, OwnRehash, IsRehashing, FlagsInv, ExecInv, RehashInv
  <2>2. exec.at \in Watching /\ (OwnRehash => state # "COMPLETED")
    BY <1>6, Zenon DEF Watch, Tick, Abandon, WaitResume, Watching, FlagsInv, RehashInv
  <2>3. ASSUME NEW a \in Watching, NEW s \in States, Continue(a, s),
               OwnRehash => s # "COMPLETED"
        PROVE  FlagsInv'
    BY <2>1, <2>2, <2>3, ContinueFlags, Zenon
  <2>4. CASE Watch
    <3>1. CASE IsRehashing
      BY <2>1, <2>2, <2>3, <2>4, <3>1, Zenon DEF Watch, Watching
    <3>2. CASE ~IsRehashing
      BY <2>1, <2>4, <3>2, ReturnFlags, Zenon DEF Watch, States, OwnRehash
    <3> QED
      BY <3>1, <3>2, Zenon
  <2>5. CASE Tick
    <3>1. CASE shouldPause
      BY <2>3, <2>5, <3>1, Zenon DEF Tick, Watching, States
    <3>2. CASE ~shouldPause
      <4>1. (IF overdue THEN "force" ELSE "watch") \in Watching
        BY Zenon DEF Watching
      <4> QED
        BY <2>1, <2>2, <2>3, <2>5, <3>2, <4>1, Zenon DEF Tick
    <3> QED
      BY <3>1, <3>2, Zenon
  <2>6. CASE Abandon
    BY <2>1, <2>2, <2>6, ReturnFlags, Zenon DEF Abandon
  <2>7. CASE WaitResume
    <3>1. CASE cancelled
      BY <2>1, <2>2, <2>7, <3>1, ReturnFlags, Zenon DEF WaitResume
    <3>2. CASE ~cancelled
      <4>1. (IF overdue THEN "force" ELSE "watch") \in Watching
        BY Zenon DEF Watching
      <4> QED
        BY <2>3, <2>7, <3>2, <4>1, Zenon DEF WaitResume, States
    <3> QED
      BY <3>1, <3>2, Zenon
  <2> QED
    BY <1>6, <2>4, <2>5, <2>6, <2>7, Zenon
<1>7. CASE forceComplete
  <2>1. /\ cancelled' = cancelled /\ origin' = origin /\ exec.at = "force"
        /\ exec.at \in Watching /\ "force" \in Watching /\ "watch" \in Watching
        /\ state \in States /\ "COMPLETED" \in States
        /\ (OwnRehash => state # "COMPLETED")
    BY <1>7, Zenon DEF forceComplete, FlagsInv, ExecInv, RehashInv, Watching, States
  <2>2. CASE IsRehashing
    <3>1. left' \in Int /\ (OwnRehash' => OwnRehash)
      BY <1>7, <2>1, <2>2, StepOn, Zenon DEF forceComplete, FlagsInv, RehashInv
    <3> QED
      BY <1>7, <2>1, <2>2, <3>1, ContinueFlags, Zenon DEF forceComplete
  <2>3. CASE ~IsRehashing
    <3>1. left' \in Int /\ ~OwnRehash'
      BY <1>7, <2>1, <2>3, Zenon DEF forceComplete, FlagsInv, RehashInv, OwnRehash, IsRehashing
    <3> QED
      BY <1>7, <2>1, <2>3, <3>1, ContinueFlags, Zenon DEF forceComplete
  <2> QED
    BY <2>2, <2>3, Zenon
<1>8. ASSUME NEW n \in KeyCount, Execute(n) PROVE FlagsInv'
  <2>1. /\ state' = state /\ migrationActive' = migrationActive /\ left' = left
        /\ cancelled' = cancelled /\ (OwnRehash' <=> OwnRehash) /\ exec.at = "execute"
    BY <1>8 DEF Execute, cacheVars, OwnRehash, IsRehashing
  <2>2. \/ exec' = Outside /\ exec'.at = "select" /\ Placed(exec')
        \/ exec'.at = "resize" /\ Placed(exec')
    BY <1>8, Places, Zenon DEF Execute
  <2> QED
    BY <2>1, <2>2, Zenon DEF FlagsInv, ExecInv, RehashInv, IsActive, Watching
<1>9. CASE OtherStep
  <2>1. /\ exec' = exec /\ state' = state /\ migrationActive' = migrationActive
        /\ cancelled' = cancelled /\ origin' = origin
    BY <1>9 DEF OtherStep, executorVars
  <2>2. left' \in Int /\ (OwnRehash' => OwnRehash)
    BY <1>9, <2>1, StepOn, Zenon DEF OtherStep, FlagsInv, RehashInv
  <2> QED
    BY <2>1, <2>2, Zenon DEF FlagsInv, ExecInv, RehashInv, IsActive
<1>10. CASE MaxMigrationTime \/ Cancel \/ (\E s \in Snapshot : Observe(s))
  BY <1>10, IdleFlags DEF MaxMigrationTime, Cancel, Observe, cacheVars, executorVars
<1>11. ASSUME NEW n \in {1, 2}, OtherResize(n) PROVE FlagsInv'
  <2>1. /\ exec' = exec /\ state' = state /\ migrationActive' = migrationActive
        /\ cancelled' = cancelled /\ origin' = "others"
    BY <1>11 DEF OtherResize, executorVars
  <2>2. left' \in Int /\ ~OwnRehash'
    BY <1>0, <1>11, <2>1, Zenon DEF OtherResize, OwnRehash
  <2> QED
    BY <2>1, <2>2, Zenon DEF FlagsInv, ExecInv, RehashInv, IsActive
<1>12. CASE UNCHANGED vars
  BY <1>12, IdleFlags DEF vars, cacheVars
<1> QED
  BY <1>1, <1>2, <1>3, <1>4, <1>5, <1>6, <1>7, <1>8, <1>9, <1>10, <1>11, <1>12, Zenon
  DEF Next, Executor

(* ProgressHonest of Execute, whatever other callers step and resize: its    *)
(* own rehash is suppressed and not reported as COMPLETED while it is under  *)
(* way, on every way through the loop of Execute (migrator.go).              *)
THEOREM ProgressSound == Spec => []ProgressHonest
<1>1. FlagsInv => ProgressHonest
  BY Zenon DEF FlagsInv, ExecInv, RehashInv, ProgressHonest, Watching, IsActive
<1> QED
  BY FlagsInit, FlagsStep, <1>1, PTL DEF Spec

------------------------------------------------------------------------------
(* The scorecard                                                            *)

(* Each factor of a window is between 0 and 1. *)
LEMMA FactorRange ==
  ASSUME NEW r \in Int
  PROVE  /\ memGrowthScore(r) \in 0 .. One
         /\ hitRateScore(r) \in 0 .. One
         /\ newKeysScore(r) \in 0 .. One
         /\ evictionPressureScore(r) \in 0 .. One
         /\ keysGrowthScore(r) \in 0 .. One
<1>1. memGrowthScore(r) \in 0 .. One
  BY DEF memGrowthScore, One
<1>2. hitRateScore(r) \in 0 .. One
  BY DEF hitRateScore, One
<1>3. newKeysScore(r) \in 0 .. One
  BY SMTT(30) DEF newKeysScore, One
<1>4. evictionPressureScore(r) \in 0 .. One
  BY DEF evictionPressureScore, One
<1>5. keysGrowthScore(r) \in 0 .. One
  BY DEF keysGrowthScore, One
<1> QED
  BY <1>1, <1>2, <1>3, <1>4, <1>5

(* The penalty of a window is between -1 and 0. *)
LEMMA PenaltyRange ==
  ASSUME NEW s \in Features
  PROVE  bufferPenalty(s) \in Int /\ -One <= bufferPenalty(s) /\ bufferPenalty(s) <= 0
<1> DEFINE over(u) == IF u > 80 THEN (u - 80) * 50 ELSE 0
           aof == IF s.aof > 512 THEN Smaller(((s.aof - 512) * One) \div 512, One) ELSE 0
           large == Smaller(s.large, 10) * 100
<1>1. over(s.output) \in Nat /\ over(s.backlog) \in Nat
  BY DEF Features
<1>2. aof \in Nat
  <2>1. s.aof > 512 => ((s.aof - 512) * One) \div 512 \in Nat
    BY DEF Features, One
  <2> QED
    BY <2>1 DEF Smaller, One
<1>3. large \in Nat
  BY DEF Features, Smaller
<1>4. bufferPenalty(s) = - Smaller(over(s.output) + over(s.backlog) + aof + large, One)
  BY DEF bufferPenalty
<1> HIDE DEF over, aof, large
<1> QED
  BY <1>1, <1>2, <1>3, <1>4 DEF Smaller, One

(* A larger penalty never raises the weighted score, which is in [0, 1]. *)
LEMMA WeightedMonotone ==
  ASSUME NEW s \in Features, NEW p \in Int, NEW q \in Int, p <= q
  PROVE  /\ Weighted(s, p) \in Int /\ 0 <= Weighted(s, p)
         /\ Weighted(s, q) \in Int /\ Weighted(s, q) <= 100000
         /\ Weighted(s, p) <= Weighted(s, q)
<1> DEFINE growth == Larger(memGrowthScore(s.memGrowth),
                            (keysGrowthScore(s.keysGrowth) * 8) \div 10)
           sum == 35 * growth + 25 * hitRateScore(s.hitRate)
                  + 20 * newKeysScore(s.newKeys)
                  + 15 * evictionPressureScore(s.evictions)
<1>1. growth \in Int
  <2>1. memGrowthScore(s.memGrowth) \in Int /\ keysGrowthScore(s.keysGrowth) \in Int
    BY FactorRange DEF Features
  <2> HIDE DEF growth
  <2>2. (keysGrowthScore(s.keysGrowth) * 8) \div 10 \in Int
    BY <2>1
  <2> QED
    BY <2>1, <2>2 DEF Larger, growth
<1>2. sum \in Int
  <2>1. /\ hitRateScore(s.hitRate) \in Int
        /\ newKeysScore(s.newKeys) \in Int
        /\ evictionPressureScore(s.evictions) \in Int
    BY FactorRange DEF Features
  <2> HIDE DEF growth
  <2> QED
    BY <1>1, <2>1
<1>3. Weighted(s, p) = clamp01(sum + 5 * p) /\ Weighted(s, q) = clamp01(sum + 5 * q)
  BY DEF Weighted
<1> HIDE DEF sum
<1> QED
  BY <1>2, <1>3 DEF clamp01, Larger, Smaller, One

(* Suppression keeps the order of scores, and takes a busy window to 0.3 at  *)
(* most.                                                                     *)
LEMMA SuppressedBounds ==
  ASSUME NEW w, NEW a \in Int, NEW b \in Int, 0 <= a, a <= b, b <= 100000
  PROVE  /\ Suppressed(w, a) \in Int /\ Suppressed(w, b) \in Int
         /\ Suppressed(w, a) <= Suppressed(w, b)
         /\ w.busy => Suppressed(w, b) <= 30000
<1> DEFINE d(x) == IF isFalsePressure(w.sample) THEN (x * 6) \div 10 ELSE x
<1>1. d(a) \in Int /\ d(b) \in Int /\ 0 <= d(a) /\ d(a) <= d(b) /\ d(b) <= 100000
  <2>1. /\ (a * 6) \div 10 \in Int /\ (b * 6) \div 10 \in Int /\ 0 <= (a * 6) \div 10
        /\ (a * 6) \div 10 <= (b * 6) \div 10 /\ (b * 6) \div 10 <= 100000
    OBVIOUS
  <2> QED
    BY <2>1
<1>2. /\ Suppressed(w, a) = IF w.busy THEN (d(a) * 3) \div 10 ELSE d(a)
      /\ Suppressed(w, b) = IF w.busy THEN (d(b) * 3) \div 10 ELSE d(b)
  BY DEF Suppressed
<1> HIDE DEF d
<1>3. /\ (d(a) * 3) \div 10 \in Int /\ (d(b) * 3) \div 10 \in Int
      /\ (d(a) * 3) \div 10 <= (d(b) * 3) \div 10 /\ (d(b) * 3) \div 10 <= 30000
  BY <1>1
<1> QED
  BY <1>1, <1>2, <1>3

(* A window never counts for more in the past than when it was decided on,   *)
(* although recomputeScore repeats the formulas of Decide.                   *)
THEOREM PastNeverInflated ==
  ASSUME NEW w, w.sample \in Features
  PROVE  recomputeScore(w) \in Int /\ Score(w) \in Int /\ recomputeScore(w) <= Score(w)
<1> DEFINE p == IF isFalsePressure(w.sample) THEN -One ELSE bufferPenalty(w.sample)
           q == bufferPenalty(w.sample)
<1>1. p \in Int /\ q \in Int /\ p <= q
  BY PenaltyRange DEF One
<1>2. recomputeScore(w) = Suppressed(w, Weighted(w.sample, p))
      /\ Score(w) = Suppressed(w, Weighted(w.sample, q))
  BY DEF recomputeScore, Score
<1> HIDE DEF p, q
<1>3. /\ Weighted(w.sample, p) \in Int /\ 0 <= Weighted(w.sample, p)
      /\ Weighted(w.sample, q) \in Int /\ Weighted(w.sample, q) <= 100000
      /\ Weighted(w.sample, p) <= Weighted(w.sample, q)
  BY <1>1, WeightedMonotone
<1> QED
  BY <1>2, <1>3, SuppressedBounds

(* Whatever its features, a window sampled during a rehash or a migration    *)
(* scores at most 0.3: Decide cannot ask for a migration then.               *)
THEOREM BusyNeverMigrates ==
  ASSUME NEW w, w.sample \in Features, w.busy
  PROVE  Decide(w) = "EVICT"
<1>1. bufferPenalty(w.sample) \in Int
  BY PenaltyRange DEF One
<1>2. LET v == Weighted(w.sample, bufferPenalty(w.sample))
      IN v \in Int /\ 0 <= v /\ v <= 100000
  BY <1>1, WeightedMonotone
<1>3. Score(w) \in Int /\ Score(w) <= 30000
  BY <1>2, SuppressedBounds DEF Score
<1>4. ~(Score(w) > migrateThreshold)
  BY <1>3 DEF migrateThreshold, One
<1> QED
  BY <1>4 DEF Decide

------------------------------------------------------------------------------
(* The ring buffer of FeatureMatrix and the decisions made on it. *)

\* From the assumption on the constants.
LEMMA CapacityPositive == Capacity \in Nat \ {0}
  BY MbrAssumption

(* Where the k-th newest window is once the ring is full. *)
Slot(k) == IF head >= k THEN head - k ELSE head - k + Capacity

(* RecentIsHistory without the arithmetic of GetRecent: the newest windows   *)
(* are at the end of buf until it is full, and before head, around the ring, *)
(* from then on.                                                             *)
RingInv ==
  /\ buf \in Seq(Window) /\ Len(buf) <= Capacity
  /\ head \in Int /\ 0 <= head /\ head < Capacity
  /\ Len(buf) < Capacity => head = 0
  /\ past \in Seq(Window) /\ Len(past) <= 3
  /\ deciding \in BOOLEAN /\ (deciding => Len(past) > 0)
  /\ Capacity > 2 =>
       /\ Len(past) = Smaller(3, Len(buf))
       /\ Len(buf) < Capacity =>
            \A i \in 1 .. Len(past) : past[i] = buf[Len(buf) - Len(past) + i]
       /\ Len(buf) = Capacity =>
            /\ past[1] = buf[Slot(3) + 1]
            /\ past[2] = buf[Slot(2) + 1]
            /\ past[3] = buf[Slot(1) + 1]

\* An empty ring agrees with an empty history.
LEMMA RingInit == Init => RingInv
<1> SUFFICES ASSUME Init PROVE RingInv
  OBVIOUS
<1>1. buf = <<>> /\ past = <<>> /\ head = 0 /\ deciding = FALSE
  BY Zenon DEF Init
<1>2. buf \in Seq(Window) /\ past \in Seq(Window) /\ Len(buf) = 0 /\ Len(past) = 0
  BY <1>1
<1>3. Smaller(3, 0) = 0 /\ Capacity # 0 /\ 0 < Capacity /\ 0 <= Capacity
      /\ 0 \in Int /\ 0 <= 0 /\ 0 <= 3 /\ \A i \in 1 .. 0 : FALSE
  BY CapacityPositive DEF Smaller
<1> QED
  BY <1>1, <1>2, <1>3, Zenon DEF RingInv

\* The lengths the history can have, for the provers.
LEMMA UpToThree == \A n \in Nat : n <= 3 => n < 3 \/ n = 3
  OBVIOUS

\* The entries of a history that reaches its full length.
LEMMA AppendToTwo ==
  ASSUME NEW S, NEW t \in Seq(S), Len(t) = 2, NEW e \in S
  PROVE  /\ Append(t, e) \in Seq(S) /\ Len(Append(t, e)) = 3
         /\ Append(t, e)[1] = t[1] /\ Append(t, e)[2] = t[2] /\ Append(t, e)[3] = e
<1>0. Len(t) + 1 = 3
  OBVIOUS
<1>1. Append(t, e) \in Seq(S) /\ Len(Append(t, e)) = 3
  BY <1>0, AppendProperties, ZenonT(40)
<1>2. Append(t, e)[1] = t[1] /\ Append(t, e)[2] = t[2]
  BY SMTT(30)
<1>3. Append(t, e)[3] = e
  <2>1. Append(t, e)[Len(t) + 1] = e
    BY AppendProperties, ZenonT(40)
  <2> QED
    BY <1>0, <2>1, Zenon
<1> QED
  BY <1>1, <1>2, <1>3

\* What a full history keeps when its oldest entry is dropped.
LEMMA TailOfThree ==
  ASSUME NEW S, NEW t \in Seq(S), Len(t) = 3
  PROVE  /\ Tail(t) \in Seq(S) /\ Len(Tail(t)) = 2
         /\ Tail(t)[1] = t[2] /\ Tail(t)[2] = t[3]
<1>0. t # <<>>
  BY SMTT(30)
<1>1. Tail(t) \in Seq(S) /\ Len(Tail(t)) = Len(t) - 1
  BY <1>0, HeadTailProperties, Zenon
<1>2. \A i \in 1 .. Len(Tail(t)) : Tail(t)[i] = t[i + 1]
  BY <1>0, HeadTailProperties, Zenon
<1>3. Len(Tail(t)) = 2 /\ 1 \in 1 .. 2 /\ 2 \in 1 .. 2 /\ 1 + 1 = 2 /\ 2 + 1 = 3
  BY <1>1
<1>4. Tail(t)[1] = t[1 + 1] /\ Tail(t)[2] = t[2 + 1]
  BY <1>2, <1>3, Zenon
<1> QED
  BY <1>1, <1>3, <1>4, Zenon

(* The remembered windows after a push. *)
LEMMA PushPast ==
  ASSUME past \in Seq(Window), Len(past) <= 3, NEW w \in Window, Remember(w)
  PROVE  /\ past' \in Seq(Window) /\ Len(past') = Smaller(3, Len(past) + 1)
         /\ Len(past) < 3 => /\ past'[Len(past) + 1] = w
                             /\ \A i \in 1 .. Len(past) : past'[i] = past[i]
         /\ Len(past) = 3 => past'[1] = past[2] /\ past'[2] = past[3] /\ past'[3] = w
<1>1. CASE Len(past) < 3
  BY <1>1, AppendProperties DEF Smaller, Remember, consecutiveWindows
<1>2. CASE Len(past) = 3
  <2>1. past' = Append(Tail(past), w)
    BY <1>2 DEF Remember, consecutiveWindows
  <2> DEFINE t == Tail(past)
  <2>2. t \in Seq(Window) /\ Len(t) = 2 /\ t[1] = past[2] /\ t[2] = past[3]
    BY <1>2, TailOfThree, Zenon
  <2> HIDE DEF t
  <2>3. past' = Append(t, w)
    BY <2>1 DEF t
  <2>4. /\ past' \in Seq(Window) /\ Len(past') = 3
        /\ past'[1] = t[1] /\ past'[2] = t[2] /\ past'[3] = w
    <3>1. /\ Append(t, w) \in Seq(Window) /\ Len(Append(t, w)) = 3
          /\ Append(t, w)[1] = t[1] /\ Append(t, w)[2] = t[2] /\ Append(t, w)[3] = w
      BY <2>2, AppendToTwo
    <3> QED
      BY <2>3, <3>1, Zenon
  <2>5. Smaller(3, Len(past) + 1) = 3
    BY <1>2 DEF Smaller
  <2> QED
    BY <1>2, <2>2, <2>4, <2>5
<1>3. Len(past) < 3 \/ Len(past) = 3
  BY LenProperties, UpToThree, Zenon
<1> QED
  BY <1>1, <1>2, <1>3, Zenon

(* Remainders of a number that is at most one turn too large. *)
LEMMA OneTurn ==
  ASSUME NEW c \in Nat \ {0}, NEW x \in Int, 0 <= x, x < c + c
  PROVE  x % c = IF x < c THEN x ELSE x - c
  OBVIOUS

(* A push, with the window remembered. *)
LEMMA PushRing ==
  ASSUME RingInv, NEW w \in Window, Push(w), deciding' = TRUE, Remember(w)
  PROVE  RingInv'
<1> USE CapacityPositive
<1>1. /\ past' \in Seq(Window) /\ Len(past') = Smaller(3, Len(past) + 1)
      /\ Len(past) < 3 => /\ past'[Len(past) + 1] = w
                          /\ \A i \in 1 .. Len(past) : past'[i] = past[i]
      /\ Len(past) = 3 => past'[1] = past[2] /\ past'[2] = past[3] /\ past'[3] = w
  BY PushPast DEF RingInv
<1>2. CASE Len(buf) < Capacity
  <2>1. buf' = Append(buf, w) /\ head' = 0 /\ head = 0
    BY <1>2 DEF RingInv, Push
  <2>2. /\ buf' \in Seq(Window) /\ Len(buf') = Len(buf) + 1 /\ buf'[Len(buf) + 1] = w
        /\ \A i \in 1 .. Len(buf) : buf'[i] = buf[i]
    BY <2>1, AppendProperties DEF RingInv
  <2>3. ASSUME Capacity > 2, NEW i \in 1 .. Len(past')
        PROVE  past'[i] = buf'[Len(buf') - Len(past') + i]
    <3>1. /\ Len(past) = Smaller(3, Len(buf))
          /\ \A j \in 1 .. Len(past) : past[j] = buf[Len(buf) - Len(past) + j]
      BY <1>2, <2>3 DEF RingInv
    <3>2. Len(buf) \in Nat /\ Len(past) \in Nat /\ Len(past) <= Len(buf) /\ Len(past) <= 3
      BY <3>1 DEF RingInv, Smaller
    <3>3. CASE Len(past) < 3
      <4>1. Len(past') = Len(past) + 1
        BY <1>1, <3>2, <3>3 DEF Smaller
      <4>2. Len(buf') - Len(past') + i = Len(buf) - Len(past) + i
        BY <2>2, <3>2, <4>1
      <4>3. CASE i = Len(past) + 1
        BY <1>1, <2>2, <3>2, <3>3, <4>2, <4>3, SMTT(30)
      <4>4. CASE i \in 1 .. Len(past)
        <5>1. Len(buf) - Len(past) + i \in 1 .. Len(buf)
          BY <3>2, <4>4
        <5> QED
          BY <1>1, <2>2, <3>1, <3>3, <4>2, <4>4, <5>1, ZenonT(40)
      <4> QED
        BY <3>2, <4>1, <4>3, <4>4
    <3>4. CASE Len(past) = 3
      <4>1. Len(past') = 3 /\ Len(buf) >= 3
        BY <1>1, <3>2, <3>4 DEF Smaller
      <4>2. CASE i = 3
        <5>1. Len(buf') - Len(past') + i = Len(buf) + 1
          BY <2>2, <3>2, <4>1, <4>2
        <5>2. past'[i] = w
          BY <1>1, <3>4, <4>2
        <5> QED
          BY <2>2, <5>1, <5>2
      <4>3. CASE i \in 1 .. 2
        <5>1. past'[i] = past[i + 1]
          BY <1>1, <3>4, <4>3
        <5> DEFINE j == i + 1
        <5>j. j \in 1 .. 3
          BY <4>3
        <5> HIDE DEF j
        <5>k. past[j] = buf[Len(buf) - 3 + j]
          BY <3>1, <3>4, <5>j, Zenon
        <5>2. past[i + 1] = buf[Len(buf) - 3 + (i + 1)]
          BY <5>k DEF j
        <5>3. Len(buf) - 3 + (i + 1) \in 1 .. Len(buf)
              /\ Len(buf) - 3 + (i + 1) = Len(buf') - Len(past') + i
          BY <2>2, <3>2, <4>1, <4>3
        <5> QED
          BY <2>2, <5>1, <5>2, <5>3
      <4> QED
        BY <4>1, <4>2, <4>3
    <3>5. Len(past) < 3 \/ Len(past) = 3
      BY <3>2, UpToThree, Zenon
    <3> QED
      BY <3>3, <3>4, <3>5, Zenon
  <2>4. ASSUME Capacity > 2 PROVE Len(past') = Smaller(3, Len(buf'))
    BY <1>1, <1>2, <2>2, <2>4 DEF RingInv, Smaller
  <2>5. ASSUME Capacity > 2, Len(buf') = Capacity
        PROVE  /\ past'[1] = buf'[Slot(3)' + 1]
               /\ past'[2] = buf'[Slot(2)' + 1]
               /\ past'[3] = buf'[Slot(1)' + 1]
    <3>1. Len(past') = 3
      BY <2>4, <2>5 DEF Smaller
    <3>2. /\ past'[1] = buf'[Capacity - 2] /\ past'[2] = buf'[Capacity - 1]
          /\ past'[3] = buf'[Capacity]
      BY <2>3, <2>5, <3>1
    <3>3. Slot(3)' + 1 = Capacity - 2 /\ Slot(2)' + 1 = Capacity - 1 /\ Slot(1)' + 1 = Capacity
      BY <2>1, <2>5 DEF Slot
    <3> QED
      BY <3>2, <3>3
  <2>6. Len(buf') <= Capacity /\ Len(past') <= 3 /\ Len(past') > 0
    BY <1>1, <1>2, <2>2 DEF RingInv, Smaller
  <2> QED
    BY <1>1, <2>1, <2>2, <2>3, <2>4, <2>5, <2>6, Zenon DEF RingInv
<1>3. CASE Len(buf) = Capacity
  <2>1. buf' = [buf EXCEPT ![head + 1] = w] /\ head' = (head + 1) % Capacity
    BY <1>3 DEF Push
  <2>2. head' = IF head + 1 < Capacity THEN head + 1 ELSE 0
    <3> DEFINE x == head + 1
    <3>1. x \in Int /\ 0 <= x /\ x <= Capacity /\ x < Capacity + Capacity
      BY DEF RingInv
    <3> HIDE DEF x
    <3>2. x % Capacity = IF x < Capacity THEN x ELSE x - Capacity
      BY <3>1, OneTurn, Zenon
    <3> QED
      BY <2>1, <3>1, <3>2 DEF x
  <2>3. /\ buf' \in Seq(Window) /\ Len(buf') = Capacity /\ buf'[head + 1] = w
        /\ \A i \in 1 .. Capacity : i # head + 1 => buf'[i] = buf[i]
    <3>1. head + 1 \in 1 .. Len(buf) /\ buf \in Seq(Window)
      BY <1>3 DEF RingInv
    <3> QED
      BY <1>3, <2>1, <3>1, ExceptSeq
  <2>4. Len(past') <= 3 /\ Len(past') > 0
    BY <1>1 DEF RingInv, Smaller
  <2>5. ASSUME Capacity > 2
        PROVE  /\ Len(past') = 3 /\ past'[3] = buf'[Slot(1)' + 1]
               /\ past'[2] = buf'[Slot(2)' + 1] /\ past'[1] = buf'[Slot(3)' + 1]
    <3>0. head \in Int /\ 0 <= head /\ head < Capacity
      BY DEF RingInv
    <3>1. /\ Slot(1)' = head /\ Slot(2)' = Slot(1) /\ Slot(3)' = Slot(2)
          /\ Slot(1) + 1 \in 1 .. Capacity /\ Slot(2) + 1 \in 1 .. Capacity
          /\ Slot(1) + 1 # head + 1 /\ Slot(2) + 1 # head + 1
      BY <2>2, <2>5, <3>0 DEF Slot
    <3>2. Len(past) = 3 /\ past[3] = buf[Slot(1) + 1] /\ past[2] = buf[Slot(2) + 1]
      BY <1>3, <2>5 DEF RingInv, Smaller
    <3>3. Len(past') = 3
      BY <1>1, <3>2 DEF Smaller
    <3> QED
      BY <1>1, <2>3, <3>1, <3>2, <3>3, ZenonT(40)
  <2>6. head' \in Int /\ 0 <= head' /\ head' < Capacity
    BY <2>2 DEF RingInv
  <2>7. /\ Len(buf') <= Capacity /\ ~(Len(buf') < Capacity)
        /\ Smaller(3, Len(buf')) = Smaller(3, Capacity)
    BY <2>3
  <2>8. Capacity > 2 => Smaller(3, Capacity) = 3
    BY DEF Smaller
  <2> QED
    BY <1>1, <2>3, <2>4, <2>5, <2>6, <2>7, <2>8, Zenon DEF RingInv
<1> QED
  BY <1>2, <1>3 DEF RingInv

\* Every step preserves RingInv.
LEMMA RingStep == FlagsInv /\ RingInv /\ [Next]_vars => RingInv'
<1> SUFFICES ASSUME FlagsInv, RingInv, [Next]_vars PROVE RingInv'
  OBVIOUS
<1>1. ASSUME NEW s \in Sample, GetLatestStats(s) PROVE RingInv'
  <2>1. [sample |-> s, busy |-> left > 0 \/ migrationActive] \in Window
    BY DEF Window, FlagsInv, ExecInv
  <2> QED
    BY <1>1, <2>1, PushRing DEF GetLatestStats
<1>2. CASE SendDecision
  BY <1>2, Zenon DEF SendDecision, RingInv, Slot
<1>3. CASE UNCHANGED decisionVars
  BY <1>3 DEF decisionVars, RingInv, Slot
<1>4. UNCHANGED vars => UNCHANGED decisionVars
  BY DEF vars
<1>5. Executor => UNCHANGED decisionVars
  BY DEF Executor, Receive, Execute, Resize, BeginWatch, Watch, Tick, Abandon, WaitResume,
         forceComplete
<1>6. OtherStep \/ MaxMigrationTime \/ Cancel \/ (\E n \in {1, 2} : OtherResize(n))
        \/ (\E s \in Snapshot : Observe(s)) => UNCHANGED decisionVars
  BY DEF OtherStep, MaxMigrationTime, Cancel, OtherResize, Observe
<1> QED
  BY <1>1, <1>2, <1>3, <1>4, <1>5, <1>6 DEF Next

(* The arithmetic of GetRecent finds the slots. *)
LEMMA RecentIsPast ==
  ASSUME RingInv, Capacity > 2
  PROVE  GetRecent(3) = past
<1> USE CapacityPositive
<1>1. past = [i \in 1 .. Len(past) |-> past[i]]
  BY DEF RingInv
<1>2. Len(past) = Smaller(3, Len(buf))
  BY DEF RingInv
<1>3. CASE Len(buf) < Capacity
  <2>1. GetRecent(3) = [i \in 1 .. Len(past) |-> buf[Len(buf) - Len(past) + i]]
    BY <1>2, <1>3 DEF GetRecent
  <2> QED
    BY <1>1, <1>3, <2>1, Zenon DEF RingInv
<1>4. CASE Len(buf) = Capacity
  <2> DEFINE x == head - 3 + Capacity
             start == x % Capacity
  <2>1. Len(past) = 3 /\ Smaller(3, Len(buf)) = 3 /\ ~(Len(buf) < Capacity)
    BY <1>2, <1>4 DEF Smaller
  <2>2. GetRecent(3) = [i \in 1 .. 3 |-> buf[((start + i - 1) % Capacity) + 1]]
    BY <2>1 DEF GetRecent
  <2>3. start = Slot(3)
    <3>1. x \in Int /\ 0 <= x /\ x < Capacity + Capacity
      BY DEF RingInv
    <3> HIDE DEF x
    <3>2. start = IF x < Capacity THEN x ELSE x - Capacity
      BY <3>1, OneTurn, Zenon
    <3> HIDE DEF start
    <3> QED
      BY <3>2 DEF RingInv, Slot, x
  <2> HIDE DEF start, x
  <2>4. ASSUME NEW i \in 1 .. 3 PROVE past[i] = buf[((start + i - 1) % Capacity) + 1]
    <3> DEFINE y == start + i - 1
    <3>1. Slot(3) \in Int /\ 0 <= Slot(3) /\ Slot(3) < Capacity
      BY DEF RingInv, Slot
    <3>2. y \in Int /\ 0 <= y /\ y < Capacity + Capacity
      BY <2>3, <3>1
    <3> HIDE DEF y
    <3>3. y % Capacity = IF y < Capacity THEN y ELSE y - Capacity
      BY <3>2, OneTurn, Zenon
    <3> DEFINE z == IF y < Capacity THEN y ELSE y - Capacity
    <3>4. /\ i = 1 => z = Slot(3)
          /\ i = 2 => z = Slot(2)
          /\ i = 3 => z = Slot(1)
      BY <2>3 DEF RingInv, Slot, y
    <3>5. i = 1 \/ i = 2 \/ i = 3
      OBVIOUS
    <3> HIDE DEF z
    <3>6. past[i] = buf[z + 1]
      BY <1>4, <3>4, <3>5 DEF RingInv
    <3> QED
      BY <3>3, <3>6 DEF y, z
  <2> QED
    BY <1>1, <2>1, <2>2, <2>4
<1> QED
  BY <1>3, <1>4 DEF RingInv

(* RecentIsHistory of the ring buffer, for every capacity: GetRecent returns *)
(* the windows pushed last, oldest first, however often the ring wrapped.    *)
THEOREM RecentCorrect == Spec => []RecentIsHistory
<1>1. RingInv => RecentIsHistory
  BY RecentIsPast DEF RecentIsHistory, consecutiveWindows
<1> QED
  BY FlagsInit, FlagsStep, RingInit, RingStep, <1>1, PTL DEF Spec

------------------------------------------------------------------------------
(* Decisions                                                                *)

\* A window is a sample and whether the cache was busy.
LEMMA WindowFeatures ==
  ASSUME NEW w \in Window
  PROVE  w.sample \in Features /\ w.busy \in BOOLEAN
  BY MbrAssumption DEF Window

(* A MIGRATE was decided on a window outside any migration, above the        *)
(* threshold, and on two such windows before it once they exist.             *)
LEMMA DecideConfirmed ==
  ASSUME RingInv, Capacity > 2, Len(past) > 0, Decide(past[Len(past)]) = "MIGRATE"
  PROVE  /\ ~past[Len(past)].busy
         /\ Len(past) > 2 => \A i \in DOMAIN past : Score(past[i]) > migrateThreshold
<1> DEFINE w == past[Len(past)]
<1>1. \A i \in 1 .. Len(past) : past[i] \in Window
  BY DEF RingInv
<1>2. w \in Window
  BY <1>1 DEF RingInv
<1> HIDE DEF w
<1>3. ~w.busy
  <2>1. w.busy => Decide(w) = "EVICT"
    BY <1>2, WindowFeatures, BusyNeverMigrates
  <2> QED
    BY <2>1 DEF w
<1>4. ASSUME Len(past) > 2, NEW i \in DOMAIN past
      PROVE  Score(past[i]) > migrateThreshold
  <2>1. Len(past) = 3 /\ i \in 1 .. 3
    BY <1>4 DEF RingInv
  <2>2. GetRecent(3) = past
    BY RecentIsPast
  <2>3. /\ Score(w) > migrateThreshold
        /\ \A j \in 1 .. 2 : recomputeScore(past[j]) > migrateThreshold
    <3>1. Decide(w) = "MIGRATE"
      BY DEF w
    <3>2. GetRecent(consecutiveWindows + 1) = past /\ Len(past) >= consecutiveWindows + 1
      BY <2>1, <2>2 DEF consecutiveWindows
    <3>3. /\ Score(w) > migrateThreshold
          /\ \A j \in 1 .. consecutiveWindows : recomputeScore(past[j]) > migrateThreshold
      BY <3>1, <3>2, Zenon DEF Decide
    <3> QED
      BY <3>3 DEF consecutiveWindows
  <2>4. CASE i = 3
    BY <2>1, <2>3, <2>4 DEF w
  <2>5. CASE i \in 1 .. 2
    <3>1. past[i].sample \in Features
      BY <1>1, <2>1, WindowFeatures
    <3>2. /\ recomputeScore(past[i]) \in Int /\ Score(past[i]) \in Int
          /\ recomputeScore(past[i]) <= Score(past[i])
      BY <3>1, PastNeverInflated
    <3>3. recomputeScore(past[i]) > migrateThreshold
      BY <2>3, <2>5
    <3> QED
      BY <3>2, <3>3 DEF migrateThreshold, One
  <2> QED
    BY <2>1, <2>4, <2>5
<1> QED
  BY <1>3, <1>4 DEF w

(* MigrateConfirmed of RunDecisionLoop, for every capacity that holds the    *)
(* windows Decide looks at, every sample and every interleaving with the     *)
(* executor.                                                                 *)
THEOREM MigrateSound ==
  ASSUME Capacity > consecutiveWindows
  PROVE  Spec => MigrateConfirmed
<1> DEFINE Sent == decisionCh' # decisionCh /\ deciding /\ ~deciding' /\ prevDecision' = "MIGRATE"
           Confirmed == /\ ~past[Len(past)].busy
                        /\ Len(past) > consecutiveWindows =>
                             \A i \in DOMAIN past : Score(past[i]) > migrateThreshold
<1>1. RingInv /\ [Next]_vars => [Sent => Confirmed]_vars
  <2> SUFFICES ASSUME RingInv, Next, Sent PROVE Confirmed
    BY DEF vars
  <2>1. deciding' # deciding
    BY Zenon DEF RingInv
  <2>2. SendDecision
    <3>1. ASSUME NEW s \in Sample, GetLatestStats(s) PROVE FALSE
      BY <3>1 DEF GetLatestStats
    <3>2. UNCHANGED decisionVars => deciding' = deciding
      BY DEF decisionVars
    <3>3. Executor => UNCHANGED decisionVars
      BY DEF Executor, Receive, Execute, Resize, BeginWatch, Watch, Tick, Abandon, WaitResume,
         forceComplete
    <3>4. OtherStep \/ MaxMigrationTime \/ Cancel \/ (\E n \in {1, 2} : OtherResize(n))
            \/ (\E s \in Snapshot : Observe(s)) => UNCHANGED decisionVars
      BY DEF OtherStep, MaxMigrationTime, Cancel, OtherResize, Observe
    <3> QED
      BY <2>1, <3>1, <3>2, <3>3, <3>4, Zenon DEF Next
  <2>3. Decide(past[Len(past)]) = "MIGRATE"
    BY <2>2, Zenon DEF SendDecision
  <2>4. Len(past) > 0 /\ Capacity > 2
    BY DEF RingInv, consecutiveWindows
  <2> QED
    BY <2>3, <2>4, DecideConfirmed DEF consecutiveWindows
<1> QED
  BY FlagsInit, FlagsStep, RingInit, RingStep, <1>1, PTL DEF Spec, MigrateConfirmed
==============================================================================
