---------------------------- MODULE AlertProofs ----------------------------
(* Proofs that nothing over the limit is missed and that nobody is alerted   *)
(* twice, when nothing fails: no crash, no failed reinit, and every user has *)
(* an account in oscam.user.  They go on where StopProofs ends.              *)
EXTENDS StopProofs

Faultless == MaxFaults = 0 /\ Accounts = Users

(* The status of a record that is not stopped is the verdict on its strikes. *)
VerdictOK(record) ==
    record.status = "stopped" \/ record.status = Verdict(record.strikes)

(* The record has counted every "over" reading of the history.               *)
Counts(state, u, n) == Stopped(state, u) \/ n <= state[u].strikes

(* The record forbids a second alert: the user is stopped, or beyond the     *)
(* limit with a policy that stops nobody.                                    *)
Warned(state, u) ==
    \/ Stopped(state, u)
    \/ state[u].strikes >= StrikeCount /\ ~ EffectiveAutoStop(Action[u])

Silent(state, u) == alerts[u] = 0 \/ Warned(state, u)

(* The users whose count of alerts the save of p resets.                     *)
Resetting(p) == {u \in Users : job[p] = "reset" /\ pc[p] = "save" /\ cur[p] = u}

StoreTracks ==
    \A u \in Users :
        /\ VerdictOK(store[u])
        /\ alerts[u] <= 1
        /\ lock = Free => Counts(store, u, over[u]) /\ Silent(store, u)

(* What the holder of the lock has in memory.                                *)
MemTracks(p) ==
    \A u \in Users :
        /\ VerdictOK(mem[p][u])
        /\ Counts(mem[p], u, Streak(u))
        /\ u \in Resetting(p) \/ Silent(mem[p], u)

(* A cycle on its way to a stop has sent no alert for that user yet.         *)
FirstAlert(p) ==
    job[p] \in Cycles /\ pc[p] \in {"stopEdit", "stopReinit"} => alerts[cur[p]] = 0

TracksOf(p) == lock = p => MemTracks(p) /\ FirstAlert(p)

TracksInv == ~ stale => StoreTracks /\ \A p \in Procs : TracksOf(p)

(* What a step of p has to establish.                                        *)
TracksBy(p) == StoreTracks /\ TracksOf(p)

-----------------------------------------------------------------------------
(* The records.                                                              *)

LEMMA FreshTracks ==
  /\ VerdictOK(Fresh) /\ Fresh.strikes = 0
  BY StrikeCountAssumption DEF VerdictOK, Verdict, Fresh

(* One reading of a user that is not stopped, and of which the record may    *)
(* have forgotten what the history has still to forget.                      *)
LEMMA ReadingTracks ==
  ASSUME NEW record \in UserState, NEW reading \in Readings,
         VerdictOK(record), record.status # "stopped"
  PROVE  /\ VerdictOK(NextState(reading, record))
         /\ NextState(reading, record).status # "stopped"
         /\ reading = "over" => NextState(reading, record).strikes = record.strikes + 1
         /\ reading = "none" => NextState(reading, record) = record
<1>1. NextState(reading, record).status # "stopped"
  BY NextStateNotStopped
<1>2. CASE reading = "none"
  BY <1>1, <1>2 DEF NextState
<1>3. CASE reading # "none"
  <2>1. NextState(reading, record) = Recorded(NextStrikes(reading, record), record)
    BY <1>3 DEF NextState
  <2>2. VerdictOK(NextState(reading, record))
    BY <2>1 DEF VerdictOK, Recorded
  <2>3. reading = "over" => NextState(reading, record).strikes = record.strikes + 1
    BY <2>1 DEF Recorded, NextStrikes
  <2> QED BY <1>1, <1>3, <2>2, <2>3
<1> QED BY <1>2, <1>3

-----------------------------------------------------------------------------
(* The steps of one process.                                                 *)

LEMMA TracksLock ==
  ASSUME StopInv, NEW p \in Procs, TracksBy(p),
         Start(p) \/ LockCycle(p) \/ LockDisable(p) \/ LockEnable(p) \/ LockReset(p)
  PROVE  TracksBy(p)'
<1> USE DEF StopInv, AccountInv, TypeInv, TypeOK, Goto
<1>1. CASE Start(p)
  <2>1. lock # p /\ UNCHANGED <<lock, store, over, alerts>>
    BY <1>1 DEF Start, StartCycle, StartCommand, StartSaveInstance, LockInv, Holding,
                AtUser, shared, ghosts
  <2> QED BY <2>1 DEF TracksBy, StoreTracks, Counts, Silent, Warned, Stopped, TracksOf
<1>2. CASE ~ Start(p)
  <2>1. /\ UNCHANGED <<store, over, alerts, job, cur>>
        /\ lock = Free /\ lock' = p /\ lock' # Free /\ broken = {}
    BY <1>2, FreeAssumption DEF LockCycle, LockDisable, LockEnable, LockReset, Acquire,
                                streaks, Break, StreakInv
  <2>2. \A u \in Users : /\ VerdictOK(store[u])
                         /\ Counts(store, u, over[u]) /\ Silent(store, u)
    BY <2>1 DEF TracksBy, StoreTracks
  <2>3. StoreTracks'
    BY <2>1 DEF TracksBy, StoreTracks
  <2>4. CASE LockCycle(p) \/ LockDisable(p) \/ LockEnable(p)
    <3>1. /\ mem'[p] = store /\ broken' = broken /\ pc'[p] # "stopReinit"
          /\ pc'[p] = "stopEdit" => job[p] = "disable"
      BY <2>4 DEF LockCycle, LockDisable, LockEnable, streaks
    <3>2. MemTracks(p)'
      BY <2>1, <2>2, <3>1 DEF MemTracks, Counts, Silent, Warned, Stopped, Streak
    <3>3. FirstAlert(p)'
      BY <2>1, <3>1 DEF FirstAlert, Cycles
    <3> QED BY <2>3, <3>2, <3>3 DEF TracksBy, TracksOf
  <2>5. CASE LockReset(p)
    <3>1. /\ mem' = [mem EXCEPT ![p] = [store EXCEPT ![cur[p]] = Fresh]]
          /\ pc'[p] = "save" /\ job[p] = "reset" /\ cur[p] \in Users
          /\ broken' = {cur[p]} /\ tail'[cur[p]] = 0
      BY <2>1, <2>5 DEF LockReset, Acquire, Break, CurOK, Commands
    <3>2. \A u \in Users : mem'[p][u] = IF u = cur[p] THEN Fresh ELSE store[u]
      BY <3>1
    <3>3. ASSUME NEW u \in Users
          PROVE  /\ VerdictOK(mem'[p][u])
                 /\ Counts(mem[p], u, Streak(u))'
                 /\ u \in Resetting(p)' \/ Silent(mem[p], u)'
      <4>1. CASE u = cur[p]
        <5>1. mem'[p][u] = Fresh /\ Streak(u)' = 0 /\ u \in Resetting(p)'
          BY <2>1, <3>1, <3>2, <4>1 DEF Streak, Resetting
        <5> QED BY <5>1, FreshTracks DEF Counts
      <4>2. CASE u # cur[p]
        <5>1. mem'[p][u] = store[u] /\ Streak(u)' = over[u] /\ alerts'[u] = alerts[u]
          BY <2>1, <3>1, <3>2, <4>2 DEF Streak
        <5> QED BY <2>2, <5>1 DEF Counts, Silent, Warned, Stopped
      <4> QED BY <4>1, <4>2
    <3>4. MemTracks(p)'
      BY <3>3 DEF MemTracks
    <3>5. FirstAlert(p)'
      BY <3>1 DEF FirstAlert
    <3> QED BY <2>3, <3>4, <3>5 DEF TracksBy, TracksOf
  <2> QED BY <1>2, <2>4, <2>5
<1> QED BY <1>1, <1>2

(* The steps that touch neither a record nor a count.                        *)
LEMMA TracksLoops ==
  ASSUME StopInv, NEW p \in Procs, TracksBy(p),
         \/ ReenableNext(p) \/ ReenableEnd(p) \/ EvaluateEnd(p)
         \/ StopEdit(p) \/ ReinstateEdit(p)
  PROVE  TracksBy(p)'
<1> USE DEF StopInv, AccountInv, TypeInv, TypeOK, Goto
<1>1. /\ UNCHANGED <<store, lock, streaks, alerts, job, mem>>
      /\ lock = p /\ pc'[p] # "stopEdit"
      /\ pc'[p] = "stopReinit" => pc[p] = "stopEdit" /\ cur' = cur
      /\ job[p] = "reset" => pc[p] # "reenable" /\ pc[p] # "evaluate"
      /\ pc[p] # "save"
  BY DEF ReenableNext, ReenableEnd, EvaluateEnd, StopEdit, ReinstateEdit, EditAccount,
         shared, ghosts, streaks, LockInv, Holding, AtUser, JobInv, JobOf, Cycles
<1>2. StoreTracks'
  BY <1>1 DEF TracksBy, StoreTracks, Counts, Silent, Warned, Stopped, streaks
<1>3. MemTracks(p)'
  <2>1. MemTracks(p)
    BY <1>1 DEF TracksBy, TracksOf
  <2>2. \A u \in Users : u \notin Resetting(p)
    BY <1>1 DEF Resetting
  <2> QED BY <1>1, <2>1, <2>2 DEF MemTracks, Counts, Silent, Warned, Stopped, Streak, streaks
<1>4. FirstAlert(p)'
  BY <1>1 DEF TracksBy, TracksOf, FirstAlert
<1> QED BY <1>2, <1>3, <1>4 DEF TracksBy, TracksOf

(* The alerts of one user, `a` of them since the flag was last reset, after  *)
(* one more reading.                                                         *)
LEMMA ReadingAlerts ==
  ASSUME NEW record \in UserState, NEW reading \in Readings, NEW action,
         NEW a \in Nat, a <= 1,
         a = 0 \/ (record.strikes >= StrikeCount /\ ~ EffectiveAutoStop(action))
  PROVE  /\ ShouldStop(reading, record, action) => a = 0
         /\ ~ ShouldStop(reading, record, action) =>
              LET after == NextState(reading, record)
                  a1 == IF reading = "under" THEN 0
                        ELSE IF ShouldNotify(action, CrossedThreshold(record, after), FALSE)
                             THEN CountTo(2, a) ELSE a
              IN  /\ a1 \in Nat /\ a1 <= 1
                  /\ \/ a1 = 0
                     \/ after.strikes >= StrikeCount /\ ~ EffectiveAutoStop(action)
<1> DEFINE after == NextState(reading, record)
           a1 == IF reading = "under" THEN 0
                 ELSE IF ShouldNotify(action, CrossedThreshold(record, after), FALSE)
                      THEN CountTo(2, a) ELSE a
<1>1. ShouldStop(reading, record, action) => a = 0
  BY DEF ShouldStop
<1>2. ASSUME ~ ShouldStop(reading, record, action)
      PROVE  /\ a1 \in Nat /\ a1 <= 1
             /\ a1 = 0 \/ (after.strikes >= StrikeCount /\ ~ EffectiveAutoStop(action))
  <2>1. CASE reading = "under"
    BY <2>1
  <2>2. CASE reading = "none"
    <3>1. after = record
      BY <2>2 DEF NextState
    <3>2. ~ CrossedThreshold(record, after)
      <4>1. record.strikes \in Nat
        BY DEF UserState
      <4> QED BY <3>1, <4>1, StrikeCountAssumption DEF CrossedThreshold
    <3>3. a1 = a
      BY <2>2, <3>2 DEF ShouldNotify
    <3> QED BY <3>1, <3>3
  <2>3. CASE reading = "over"
    <3>1. after.strikes = record.strikes + 1 /\ record.strikes \in Nat
      BY <2>3 DEF NextState, Recorded, NextStrikes, UserState
    <3>2. CASE CrossedThreshold(record, after)
      <4>1. record.strikes < StrikeCount /\ after.strikes >= StrikeCount
        BY <3>2 DEF CrossedThreshold
      <4>2. a = 0
        BY <3>1, <4>1, StrikeCountAssumption
      <4>3. a1 \in {0, 1}
        BY <2>3, <4>2 DEF CountTo
      <4>4. ~ EffectiveAutoStop(action)
        BY <1>2, <2>3, <3>1, <4>1 DEF ShouldStop, NextStrikes
      <4> HIDE DEF a1, after
      <4> QED BY <4>1, <4>3, <4>4
    <3>3. CASE ~ CrossedThreshold(record, after)
      <4>1. a1 = a
        BY <2>3, <3>3 DEF ShouldNotify
      <4>2. record.strikes >= StrikeCount => after.strikes >= StrikeCount
        BY <3>1, StrikeCountAssumption
      <4> QED BY <4>1, <4>2
    <3> QED BY <3>2, <3>3
  <2> QED BY <2>1, <2>2, <2>3 DEF Readings
<1> QED BY <1>1, <1>2

LEMMA TracksEvaluate ==
  ASSUME StopInv, NEW p \in Procs, TracksBy(p), Observe(p) \/ DecideStop(p)
  PROVE  TracksBy(p)'
<1>1. PICK u \in todo[p] :
        /\ mem' = [mem EXCEPT ![p][u] = NextState(NextReading(p, u), mem[p][u])]
        /\ Count(u, NextReading(p, u))
        /\ \/ /\ pc'[p] = "evaluate"
              /\ ~ ShouldStop(NextReading(p, u), mem[p][u], Action[u])
              /\ alerts' =
                   IF NextReading(p, u) = "under" THEN [alerts EXCEPT ![u] = 0]
                   ELSE IF ShouldNotify(Action[u],
                             CrossedThreshold(mem[p][u],
                                              NextState(NextReading(p, u), mem[p][u])),
                             FALSE)
                   THEN [alerts EXCEPT ![u] = CountTo(2, alerts[u])]
                   ELSE alerts
           \/ /\ pc'[p] = "stopEdit" /\ cur'[p] = u
              /\ ShouldStop(NextReading(p, u), mem[p][u], Action[u])
              /\ alerts' = alerts
        /\ pc[p] = "evaluate"
        /\ UNCHANGED <<store, lock, job>>
  BY DEF Observe, DecideStop, shared, Goto, StopInv, AccountInv, TypeInv, TypeOK
<1> DEFINE reading == NextReading(p, u)
           record == mem[p][u]
           new == NextState(reading, record)
<1>2. /\ u \in Users /\ reading \in Readings /\ record \in UserState
      /\ record.strikes \in Nat
      /\ mem \in [Procs -> [Users -> UserState]] /\ alerts \in [Users -> Nat]
  BY <1>1, NextReadingType DEF StopInv, AccountInv, TypeInv, TypeOK, UserState
<1>3. /\ lock = p /\ ~ Stopped(mem[p], u)
      /\ \A v \in Users : v \notin Resetting(p) /\ v \notin Resetting(p)'
  <2>1. lock = p /\ ~ Stopped(mem[p], u) /\ job[p] \in Cycles
    BY <1>1 DEF StopInv, AccountInv, LockInv, Holding, TodoInv, JobInv, JobOf
  <2> QED BY <1>1, <2>1 DEF Resetting, Cycles
<1>4. MemTracks(p) /\ alerts[u] <= 1
  BY <1>2, <1>3 DEF TracksBy, TracksOf, StoreTracks
<1>5. /\ alerts[u] = 0 \/ (record.strikes >= StrikeCount /\ ~ EffectiveAutoStop(Action[u]))
      /\ VerdictOK(record) /\ record.status # "stopped" /\ Streak(u) <= record.strikes
  BY <1>2, <1>3, <1>4 DEF MemTracks, Silent, Warned, Counts, Stopped
<1>6. /\ VerdictOK(new) /\ new.status # "stopped"
      /\ reading = "over" => new.strikes = record.strikes + 1
      /\ reading = "under" => new.strikes = 0
      /\ reading = "none" => new = record
  <2>1. reading = "under" => new.strikes = 0
    BY DEF NextState, Recorded, NextStrikes
  <2> HIDE DEF reading, record
  <2> QED BY <1>2, <1>5, <2>1, ReadingTracks
<1>7. /\ \A v \in Users \ {u} : alerts'[v] = alerts[v]
      /\ alerts'[u] \in Nat /\ alerts'[u] <= 1
      /\ pc'[p] = "evaluate" =>
           \/ alerts'[u] = 0
           \/ new.strikes >= StrikeCount /\ ~ EffectiveAutoStop(Action[u])
      /\ pc'[p] = "stopEdit" => alerts'[u] = 0 /\ cur'[p] = u
  <2> DEFINE a1 == IF reading = "under" THEN 0
                   ELSE IF ShouldNotify(Action[u], CrossedThreshold(record, new), FALSE)
                        THEN CountTo(2, alerts[u]) ELSE alerts[u]
  <2>1. /\ ShouldStop(reading, record, Action[u]) => alerts[u] = 0
        /\ ~ ShouldStop(reading, record, Action[u]) =>
             /\ a1 \in Nat /\ a1 <= 1
             /\ a1 = 0 \/ (new.strikes >= StrikeCount /\ ~ EffectiveAutoStop(Action[u]))
    <3>1. /\ alerts[u] \in Nat /\ alerts[u] <= 1
          /\ reading \in Readings /\ record \in UserState
          /\ \/ alerts[u] = 0
             \/ record.strikes >= StrikeCount /\ ~ EffectiveAutoStop(Action[u])
      BY <1>2, <1>4, <1>5
    <3> HIDE DEF reading, record
    <3> QED BY <3>1, ReadingAlerts
  <2>2. CASE pc'[p] = "evaluate"
    <3>1. /\ ~ ShouldStop(reading, record, Action[u])
          /\ alerts'[u] = a1
          /\ \A v \in Users \ {u} : alerts'[v] = alerts[v]
      BY <1>1, <1>2, <2>2
    <3> HIDE DEF a1, new, reading, record
    <3> QED BY <2>1, <2>2, <3>1
  <2>3. CASE pc'[p] = "stopEdit"
    BY <1>1, <1>2, <2>1, <2>3
  <2> QED BY <1>1, <2>2, <2>3
<1>8. /\ \A v \in Users \ {u} : Streak(v)' = Streak(v)
      /\ reading = "over" => Streak(u)' = CountTo(StrikeCount, Streak(u))
      /\ reading = "under" => Streak(u)' = 0
      /\ reading = "none" => Streak(u)' = Streak(u)
  BY <1>1, <1>2, CountStreak DEF StopInv, AccountInv
<1>9. Streak(u)' <= new.strikes
  <2>1. Streak(u) \in Nat /\ StrikeCount \in Nat
    BY <1>2, StreakType, StrikeCountAssumption DEF StopInv, AccountInv
  <2>2. CountTo(StrikeCount, Streak(u)) <= Streak(u) + 1
    BY <2>1 DEF CountTo
  <2>3. CountTo(StrikeCount, Streak(u)) \in Nat
    BY <2>1, CountToType
  <2>4. reading \in {"over", "under", "none"}
    BY <1>2 DEF Readings
  <2> HIDE DEF reading, new, record
  <2> QED BY <1>2, <1>5, <1>6, <1>8, <2>1, <2>2, <2>3, <2>4
<1> HIDE DEF new, record, reading
<1>10. \A v \in Users : mem'[p][v] = IF v = u THEN new ELSE mem[p][v]
  <2>1. mem' = [mem EXCEPT ![p][u] = new]
    BY <1>1 DEF new, record, reading
  <2> QED BY <1>2, <2>1, MemUpdate
<1>11. StoreTracks'
  <2>1. lock' # Free
    BY <1>1, <1>3, FreeAssumption
  <2>2. \A v \in Users : VerdictOK(store[v]) /\ alerts'[v] <= 1
    BY <1>7 DEF TracksBy, StoreTracks
  <2> QED BY <1>1, <2>1, <2>2 DEF StoreTracks
<1>12. ASSUME NEW v \in Users
       PROVE  /\ VerdictOK(mem'[p][v])
              /\ Counts(mem[p], v, Streak(v))'
              /\ Silent(mem[p], v)'
  <2>1. CASE v # u
    <3>1. /\ mem'[p][v] = mem[p][v] /\ Streak(v)' = Streak(v) /\ alerts'[v] = alerts[v]
          /\ v \notin Resetting(p)
      BY <1>3, <1>7, <1>8, <1>10, <2>1
    <3> QED BY <1>4, <3>1 DEF MemTracks, Counts, Silent, Warned, Stopped
  <2>2. CASE v = u
    <3>1. VerdictOK(mem'[p][v]) /\ Counts(mem[p], v, Streak(v))'
      BY <1>6, <1>9, <1>10, <2>2 DEF Counts
    <3>2. Silent(mem[p], v)'
      BY <1>1, <1>7, <1>10, <2>2 DEF Silent, Warned
    <3> QED BY <3>1, <3>2
  <2> QED BY <2>1, <2>2
<1>13. MemTracks(p)'
  BY <1>12 DEF MemTracks
<1>14. FirstAlert(p)'
  BY <1>1, <1>7 DEF FirstAlert
<1> QED BY <1>11, <1>13, <1>14 DEF TracksBy, TracksOf

LEMMA TracksStop ==
  ASSUME StopInv, NEW p \in Procs, TracksBy(p), StopReinit(p)
  PROVE  TracksBy(p)'
<1> USE DEF StopInv, AccountInv, TypeInv, TypeOK, Goto
<1>1. /\ lock = p /\ cur[p] \in Users /\ pc[p] = "stopReinit"
      /\ UNCHANGED <<store, lock, streaks, job, cur>>
      /\ pc'[p] = IF job[p] \in Cycles THEN "evaluate" ELSE "save"
      /\ job[p] \in Cycles \cup {"disable"}
  BY DEF StopReinit, LockInv, Holding, AtUser, CurOK, JobInv, JobOf
<1>2. PICK new : mem' = [mem EXCEPT ![p][cur[p]] = new] /\ new.status = "stopped"
  <2> DEFINE new == [mem[p][cur[p]] EXCEPT !.status = "stopped", !.until = pending[p]]
  <2>1. new.status = "stopped"
    BY <1>1 DEF UserState
  <2>2. mem' = [mem EXCEPT ![p][cur[p]] = new]
    BY DEF StopReinit
  <2> HIDE DEF new
  <2> QED BY <2>1, <2>2
<1>3. \A v \in Users : mem'[p][v] = IF v = cur[p] THEN new ELSE mem[p][v]
  BY <1>1, <1>2, MemUpdate
<1>4. \A v \in Users : /\ alerts'[v] <= 1
                       /\ v # cur[p] => alerts'[v] = alerts[v]
  <2>1. \A v \in Users : alerts[v] \in Nat /\ alerts[v] <= 1
    BY DEF TracksBy, StoreTracks
  <2>2. job[p] \in Cycles => alerts[cur[p]] = 0
    BY <1>1 DEF TracksBy, TracksOf, FirstAlert
  <2>3. \/ alerts' = alerts
        \/ /\ job[p] \in Cycles
           /\ alerts' = [alerts EXCEPT ![cur[p]] = CountTo(2, alerts[cur[p]])]
    BY DEF StopReinit
  <2>4. CountTo(2, 0) = 1
    BY DEF CountTo
  <2> QED BY <1>1, <2>1, <2>2, <2>3, <2>4
<1>5. StoreTracks'
  BY <1>1, <1>4, FreeAssumption DEF TracksBy, StoreTracks
<1>6. ASSUME NEW v \in Users
      PROVE  /\ VerdictOK(mem'[p][v])
             /\ Counts(mem[p], v, Streak(v))'
             /\ Silent(mem[p], v)'
  <2>1. CASE v = cur[p]
    <3>1. mem'[p][v].status = "stopped"
      BY <1>2, <1>3, <2>1
    <3> QED BY <3>1 DEF VerdictOK, Counts, Silent, Warned, Stopped
  <2>2. CASE v # cur[p]
    <3>1. /\ VerdictOK(mem[p][v])
          /\ Counts(mem[p], v, Streak(v))
          /\ v \in Resetting(p) \/ Silent(mem[p], v)
      BY <1>1 DEF TracksBy, TracksOf, MemTracks
    <3>2. /\ mem'[p][v] = mem[p][v] /\ Streak(v)' = Streak(v) /\ alerts'[v] = alerts[v]
          /\ v \notin Resetting(p)
      BY <1>1, <1>3, <1>4, <2>2 DEF Resetting, Streak, streaks
    <3> QED BY <3>1, <3>2 DEF Counts, Silent, Warned, Stopped
  <2> QED BY <2>1, <2>2
<1>7. FirstAlert(p)'
  BY <1>1 DEF FirstAlert
<1> QED BY <1>5, <1>6, <1>7 DEF TracksBy, TracksOf, MemTracks

LEMMA TracksReinstate ==
  ASSUME StopInv, NEW p \in Procs, TracksBy(p), ReinstateReinit(p)
  PROVE  TracksBy(p)'
<1> USE DEF StopInv, AccountInv, TypeInv, TypeOK, Goto
<1>1. /\ lock = p /\ cur[p] \in Users /\ pc[p] = "reinstateReinit"
      /\ UNCHANGED <<store, lock, job, cur>>
      /\ pc'[p] \in {"reenable", "save"}
      /\ mem' = [mem EXCEPT ![p][cur[p]] = Fresh]
      /\ Break(cur[p])
      /\ alerts' = [alerts EXCEPT ![cur[p]] = 0]
  BY DEF ReinstateReinit, LockInv, Holding, AtUser, CurOK
<1>2. \A v \in Users : mem'[p][v] = IF v = cur[p] THEN Fresh ELSE mem[p][v]
  BY <1>1, MemUpdate
<1>3. StoreTracks'
  BY <1>1, FreeAssumption DEF TracksBy, StoreTracks
<1>4. ASSUME NEW v \in Users
      PROVE  /\ VerdictOK(mem'[p][v])
             /\ Counts(mem[p], v, Streak(v))'
             /\ Silent(mem[p], v)'
  <2>1. CASE v = cur[p]
    <3>1. mem'[p][v] = Fresh /\ alerts'[v] = 0 /\ Streak(v)' = 0
      BY <1>1, <1>2, <2>1 DEF Break, Streak
    <3> QED BY <3>1, FreshTracks DEF Counts, Silent
  <2>2. CASE v # cur[p]
    <3>1. /\ VerdictOK(mem[p][v])
          /\ Counts(mem[p], v, Streak(v))
          /\ v \in Resetting(p) \/ Silent(mem[p], v)
      BY <1>1 DEF TracksBy, TracksOf, MemTracks
    <3>2. /\ mem'[p][v] = mem[p][v] /\ Streak(v)' = Streak(v) /\ alerts'[v] = alerts[v]
          /\ v \notin Resetting(p)
      BY <1>1, <1>2, <2>2 DEF Resetting, Break, Streak
    <3> QED BY <3>1, <3>2 DEF Counts, Silent, Warned, Stopped
  <2> QED BY <2>1, <2>2
<1>5. FirstAlert(p)'
  BY <1>1 DEF FirstAlert
<1> QED BY <1>3, <1>4, <1>5 DEF TracksBy, TracksOf, MemTracks

LEMMA TracksSave ==
  ASSUME StopInv, NEW p \in Procs, TracksBy(p), Save(p)
  PROVE  TracksBy(p)'
<1> USE DEF StopInv, AccountInv, TypeInv, TypeOK
<1>1. /\ lock = p /\ pc[p] = "save" /\ lock' = Free /\ lock' # p
      /\ store' = mem[p]
      /\ over' = [u \in Users |-> Streak(u)]
      /\ alerts' = IF job[p] = "reset" THEN [alerts EXCEPT ![cur[p]] = 0] ELSE alerts
  BY FreeAssumption DEF Save, LockInv, Holding
<1>2. ASSUME NEW u \in Users
      PROVE  /\ VerdictOK(store'[u]) /\ alerts'[u] <= 1
             /\ Counts(store, u, over[u])' /\ Silent(store, u)'
  <2>1. /\ VerdictOK(mem[p][u])
        /\ Counts(mem[p], u, Streak(u))
        /\ u \in Resetting(p) \/ Silent(mem[p], u)
        /\ alerts[u] \in Nat /\ alerts[u] <= 1
    BY <1>1 DEF TracksBy, TracksOf, MemTracks, StoreTracks
  <2>2. Counts(store, u, over[u])'
    BY <1>1, <2>1 DEF Counts, Stopped
  <2>3. Silent(store, u)' /\ alerts'[u] <= 1
    <3>1. CASE job[p] = "reset" /\ u = cur[p]
      BY <1>1, <3>1 DEF Silent
    <3>2. CASE ~ (job[p] = "reset" /\ u = cur[p])
      <4>1. alerts'[u] = alerts[u] /\ Silent(mem[p], u)
        BY <1>1, <2>1, <3>2 DEF Resetting
      <4> QED BY <1>1, <2>1, <4>1 DEF Silent, Warned, Stopped
    <3> QED BY <3>1, <3>2
  <2> QED BY <1>1, <2>1, <2>2, <2>3
<1> QED BY <1>1, <1>2 DEF TracksBy, TracksOf, StoreTracks

LEMMA TracksSync ==
  ASSUME StopInv, NEW p \in Procs, TracksBy(p), SyncLoad(p) \/ SyncSave(p), ~ stale'
  PROVE  TracksBy(p)'
<1>1. lock # p
  BY DEF SyncLoad, SyncSave, StopInv, AccountInv, LockInv, Holding, AtUser
<1>2. UNCHANGED <<store, lock, streaks, alerts>>
  BY SyncLeaves
<1> QED BY <1>1, <1>2 DEF TracksBy, TracksOf, StoreTracks, Counts, Silent, Warned, Stopped,
                          streaks

(* Nothing fails, so no job ends without its save.                           *)
LEMMA NoAbort ==
  ASSUME Faultless, TypeInv, NEW p \in Procs
  PROVE  ~ Fault(p) /\ ~ AccountMissing(p)
<1>1. ~ Fault(p)
  BY DEF Faultless, TypeInv, TypeOK, Fault, ReinitFails, Crash
<1>2. ~ AccountMissing(p)
  BY DEF Faultless, TypeInv, CurOK, AtUser, AccountMissing
<1> QED BY <1>1, <1>2

LEMMA TracksTick ==
  ASSUME StopInv, StoreTracks, \A p \in Procs : TracksOf(p), Tick
  PROVE  StoreTracks' /\ \A p \in Procs : TracksOf(p)'
<1> USE DEF StopInv, AccountInv
<1>1. UNCHANGED <<lock, pc, job, cur, over, broken, tail, alerts>>
  BY DEF Tick, ghosts
<1>2. \A u \in Users : /\ store'[u].strikes = store[u].strikes
                       /\ store'[u].status = store[u].status
  BY TickKeeps
<1>3. \A q \in Procs, u \in Users : /\ mem'[q][u].strikes = mem[q][u].strikes
                                    /\ mem'[q][u].status = mem[q][u].status
  BY TickKeeps
<1>4. StoreTracks'
  BY <1>1, <1>2 DEF StoreTracks, VerdictOK, Counts, Silent, Warned, Stopped
<1>5. ASSUME NEW q \in Procs PROVE TracksOf(q)'
  <2>1. \A u \in Users : /\ u \in Resetting(q) <=> u \in Resetting(q)'
                         /\ Streak(u)' = Streak(u)
    BY <1>1 DEF Resetting, Streak
  <2>2. lock = q => MemTracks(q)'
    BY <1>1, <1>3, <2>1 DEF TracksOf, MemTracks, VerdictOK, Counts, Silent, Warned, Stopped
  <2>3. lock = q => FirstAlert(q)'
    BY <1>1 DEF TracksOf, FirstAlert
  <2> QED BY <1>1, <2>2, <2>3 DEF TracksOf
<1> QED BY <1>4, <1>5

LEMMA TracksInit == Init => TracksInv
<1> SUFFICES ASSUME Init PROVE TracksInv
  OBVIOUS
<1>1. StoreTracks
  BY FreshTracks DEF Init, StoreTracks, Counts, Silent, NoState, NoStreak
<1>2. \A p \in Procs : TracksOf(p)
  BY FreeAssumption DEF Init, TracksOf
<1> QED BY <1>1, <1>2 DEF TracksInv

LEMMA TracksNext ==
  ASSUME Faultless, StopInv, TracksInv, [Next]_vars
  PROVE  TracksInv'
<1> SUFFICES ASSUME ~ stale' PROVE StoreTracks' /\ \A q \in Procs : TracksOf(q)'
  BY DEF TracksInv
<1>0. StoreTracks /\ \A q \in Procs : TracksOf(q)
  BY StaleStays DEF TracksInv
<1>1. CASE UNCHANGED vars
  BY <1>0, <1>1 DEF vars, StoreTracks, TracksOf, MemTracks, FirstAlert, Counts, Silent,
                    Warned, Stopped, Resetting, Streak
<1>2. CASE OscamRestart
  BY <1>0, <1>2 DEF OscamRestart, locals, ghosts, StoreTracks, TracksOf, MemTracks,
                    FirstAlert, Counts, Silent, Warned, Stopped, Resetting, Streak
<1>3. CASE Tick
  BY <1>0, <1>3, TracksTick
<1>4. ASSUME NEW p \in Procs, Start(p) \/ Work(p) \/ Fault(p)
      PROVE  StoreTracks' /\ \A q \in Procs : TracksOf(q)'
  <2>1. TracksBy(p)
    BY <1>0 DEF TracksBy
  <2>2. ~ Fault(p) /\ ~ AccountMissing(p)
    BY NoAbort DEF StopInv, AccountInv
  <2>3. TracksBy(p)'
    <3>1. CASE Start(p) \/ LockCycle(p) \/ LockDisable(p) \/ LockEnable(p) \/ LockReset(p)
      BY <2>1, <3>1, TracksLock
    <3>2. CASE \/ ReenableNext(p) \/ ReenableEnd(p) \/ EvaluateEnd(p)
               \/ StopEdit(p) \/ ReinstateEdit(p)
      BY <2>1, <3>2, TracksLoops
    <3>3. CASE Observe(p) \/ DecideStop(p)
      BY <2>1, <3>3, TracksEvaluate
    <3>4. CASE StopReinit(p) \/ ReinstateReinit(p)
      BY <2>1, <3>4, TracksStop, TracksReinstate
    <3>5. CASE Save(p)
      BY <2>1, <3>5, TracksSave
    <3>6. CASE SyncLoad(p) \/ SyncSave(p)
      BY <2>1, <3>6, TracksSync
    <3> QED BY <1>4, <2>2, <3>1, <3>2, <3>3, <3>4, <3>5, <3>6 DEF Work
  <2>4. ASSUME NEW q \in Procs \ {p} PROVE TracksOf(q)'
    <3>1. pc'[q] = pc[q] /\ job'[q] = job[q] /\ cur'[q] = cur[q] /\ mem'[q] = mem[q]
      BY <1>4, StepsAside DEF Aside, StopInv, AccountInv
    <3>2. CASE lock' = q
      <4>1. lock = q
        BY <1>4, <3>2, LockMoves, FreeAssumption
      <4>2. UNCHANGED <<streaks, alerts>>
        BY <1>4, <4>1, Outsider DEF StopInv, AccountInv
      <4> QED BY <1>0, <3>1, <4>1, <4>2 DEF TracksOf, MemTracks, FirstAlert, Counts, Silent,
                                            Warned, Stopped, Resetting, Streak, streaks
    <3>3. CASE lock' # q
      BY <3>3 DEF TracksOf
    <3> QED BY <3>2, <3>3
  <2> QED BY <2>3, <2>4 DEF TracksBy
<1> QED BY <1>1, <1>2, <1>3, <1>4 DEF Next

-----------------------------------------------------------------------------

LEMMA TracksDetects == StopInv /\ TracksInv => Detected
<1> SUFFICES ASSUME StopInv, TracksInv, lock = Free, ~ stale, NEW u \in Users,
                    over[u] = StrikeCount
             PROVE  store[u].status # "ok"
  BY DEF Detected
<1>1. VerdictOK(store[u]) /\ Counts(store, u, over[u])
  BY DEF TracksInv, StoreTracks
<1>2. store[u] \in UserState
  BY DEF StopInv, AccountInv, TypeInv, TypeOK
<1>3. store[u].strikes \in Nat
  BY <1>2 DEF UserState
<1>4. CASE Stopped(store, u)
  BY <1>4 DEF Stopped
<1>5. CASE store[u].strikes >= StrikeCount
  <2>1. Verdict(store[u].strikes) = "flagged"
    BY <1>5 DEF Verdict
  <2> QED BY <1>1, <2>1 DEF VerdictOK
<1>6. Stopped(store, u) \/ store[u].strikes >= StrikeCount
  BY <1>1, <1>3, StrikeCountAssumption DEF Counts
<1> QED BY <1>4, <1>5, <1>6

LEMMA TracksAlerts == TracksInv => AlertedOnce
  BY DEF TracksInv, StoreTracks, AlertedOnce

(* With any number of users, entries, sessions, cycles, commands, Reset      *)
(* flags and syncs, as long as nothing fails: whenever the lock is free, a   *)
(* user whose last strike_count readings, or more, were over the limit is    *)
(* flagged or stopped in state.json, until a sync writes back a copy that    *)
(* was stale.                                                                *)
THEOREM LimitIsDetected ==
  ASSUME Faultless
  PROVE  Spec => []Detected
<1>1. Init => StopInv /\ TracksInv
  BY StopInvInit, TracksInit
<1>2. StopInv /\ TracksInv /\ [Next]_vars => StopInv' /\ TracksInv'
  BY StopInvNext, TracksNext
<1> QED BY <1>1, <1>2, TracksDetects, PTL DEF Spec

(* Under the same conditions: between two resets of the alert flag (a lower  *)
(* reading, a reset or a reinstatement) a user's operator is alerted at most *)
(* once.                                                                     *)
THEOREM AlertIsOnce ==
  ASSUME Faultless
  PROVE  Spec => []AlertedOnce
<1>1. Init => StopInv /\ TracksInv
  BY StopInvInit, TracksInit
<1>2. StopInv /\ TracksInv /\ [Next]_vars => StopInv' /\ TracksInv'
  BY StopInvNext, TracksNext
<1> QED BY <1>1, <1>2, TracksAlerts, PTL DEF Spec

=============================================================================
