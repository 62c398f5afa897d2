----------------------------- MODULE StopProofs -----------------------------
(* Proofs about the stops of ReshareControl: what is saved was done, and a   *)
(* cycle stops nobody who has not earned it.  They go on where               *)
(* ReshareControlProofs ends, whatever the jobs are: Reset flag is among     *)
(* them, and so are the syncs of the web UI, up to the first one that writes *)
(* back a stale copy.                                                        *)
EXTENDS ReshareControlProofs

(* What a step of one process leaves of the others.                          *)
Aside(p) ==
    \A q \in Procs \ {p} :
        /\ pc'[q] = pc[q] /\ job'[q] = job[q] /\ cur'[q] = cur[q]
        /\ body'[q] = body[q] /\ mem'[q] = mem[q] /\ todo'[q] = todo[q]

LEMMA StepsAside ==
  ASSUME TypeInv, NEW p \in Procs, Start(p) \/ Work(p) \/ Fault(p)
  PROVE  Aside(p)
<1> USE DEF Aside, TypeInv, TypeOK, Goto, Return
<1>1. CASE Start(p)
  BY <1>1 DEF Start, StartCycle, StartCommand, StartSaveInstance
<1>2. CASE LockCycle(p) \/ LockDisable(p) \/ LockEnable(p) \/ LockReset(p)
  BY <1>2 DEF LockCycle, LockDisable, LockEnable, LockReset, Acquire
<1>3. CASE ReenableNext(p) \/ ReenableEnd(p) \/ EvaluateEnd(p)
  BY <1>3 DEF ReenableNext, ReenableEnd, EvaluateEnd
<1>4. CASE Observe(p)
  BY <1>4 DEF Observe
<1>5. CASE DecideStop(p)
  BY <1>5 DEF DecideStop
<1>6. CASE StopEdit(p) \/ ReinstateEdit(p)
  BY <1>6 DEF StopEdit, ReinstateEdit, EditAccount
<1>7. CASE AccountMissing(p) \/ Fault(p)
  BY <1>7 DEF AccountMissing, Fault, ReinitFails, Crash, Abort
<1>8. CASE StopReinit(p) \/ ReinstateReinit(p)
  BY <1>8 DEF StopReinit, ReinstateReinit
<1>9. CASE Save(p)
  BY <1>9 DEF Save
<1>10. CASE SyncLoad(p) \/ SyncSave(p)
  BY <1>10 DEF SyncLoad, SyncSave
<1> QED BY <1>1, <1>2, <1>3, <1>4, <1>5, <1>6, <1>7, <1>8, <1>9, <1>10 DEF Work

-----------------------------------------------------------------------------
(* Whatever the jobs are, the users a cycle has still to evaluate are not    *)
(* stopped.                                                                  *)

(* One process's part of TodoInv.                                            *)
Evaluating(p) ==
    \/ pc[p] = "evaluate"
    \/ pc[p] \in {"stopEdit", "stopReinit"} /\ job[p] \in Cycles

TodoOf(p) ==
    Evaluating(p) =>
        \A u \in todo[p] : ~ Stopped(mem[p], u) /\ (pc[p] # "evaluate" => u # cur[p])

(* Evaluating a reading stops nobody and lifts nobody's stop.                *)
LEMMA EvaluateStays ==
  ASSUME TypeInv, NEW p \in Procs, TodoOf(p), Observe(p) \/ DecideStop(p)
  PROVE  /\ \A u \in Users : Stopped(mem'[p], u) <=> Stopped(mem[p], u)
         /\ pc[p] = "evaluate"
         /\ UNCHANGED <<store, lock, disabled, applied, job, stale>>
<1>1. PICK u \in todo[p] :
        /\ mem' = [mem EXCEPT ![p][u] = NextState(NextReading(p, u), mem[p][u])]
        /\ UNCHANGED <<store, lock, disabled, applied, job, stale>>
        /\ pc[p] = "evaluate"
  BY DEF Observe, DecideStop, shared
<1>2. /\ u \in Users /\ mem[p][u].status # "stopped"
      /\ mem \in [Procs -> [Users -> UserState]]
  BY <1>1 DEF TodoOf, Evaluating, Stopped, TypeInv, TypeOK
<1> DEFINE new == NextState(NextReading(p, u), mem[p][u])
<1>3. new.status # "stopped"
  BY <1>2, NextStateNotStopped
<1>4. mem' = [mem EXCEPT ![p][u] = new]
  BY <1>1
<1> HIDE DEF new
<1>5. \A v \in Users : mem'[p][v] = IF v = u THEN new ELSE mem[p][v]
  BY <1>2, <1>4, MemUpdate
<1> QED BY <1>1, <1>2, <1>3, <1>5 DEF Stopped

LEMMA TodoStep ==
  ASSUME TypeInv, NEW p \in Procs, TodoOf(p), Start(p) \/ Work(p) \/ Fault(p)
  PROVE  TodoOf(p)'
<1> USE DEF TypeInv, TypeOK, Goto
<1>1. CASE pc'[p] \notin {"evaluate", "stopEdit", "stopReinit"}
  BY <1>1 DEF TodoOf, Evaluating
<1>2. CASE Observe(p)
  <2>1. pc[p] = "evaluate" /\ pc' = pc /\ todo'[p] \subseteq todo[p]
    BY <1>2 DEF Observe
  <2>2. \A v \in todo[p] : ~ Stopped(mem[p], v)
    BY <2>1 DEF TodoOf, Evaluating
  <2>3. \A v \in Users : Stopped(mem'[p], v) <=> Stopped(mem[p], v)
    BY <1>2, EvaluateStays
  <2> QED BY <2>1, <2>2, <2>3 DEF TodoOf, Stopped
<1>3. CASE DecideStop(p)
  <2>1. pc[p] = "evaluate" /\ \A v \in todo'[p] : v \in todo[p] /\ v # cur'[p]
    BY <1>3 DEF DecideStop
  <2>2. \A v \in todo[p] : ~ Stopped(mem[p], v)
    BY <2>1 DEF TodoOf, Evaluating
  <2>3. \A v \in Users : Stopped(mem'[p], v) <=> Stopped(mem[p], v)
    BY <1>3, EvaluateStays
  <2> QED BY <2>1, <2>2, <2>3 DEF TodoOf, Stopped
<1>4. CASE LockDisable(p)
  BY <1>4 DEF LockDisable, Acquire, TodoOf, Evaluating, Cycles
<1>5. CASE ReenableEnd(p)
  BY <1>5 DEF ReenableEnd, TodoOf, Evaluating, Stopped
<1>6. CASE StopEdit(p)
  BY <1>6 DEF StopEdit, EditAccount, TodoOf, Evaluating, Stopped
<1>7. CASE StopReinit(p)
  <2>1. /\ \A v \in todo[p] \ {cur[p]} : mem'[p][v] = mem[p][v]
        /\ todo' = todo /\ pc[p] = "stopReinit"
        /\ pc'[p] = "evaluate" => job[p] \in Cycles
    BY <1>7 DEF StopReinit
  <2> QED BY <1>7, <2>1 DEF TodoOf, Evaluating, Stopped, StopReinit
<1>8. CASE Start(p) \/ Fault(p) \/ AccountMissing(p)
  BY <1>1, <1>8 DEF Start, StartCycle, StartCommand, StartSaveInstance, Fault, ReinitFails,
                    Crash, AccountMissing, Abort, Return
<1>9. CASE LockCycle(p) \/ LockEnable(p) \/ LockReset(p) \/ ReenableNext(p) \/ EvaluateEnd(p)
  BY <1>1, <1>9 DEF LockCycle, LockEnable, LockReset, ReenableNext, EvaluateEnd
<1>10. CASE ReinstateEdit(p)
  BY <1>1, <1>10 DEF ReinstateEdit, EditAccount
<1>11. CASE ReinstateReinit(p)
  BY <1>1, <1>11 DEF ReinstateReinit
<1>12. CASE Save(p) \/ SyncLoad(p) \/ SyncSave(p)
  BY <1>1, <1>12 DEF Save, SyncLoad, SyncSave, Return
<1> QED BY <1>2, <1>3, <1>4, <1>5, <1>6, <1>7, <1>8, <1>9, <1>10, <1>11, <1>12 DEF Work

(* A minute changes nobody's status and nobody's strikes.                    *)
LEMMA AgedKeeps ==
  ASSUME NEW state \in [Users -> UserState], NEW u \in Users
  PROVE  /\ Aged(state)[u].strikes = state[u].strikes
         /\ Aged(state)[u].status = state[u].status
  BY DEF Aged, UserState

LEMMA TickKeeps ==
  ASSUME TypeInv, Tick
  PROVE  /\ \A u \in Users : /\ store'[u].strikes = store[u].strikes
                             /\ store'[u].status = store[u].status
         /\ \A q \in Procs, u \in Users : /\ mem'[q][u].strikes = mem[q][u].strikes
                                          /\ mem'[q][u].status = mem[q][u].status
<1> USE DEF TypeInv, TypeOK
<1>1. store' = Aged(store) /\ \A q \in Procs : mem'[q] = Aged(mem[q])
  BY DEF Tick
<1>2. \A q \in Procs : mem[q] \in [Users -> UserState]
  OBVIOUS
<1> QED BY <1>1, <1>2, AgedKeeps

LEMMA TodoInit == Init => TodoInv
  BY DEF Init, TodoInv

LEMMA TodoNext ==
  ASSUME TypeInv, TodoInv, [Next]_vars
  PROVE  TodoInv'
<1>1. \A q \in Procs : TodoOf(q)
  BY DEF TodoInv, TodoOf, Evaluating
<1>2. CASE UNCHANGED vars
  BY <1>2 DEF vars, TodoInv, Stopped
<1>3. CASE OscamRestart
  BY <1>3 DEF OscamRestart, locals, TodoInv, Stopped
<1>4. CASE Tick
  <2>1. \A q \in Procs, u \in Users : Stopped(mem'[q], u) <=> Stopped(mem[q], u)
    BY <1>4, TickKeeps DEF Stopped
  <2>2. UNCHANGED <<pc, job, cur, todo>> /\ \A q \in Procs : todo[q] \subseteq Users
    BY <1>4 DEF Tick, TypeInv, TypeOK
  <2> QED BY <2>1, <2>2 DEF TodoInv, Stopped
<1>5. ASSUME NEW p \in Procs, Start(p) \/ Work(p) \/ Fault(p)
      PROVE  TodoInv'
  <2>1. TodoOf(p)'
    BY <1>1, <1>5, TodoStep
  <2>2. ASSUME NEW q \in Procs \ {p} PROVE TodoOf(q)'
    BY <1>1, <1>5, StepsAside DEF Aside, TodoOf, Evaluating, Stopped
  <2> QED BY <2>1, <2>2 DEF TodoInv, TodoOf, Evaluating
<1> QED BY <1>2, <1>3, <1>4, <1>5 DEF Next

-----------------------------------------------------------------------------
(* Which jobs can be at which label.                                         *)
JobOf(p) ==
    /\ pc[p] \in {"reenable", "evaluate"} => job[p] \in Cycles
    /\ pc[p] \in {"stopEdit", "stopReinit"} => job[p] \in Cycles \cup {"disable"}
    /\ pc[p] \in {"reinstateEdit", "reinstateReinit"} => job[p] \in Cycles \cup {"enable"}

JobInv == \A p \in Procs : JobOf(p)

LEMMA JobStep ==
  ASSUME TypeInv, NEW p \in Procs, JobOf(p), Start(p) \/ Work(p) \/ Fault(p)
  PROVE  JobOf(p)'
<1> USE DEF TypeInv, TypeOK, Goto, Return, JobOf
<1>1. CASE Start(p) \/ Fault(p) \/ AccountMissing(p)
  BY <1>1 DEF Start, StartCycle, StartCommand, StartSaveInstance, Fault, ReinitFails, Crash,
              AccountMissing, Abort
<1>2. CASE LockCycle(p) \/ LockDisable(p) \/ LockEnable(p) \/ LockReset(p)
  BY <1>2 DEF LockCycle, LockDisable, LockEnable, LockReset, Acquire
<1>3. CASE ReenableNext(p) \/ ReenableEnd(p) \/ EvaluateEnd(p) \/ DecideStop(p)
  BY <1>3 DEF ReenableNext, ReenableEnd, EvaluateEnd, DecideStop
<1>4. CASE Observe(p)
  BY <1>4 DEF Observe
<1>5. CASE StopEdit(p) \/ ReinstateEdit(p)
  BY <1>5 DEF StopEdit, ReinstateEdit, EditAccount
<1>6. CASE StopReinit(p) \/ ReinstateReinit(p)
  BY <1>6 DEF StopReinit, ReinstateReinit
<1>7. CASE Save(p)
  <2>1. pc'[p] \in {"idle", "sync"}
    BY <1>7 DEF Save
  <2> QED BY <2>1
<1>8. CASE SyncLoad(p) \/ SyncSave(p)
  BY <1>8 DEF SyncLoad, SyncSave
<1> QED BY <1>1, <1>2, <1>3, <1>4, <1>5, <1>6, <1>7, <1>8 DEF Work

(* The history of the streaks: nothing is pending while the lock is free,    *)
(* and no streak is counted beyond the limit.                                *)
StreakInv ==
    /\ lock = Free => broken = {}
    /\ \A u \in Users : over[u] <= StrikeCount /\ tail[u] <= StrikeCount

(* One more reading, for the history.                                        *)
LEMMA CountStreak ==
  ASSUME TypeInv, StreakInv, NEW u \in Users, NEW reading \in Readings, Count(u, reading)
  PROVE  /\ \A v \in Users : over[v] <= over'[v] /\ over'[v] <= StrikeCount
         /\ \A v \in Users : tail'[v] <= StrikeCount
         /\ \A v \in Users \ {u} : Streak(v)' = Streak(v)
         /\ reading = "over" => Streak(u)' = CountTo(StrikeCount, Streak(u))
         /\ reading = "under" => Streak(u)' = 0
         /\ reading = "none" => Streak(u)' = Streak(u)
<1> DEFINE n(k) == CountTo(StrikeCount, k)
<1>1. /\ over \in [Users -> Nat] /\ tail \in [Users -> Nat] /\ broken \subseteq Users
      /\ \A v \in Users : over[v] <= StrikeCount /\ tail[v] <= StrikeCount
  BY DEF TypeInv, TypeOK, StreakInv
<1>2. \A k \in Nat : k <= StrikeCount => n(k) \in Nat /\ k <= n(k) /\ n(k) <= StrikeCount
  BY StrikeCountAssumption DEF CountTo
<1>3. CASE reading = "over"
  <2>1. /\ over' = [over EXCEPT ![u] = n(over[u])]
        /\ tail' = IF u \in broken THEN [tail EXCEPT ![u] = n(tail[u])] ELSE tail
        /\ broken' = broken
    BY <1>3 DEF Count
  <2> HIDE DEF n
  <2>2. \A v \in Users : over[v] <= over'[v] /\ over'[v] <= StrikeCount
    BY <1>1, <1>2, <2>1
  <2>3. \A v \in Users : tail'[v] <= StrikeCount
    BY <1>1, <1>2, <2>1
  <2>4. \A v \in Users \ {u} : Streak(v)' = Streak(v)
    BY <1>1, <2>1 DEF Streak
  <2>5. Streak(u)' = n(Streak(u))
    BY <1>1, <2>1 DEF Streak
  <2> QED BY <1>3, <2>2, <2>3, <2>4, <2>5 DEF n
<1>4. CASE reading = "under"
  <2>1. Break(u)
    BY <1>4 DEF Count
  <2> QED BY <1>1, <1>4, <2>1, StrikeCountAssumption DEF Break, Streak
<1>5. CASE reading = "none"
  BY <1>1, <1>5 DEF Count, streaks, Streak
<1> QED BY <1>3, <1>4, <1>5 DEF Readings

LEMMA StreakStep ==
  ASSUME TypeInv, LockInv, StreakInv, NEW p \in Procs, Start(p) \/ Work(p) \/ Fault(p)
  PROVE  StreakInv'
<1>1. /\ over \in [Users -> Nat] /\ tail \in [Users -> Nat] /\ StrikeCount \in Nat
      /\ \A v \in Users : over[v] <= StrikeCount /\ tail[v] <= StrikeCount
      /\ lock = Free => broken = {}
  BY StrikeCountAssumption DEF TypeInv, TypeOK, StreakInv
<1>2. CASE \/ Start(p) \/ SyncLoad(p) \/ SyncSave(p) \/ ReenableNext(p) \/ ReenableEnd(p)
           \/ EvaluateEnd(p) \/ StopEdit(p) \/ ReinstateEdit(p) \/ StopReinit(p)
  <2>1. UNCHANGED <<lock, streaks>>
    BY <1>2 DEF Start, StartCycle, StartCommand, StartSaveInstance, SyncLoad, SyncSave,
                ReenableNext, ReenableEnd, EvaluateEnd, StopEdit, ReinstateEdit, EditAccount,
                StopReinit, shared, ghosts, streaks
  <2> QED BY <1>1, <2>1 DEF StreakInv, streaks
<1>3. CASE LockCycle(p) \/ LockDisable(p) \/ LockEnable(p) \/ LockReset(p) \/ ReinstateReinit(p)
  <2>1. lock' # Free
    BY <1>3, FreeAssumption DEF LockCycle, LockDisable, LockEnable, LockReset, Acquire,
                                ReinstateReinit, LockInv, Holding, AtUser
  <2>2. UNCHANGED streaks \/ Break(cur[p])
    BY <1>3 DEF LockCycle, LockDisable, LockEnable, LockReset, ReinstateReinit
  <2> QED BY <1>1, <2>1, <2>2 DEF StreakInv, streaks, Break
<1>4. CASE Observe(p) \/ DecideStop(p)
  <2>1. PICK u \in todo[p] : Count(u, NextReading(p, u))
    BY <1>4 DEF Observe, DecideStop
  <2>2. lock' # Free
    BY <1>4, FreeAssumption DEF Observe, DecideStop, shared, LockInv, Holding
  <2>3. u \in Users /\ NextReading(p, u) \in Readings
    BY <2>1, NextReadingType DEF TypeInv, TypeOK
  <2> QED BY <2>1, <2>2, <2>3, CountStreak DEF StreakInv
<1>5. CASE Fault(p) \/ AccountMissing(p)
  <2>1. /\ Abort(p) /\ over' = over
    BY <1>5 DEF Fault, ReinitFails, Crash, AccountMissing
  <2>2. CASE lock = p
    BY <1>1, <2>1, <2>2 DEF Abort, Forget, NoStreak, StreakInv
  <2>3. CASE lock # p
    BY <1>1, <2>1, <2>3 DEF Abort, StreakInv
  <2> QED BY <2>2, <2>3
<1>6. CASE Save(p)
  <2>1. /\ over' = [u \in Users |-> Streak(u)] /\ broken' = {} /\ tail' = NoStreak
    BY <1>6 DEF Save, Forget
  <2> QED BY <1>1, <2>1 DEF Streak, NoStreak, StreakInv
<1> QED BY <1>2, <1>3, <1>4, <1>5, <1>6 DEF Work

-----------------------------------------------------------------------------
(* What holds whatever the jobs are, whatever fails and whatever is stale.   *)

StopInv == AccountInv /\ TodoInv /\ JobInv /\ StreakInv

LEMMA StopInvInit == Init => StopInv
<1> SUFFICES ASSUME Init PROVE StopInv
  OBVIOUS
<1>1. JobInv
  BY DEF Init, JobInv, JobOf
<1>2. StreakInv
  BY StrikeCountAssumption DEF Init, StreakInv, NoStreak
<1> QED BY <1>1, <1>2, AccountInit, TodoInit DEF StopInv

LEMMA StopInvNext ==
  ASSUME StopInv, [Next]_vars
  PROVE  StopInv'
<1>1. AccountInv' /\ TodoInv'
  BY AccountNext, TodoNext DEF StopInv, AccountInv
<1>2. JobInv' /\ StreakInv'
  <2>1. CASE UNCHANGED vars \/ OscamRestart \/ Tick
    BY <2>1 DEF vars, OscamRestart, locals, ghosts, Tick, StopInv, JobInv, JobOf, StreakInv
  <2>2. ASSUME NEW p \in Procs, Start(p) \/ Work(p) \/ Fault(p)
        PROVE  JobInv' /\ StreakInv'
    <3>1. StreakInv'
      BY <2>2, StreakStep DEF StopInv, AccountInv
    <3>2. JobOf(p)'
      BY <2>2, JobStep DEF StopInv, AccountInv, JobInv
    <3>3. ASSUME NEW q \in Procs \ {p} PROVE JobOf(q)'
      BY <2>2, StepsAside DEF Aside, StopInv, AccountInv, JobInv, JobOf
    <3> QED BY <3>1, <3>2, <3>3 DEF JobInv
  <2> QED BY <2>1, <2>2 DEF Next
<1> QED BY <1>1, <1>2 DEF StopInv

(* The lock goes to the process that takes a step, or to nobody.             *)
LEMMA LockMoves ==
  ASSUME NEW p \in Procs, Start(p) \/ Work(p) \/ Fault(p)
  PROVE  lock' \in {lock, p, Free}
  BY DEF Start, StartCycle, StartCommand, StartSaveInstance, Work, Fault, ReinitFails, Crash,
         LockCycle, LockDisable, LockEnable, LockReset, Acquire, ReenableNext, ReenableEnd,
         Observe, DecideStop, EvaluateEnd, StopEdit, ReinstateEdit, EditAccount,
         AccountMissing, Abort, StopReinit, ReinstateReinit, Save, SyncLoad, SyncSave, shared

(* A stale copy that has been written back is not forgotten.                 *)
LEMMA StaleStays ==
  ASSUME [Next]_vars, ~ stale'
  PROVE  ~ stale
<1>1. CASE UNCHANGED vars \/ OscamRestart \/ Tick
  BY <1>1 DEF vars, OscamRestart, Tick, ghosts
<1>2. ASSUME NEW p \in Procs, Start(p) \/ Work(p) \/ Fault(p)
      PROVE  ~ stale
  BY <1>2 DEF Start, StartCycle, StartCommand, StartSaveInstance, Work, Fault, ReinitFails,
         Crash, LockCycle, LockDisable, LockEnable, LockReset, Acquire, ReenableNext,
         ReenableEnd, Observe, DecideStop, EvaluateEnd, StopEdit, ReinstateEdit, EditAccount,
         AccountMissing, StopReinit, ReinstateReinit, Save, SyncLoad, SyncSave, ghosts
<1> QED BY <1>1, <1>2 DEF Next

(* A sync that is not stale changes nothing.                                 *)
LEMMA SyncLeaves ==
  ASSUME NEW p \in Procs, SyncLoad(p) \/ SyncSave(p), ~ stale'
  PROVE  UNCHANGED <<store, lock, disabled, applied, streaks, alerts>>
  BY DEF SyncLoad, SyncSave, shared, ghosts, streaks

(* A process that does not hold the lock changes nothing that is shared,     *)
(* while another one holds it.                                               *)
LEMMA Outsider ==
  ASSUME LockInv, NEW p \in Procs, NEW q \in Procs \ {p}, lock = q,
         Start(p) \/ Work(p) \/ Fault(p), ~ stale'
  PROVE  UNCHANGED <<store, disabled, applied, streaks, alerts>>
<1>1. pc[p] \notin Holding /\ lock # p /\ lock # Free
  BY FreeAssumption DEF LockInv
<1>2. CASE Start(p)
  BY <1>2 DEF Start, StartCycle, StartCommand, StartSaveInstance, shared, ghosts, streaks
<1>3. CASE LockCycle(p) \/ LockDisable(p) \/ LockEnable(p) \/ LockReset(p)
  BY <1>1, <1>3 DEF LockCycle, LockDisable, LockEnable, LockReset, Acquire
<1>4. CASE Fault(p) \/ AccountMissing(p)
  BY <1>1, <1>4 DEF Fault, ReinitFails, Crash, AccountMissing, Abort, streaks, Holding, AtUser
<1>5. CASE ReenableNext(p) \/ ReenableEnd(p) \/ Observe(p) \/ DecideStop(p)
           \/ EvaluateEnd(p) \/ Save(p)
  BY <1>1, <1>5 DEF ReenableNext, ReenableEnd, Observe, DecideStop, EvaluateEnd, Save, Holding
<1>6. CASE StopEdit(p) \/ ReinstateEdit(p) \/ StopReinit(p) \/ ReinstateReinit(p)
  BY <1>1, <1>6 DEF StopEdit, ReinstateEdit, EditAccount, StopReinit, ReinstateReinit,
                    Holding, AtUser
<1>7. CASE SyncLoad(p) \/ SyncSave(p)
  BY <1>7, SyncLeaves
<1> QED BY <1>2, <1>3, <1>4, <1>5, <1>6, <1>7 DEF Work

-----------------------------------------------------------------------------
(* What is saved was done.  Reset flag, which clears a record and does not   *)
(* touch the account, is excepted.                                           *)

(* While p holds the lock, a user it has stopped or reinstated in memory is  *)
(* stopped or reinstated in oscam.user and in OSCam, except the one whose    *)
(* account it has edited and OSCam has still to be told about.               *)
DoneOf(p) ==
    lock = p /\ job[p] # "reset" =>
        \A u \in Users :
            \/ pc[p] \in Reiniting /\ cur[p] = u
            \/ Stopped(mem[p], u) <=> Stopped(store, u)
            \/ (disabled[u] <=> Stopped(mem[p], u)) /\ (applied[u] <=> disabled[u])

DoneInv == ~ stale => \A p \in Procs : DoneOf(p)

LEMMA DoneStep ==
  ASSUME StopInv, NEW p \in Procs, DoneOf(p), Start(p) \/ Work(p) \/ Fault(p)
  PROVE  DoneOf(p)'
<1> USE DEF StopInv, AccountInv, TypeInv, TypeOK, Goto
<1>1. CASE Start(p)
  <2>1. lock # p /\ lock' = lock
    BY <1>1 DEF Start, StartCycle, StartCommand, StartSaveInstance, LockInv, Holding,
                AtUser, shared
  <2> QED BY <2>1 DEF DoneOf
<1>2. CASE LockCycle(p) \/ LockDisable(p) \/ LockEnable(p)
  <2>1. mem'[p] = store /\ store' = store
    BY <1>2 DEF LockCycle, LockDisable, LockEnable, Acquire
  <2> QED BY <2>1 DEF DoneOf, Stopped
<1>3. CASE LockReset(p)
  <2>1. job'[p] = "reset"
    BY <1>3 DEF LockReset, Acquire
  <2> QED BY <2>1 DEF DoneOf
<1>4. CASE ReenableNext(p) \/ ReenableEnd(p) \/ EvaluateEnd(p)
  <2>1. /\ UNCHANGED <<mem, store, lock, disabled, applied, job>>
        /\ pc[p] \notin Reiniting
    BY <1>4 DEF ReenableNext, ReenableEnd, EvaluateEnd, shared, Reiniting
  <2> QED BY <2>1 DEF DoneOf, Stopped
<1>5. CASE Observe(p) \/ DecideStop(p)
  <2>0. TodoOf(p)
    BY DEF TodoInv, TodoOf, Evaluating
  <2>1. pc[p] \notin Reiniting
    BY <1>5, <2>0, EvaluateStays DEF Reiniting
  <2>2. /\ UNCHANGED <<store, lock, disabled, applied, job>>
        /\ \A u \in Users : Stopped(mem'[p], u) <=> Stopped(mem[p], u)
    BY <1>5, <2>0, EvaluateStays
  <2>3. ASSUME lock = p, job[p] # "reset", NEW u \in Users
        PROVE  \/ Stopped(mem'[p], u) <=> Stopped(store', u)
               \/ (disabled'[u] <=> Stopped(mem'[p], u)) /\ (applied'[u] <=> disabled'[u])
    <3>1. \/ Stopped(mem[p], u) <=> Stopped(store, u)
          \/ (disabled[u] <=> Stopped(mem[p], u)) /\ (applied[u] <=> disabled[u])
      BY <2>1, <2>3 DEF DoneOf
    <3>2. Stopped(store', u) <=> Stopped(store, u)
      BY <2>2 DEF Stopped
    <3> QED BY <2>2, <3>1, <3>2
  <2> QED BY <2>2, <2>3 DEF DoneOf, Stopped
<1>6. CASE StopEdit(p) \/ ReinstateEdit(p)
  <2>1. /\ pc[p] \notin Reiniting /\ pc'[p] \in Reiniting
        /\ UNCHANGED <<mem, store, lock, applied, job, cur>>
        /\ \A u \in Users \ {cur[p]} : disabled'[u] = disabled[u]
    BY <1>6 DEF StopEdit, ReinstateEdit, EditAccount, Reiniting
  <2> QED BY <2>1 DEF DoneOf, Stopped
<1>7. CASE StopReinit(p) \/ ReinstateReinit(p)
  <2>1. PICK new : /\ mem' = [mem EXCEPT ![p][cur[p]] = new]
                   /\ new.status = "stopped" <=> disabled[cur[p]]
    <3>1. CASE StopReinit(p)
      <4> DEFINE new == [mem[p][cur[p]] EXCEPT !.status = "stopped", !.until = pending[p]]
      <4>1. cur[p] \in Users
        BY <3>1 DEF StopReinit, CurOK, AtUser
      <4>2. new.status = "stopped"
        BY <4>1 DEF UserState
      <4>3. disabled[cur[p]] /\ mem' = [mem EXCEPT ![p][cur[p]] = new]
        BY <3>1 DEF StopReinit, EditInv
      <4> HIDE DEF new
      <4> QED BY <4>2, <4>3
    <3>2. CASE ReinstateReinit(p)
      BY <3>2, FreshNotStopped DEF ReinstateReinit, EditInv
    <3> QED BY <1>7, <3>1, <3>2
  <2>2. cur[p] \in Users /\ pc[p] \in Reiniting
    BY <1>7 DEF StopReinit, ReinstateReinit, CurOK, AtUser, Reiniting
  <2>3. \A v \in Users : mem'[p][v] = IF v = cur[p] THEN new ELSE mem[p][v]
    BY <2>1, <2>2, MemUpdate
  <2>4. UNCHANGED <<store, lock, disabled, job>> /\ applied' = disabled
    BY <1>7 DEF StopReinit, ReinstateReinit, Reinit
  <2>5. ASSUME DoneOf(p), lock = p, job[p] # "reset", NEW u \in Users
        PROVE  \/ Stopped(mem'[p], u) <=> Stopped(store', u)
               \/ disabled'[u] <=> Stopped(mem'[p], u)
    <3>1. CASE u = cur[p]
      BY <2>1, <2>3, <2>4, <3>1 DEF Stopped
    <3>2. CASE u # cur[p]
      BY <2>3, <2>4, <2>5, <3>2 DEF DoneOf, Stopped
    <3> QED BY <3>1, <3>2
  <2> QED BY <2>4, <2>5 DEF DoneOf, Stopped
<1>8. CASE Fault(p) \/ AccountMissing(p) \/ Save(p)
  <2>1. lock' # p
    BY <1>8, FreeAssumption DEF Fault, ReinitFails, Crash, AccountMissing, Abort, Save
  <2> QED BY <2>1 DEF DoneOf
<1>9. CASE SyncLoad(p) \/ SyncSave(p)
  <2>1. lock # p /\ lock' = lock
    BY <1>9 DEF SyncLoad, SyncSave, LockInv, Holding, AtUser, shared
  <2> QED BY <2>1 DEF DoneOf
<1> QED BY <1>1, <1>2, <1>3, <1>4, <1>5, <1>6, <1>7, <1>8, <1>9 DEF Work

LEMMA DoneNext ==
  ASSUME StopInv, DoneInv, [Next]_vars
  PROVE  DoneInv'
<1> USE DEF StopInv, AccountInv
<1> SUFFICES ASSUME ~ stale' PROVE \A q \in Procs : DoneOf(q)'
  BY DEF DoneInv
<1>0. \A q \in Procs : DoneOf(q)
  BY StaleStays DEF DoneInv
<1>1. CASE UNCHANGED vars
  BY <1>0, <1>1 DEF vars, DoneOf, Stopped
<1>2. CASE OscamRestart
  BY <1>0, <1>2 DEF OscamRestart, locals, DoneOf, Stopped
<1>3. CASE Tick
  <2>1. \A q \in Procs, u \in Users : /\ Stopped(mem'[q], u) <=> Stopped(mem[q], u)
                                      /\ Stopped(store', u) <=> Stopped(store, u)
    BY <1>3, TickKeeps DEF Stopped
  <2>2. UNCHANGED <<lock, disabled, applied, pc, job, cur>>
    BY <1>3 DEF Tick
  <2> QED BY <1>0, <2>1, <2>2 DEF DoneOf, Stopped
<1>4. ASSUME NEW p \in Procs, Start(p) \/ Work(p) \/ Fault(p)
      PROVE  \A q \in Procs : DoneOf(q)'
  <2>1. DoneOf(p)'
    BY <1>0, <1>4, DoneStep
  <2>2. ASSUME NEW q \in Procs \ {p} PROVE DoneOf(q)'
    <3>1. CASE lock' = q
      <4>1. lock = q
        BY <1>4, <3>1, LockMoves, FreeAssumption
      <4>2. UNCHANGED <<store, disabled, applied>>
        BY <1>4, <4>1, Outsider
      <4>3. pc'[q] = pc[q] /\ job'[q] = job[q] /\ cur'[q] = cur[q] /\ mem'[q] = mem[q]
        BY <1>4, StepsAside DEF Aside
      <4> QED BY <1>0, <4>1, <4>2, <4>3 DEF DoneOf, Stopped
    <3>2. CASE lock' # q
      BY <3>2 DEF DoneOf
    <3> QED BY <3>1, <3>2
  <2> QED BY <2>1, <2>2
<1> QED BY <1>1, <1>2, <1>3, <1>4 DEF Next

LEMMA DoneImplies == StopInv /\ DoneInv => (~ stale => SavedAsDone)
<1> SUFFICES ASSUME StopInv, DoneInv, ~ stale, NEW p \in Procs, NEW u \in Users,
                    pc[p] = "save", job[p] # "reset",
                    Stopped(mem[p], u) # Stopped(store, u)
             PROVE  disabled[u] = Stopped(mem[p], u) /\ applied[u] = disabled[u]
  BY DEF SavedAsDone
<1>1. lock = p /\ pc[p] \notin Reiniting
  BY DEF StopInv, AccountInv, LockInv, Holding, Reiniting
<1>2. Stopped(mem[p], u) \in BOOLEAN /\ Stopped(store, u) \in BOOLEAN
  BY DEF Stopped
<1>3. disabled[u] \in BOOLEAN /\ applied[u] \in BOOLEAN
  BY DEF StopInv, AccountInv, TypeInv, TypeOK
<1>4. (disabled[u] <=> Stopped(mem[p], u)) /\ (applied[u] <=> disabled[u])
  BY <1>1, <1>2 DEF DoneInv, DoneOf
<1> QED BY <1>2, <1>3, <1>4

(* With any number of users, sessions, cycles, commands, Reset flags and     *)
(* syncs, and whatever fails: a cycle, a disable or an enable that is about  *)
(* to save a change of a user's stop has made it in oscam.user and in OSCam, *)
(* until a sync writes back a copy that was stale.                           *)
THEOREM SavedIsDone == Spec => [](~ stale => SavedAsDone)
<1>1. Init => StopInv /\ DoneInv
  BY StopInvInit, FreeAssumption DEF Init, DoneInv, DoneOf
<1>2. StopInv /\ DoneInv /\ [Next]_vars => StopInv' /\ DoneInv'
  BY StopInvNext, DoneNext
<1> QED BY <1>1, <1>2, DoneImplies, PTL DEF Spec

-----------------------------------------------------------------------------
(* A cycle stops nobody who has not earned it.  The strikes of a record that *)
(* is not stopped are never more than the "over" readings counted for that   *)
(* user, up to the limit: in state.json those whose end has been saved, in   *)
(* the memory of the lock's holder all of them.                              *)

Covered(state, u, n) == Stopped(state, u) \/ n = StrikeCount \/ state[u].strikes <= n

StoreCovered == \A u \in Users : Covered(store, u, over[u])

MemCovered(p) == \A u \in Users : Covered(mem[p], u, Streak(u))

(* A cycle on its way to a stop.                                             *)
DueOf(p) ==
    job[p] \in Cycles /\ pc[p] = "stopEdit" => Streak(cur[p]) = StrikeCount

EarnedOf(p) == lock = p => MemCovered(p) /\ DueOf(p)

EarnInv == ~ stale => StoreCovered /\ \A p \in Procs : EarnedOf(p)

(* What a step of p has to establish; the others' part follows from Outsider *)
(* and StepsAside.                                                           *)
EarnedBy(p) == StoreCovered /\ EarnedOf(p)

LEMMA StreakType ==
  ASSUME TypeInv, StreakInv, NEW u \in Users
  PROVE  Streak(u) \in Nat /\ Streak(u) <= StrikeCount
  BY DEF TypeInv, TypeOK, StreakInv, Streak

LEMMA EarnLock ==
  ASSUME StopInv, NEW p \in Procs, EarnedBy(p),
         Start(p) \/ LockCycle(p) \/ LockDisable(p) \/ LockEnable(p) \/ LockReset(p)
  PROVE  EarnedBy(p)'
<1> USE DEF StopInv, AccountInv, TypeInv, TypeOK, Goto
<1>1. CASE Start(p)
  <2>1. lock # p /\ UNCHANGED <<lock, store, over>>
    BY <1>1 DEF Start, StartCycle, StartCommand, StartSaveInstance, LockInv, Holding,
                AtUser, shared, ghosts
  <2> QED BY <2>1 DEF EarnedBy, StoreCovered, Covered, Stopped, EarnedOf
<1>2. CASE ~ Start(p)
  <2>1. UNCHANGED <<store, over, job, cur>> /\ lock = Free /\ broken = {}
    BY <1>2 DEF LockCycle, LockDisable, LockEnable, LockReset, Acquire, streaks, Break,
                StreakInv
  <2>2. StoreCovered' /\ \A u \in Users : Covered(store, u, over[u])
    BY <2>1 DEF EarnedBy, StoreCovered, Covered, Stopped
  <2>3. CASE LockCycle(p) \/ LockDisable(p) \/ LockEnable(p)
    <3>1. /\ mem'[p] = store /\ broken' = broken
          /\ pc'[p] = "stopEdit" => job[p] = "disable"
      BY <2>3 DEF LockCycle, LockDisable, LockEnable, streaks
    <3>2. MemCovered(p)'
      BY <2>1, <2>2, <3>1 DEF MemCovered, Covered, Stopped, Streak
    <3>3. DueOf(p)'
      BY <2>1, <3>1 DEF DueOf, Cycles
    <3> QED BY <2>2, <3>2, <3>3 DEF EarnedBy, EarnedOf
  <2>4. CASE LockReset(p)
    <3>1. /\ mem' = [mem EXCEPT ![p] = [store EXCEPT ![cur[p]] = Fresh]]
          /\ pc'[p] = "save" /\ cur[p] \in Users
          /\ broken' = {cur[p]} /\ tail'[cur[p]] = 0
      BY <2>1, <2>4 DEF LockReset, Acquire, Break, CurOK, Commands
    <3>2. \A u \in Users : mem'[p][u] = IF u = cur[p] THEN Fresh ELSE store[u]
      BY <3>1
    <3>3. Fresh.strikes = 0
      BY DEF Fresh
    <3>4. MemCovered(p)'
      BY <2>1, <2>2, <3>1, <3>2, <3>3 DEF MemCovered, Covered, Stopped, Streak
    <3> QED BY <2>2, <3>1, <3>4 DEF EarnedBy, EarnedOf, DueOf
  <2> QED BY <1>2, <2>3, <2>4
<1> QED BY <1>1, <1>2

(* The steps that touch neither a record nor a count.                        *)
LEMMA EarnLoops ==
  ASSUME StopInv, NEW p \in Procs, EarnedBy(p),
         \/ ReenableNext(p) \/ ReenableEnd(p) \/ EvaluateEnd(p)
         \/ StopEdit(p) \/ ReinstateEdit(p)
  PROVE  EarnedBy(p)'
<1>1. UNCHANGED <<store, lock, streaks, mem>> /\ lock = p
  BY DEF ReenableNext, ReenableEnd, EvaluateEnd, StopEdit, ReinstateEdit, EditAccount,
         shared, ghosts, streaks, StopInv, AccountInv, LockInv, Holding, AtUser
<1>2. pc'[p] # "stopEdit"
  BY DEF ReenableNext, ReenableEnd, EvaluateEnd, StopEdit, ReinstateEdit, EditAccount, Goto,
         StopInv, AccountInv, TypeInv, TypeOK
<1> QED BY <1>1, <1>2 DEF EarnedBy, EarnedOf, StoreCovered, MemCovered, Covered, Stopped,
                          Streak, streaks, DueOf

(* The count of "over" readings after one more reading.                      *)
CountAfter(n, reading) ==
    CASE reading = "over"  -> CountTo(StrikeCount, n)
      [] reading = "under" -> 0
      [] reading = "none"  -> n

(* One reading of a user that is not stopped: the strikes follow the count.  *)
LEMMA EarnReading ==
  ASSUME NEW n \in Nat, n <= StrikeCount, NEW reading \in Readings,
         NEW record \in UserState, n = StrikeCount \/ record.strikes <= n,
         NEW n1, n1 = CountAfter(n, reading)
  PROVE  /\ n1 = StrikeCount \/ NextState(reading, record).strikes <= n1
         /\ \A action : ShouldStop(reading, record, action) => n1 = StrikeCount
<1>1. record.strikes \in Nat /\ StrikeCount \in Nat
  BY StrikeCountAssumption DEF UserState
<1>2. CASE reading = "over"
  <2>1. NextState(reading, record).strikes = record.strikes + 1
    BY <1>2 DEF NextState, Recorded, NextStrikes
  <2>2. n1 = IF n < StrikeCount THEN n + 1 ELSE n
    BY <1>2 DEF CountAfter, CountTo
  <2>3. n1 \in Nat /\ n1 <= StrikeCount
    BY <1>1, <2>2
  <2>4. n1 = StrikeCount \/ record.strikes + 1 <= n1
    BY <1>1, <2>2
  <2>5. \A action : ShouldStop(reading, record, action) => record.strikes + 1 >= StrikeCount
    BY <1>2 DEF ShouldStop, NextStrikes
  <2>6. record.strikes + 1 >= StrikeCount => n1 = StrikeCount
    BY <1>1, <2>3, <2>4
  <2> QED BY <2>1, <2>4, <2>5, <2>6
<1>3. CASE reading = "under"
  <2>1. NextState(reading, record).strikes = 0
    BY <1>3 DEF NextState, Recorded, NextStrikes
  <2>2. \A action : ~ ShouldStop(reading, record, action)
    BY <1>3, StrikeCountAssumption DEF ShouldStop, NextStrikes
  <2> QED BY <1>3, <2>1, <2>2 DEF CountAfter
<1>4. CASE reading = "none"
  BY <1>4 DEF NextState, ShouldStop, CountAfter
<1> QED BY <1>2, <1>3, <1>4 DEF Readings

LEMMA EarnEvaluate ==
  ASSUME StopInv, NEW p \in Procs, EarnedBy(p), Observe(p) \/ DecideStop(p)
  PROVE  EarnedBy(p)'
<1>1. PICK u \in todo[p] :
        /\ mem' = [mem EXCEPT ![p][u] = NextState(NextReading(p, u), mem[p][u])]
        /\ Count(u, NextReading(p, u))
        /\ \/ pc'[p] = "evaluate"
           \/ /\ pc'[p] = "stopEdit" /\ cur'[p] = u
              /\ ShouldStop(NextReading(p, u), mem[p][u], Action[u])
        /\ pc[p] = "evaluate"
        /\ UNCHANGED <<store, lock, job>>
  BY DEF Observe, DecideStop, shared, Goto, StopInv, AccountInv, TypeInv, TypeOK
<1> DEFINE reading == NextReading(p, u)
           new == NextState(reading, mem[p][u])
<1>2. /\ u \in Users /\ reading \in Readings
      /\ mem \in [Procs -> [Users -> UserState]] /\ mem[p][u] \in UserState
  BY <1>1, NextReadingType DEF StopInv, AccountInv, TypeInv, TypeOK
<1>3. lock = p /\ ~ Stopped(mem[p], u) /\ MemCovered(p)
  BY <1>1 DEF StopInv, AccountInv, LockInv, Holding, TodoInv, EarnedBy, EarnedOf
<1>4. /\ \A v \in Users : Streak(v) \in Nat /\ over[v] \in Nat
      /\ Streak(u) <= StrikeCount
  BY <1>2, StreakType DEF StopInv, AccountInv, TypeInv, TypeOK
<1>5. /\ \A v \in Users : over[v] <= over'[v] /\ over'[v] <= StrikeCount
      /\ \A v \in Users \ {u} : Streak(v)' = Streak(v)
      /\ Streak(u)' = CountAfter(Streak(u), reading)
  <2>1. /\ \A v \in Users : over[v] <= over'[v] /\ over'[v] <= StrikeCount
        /\ \A v \in Users \ {u} : Streak(v)' = Streak(v)
        /\ reading = "over" => Streak(u)' = CountTo(StrikeCount, Streak(u))
        /\ reading = "under" => Streak(u)' = 0
        /\ reading = "none" => Streak(u)' = Streak(u)
    BY <1>1, <1>2, CountStreak DEF StopInv, AccountInv
  <2>2. reading \in {"over", "under", "none"}
    BY <1>2 DEF Readings
  <2> HIDE DEF reading
  <2> QED BY <2>1, <2>2 DEF CountAfter
<1>6. /\ Streak(u)' = StrikeCount \/ new.strikes <= Streak(u)'
      /\ ShouldStop(reading, mem[p][u], Action[u]) => Streak(u)' = StrikeCount
  <2>1. Streak(u) = StrikeCount \/ mem[p][u].strikes <= Streak(u)
    BY <1>2, <1>3 DEF MemCovered, Covered
  <2> HIDE DEF reading
  <2> QED BY <1>2, <1>4, <1>5, <2>1, EarnReading
<1> HIDE DEF new
<1>7. \A v \in Users : mem'[p][v] = IF v = u THEN new ELSE mem[p][v]
  <2>1. mem' = [mem EXCEPT ![p][u] = new]
    BY <1>1 DEF new
  <2> QED BY <1>2, <2>1, MemUpdate
<1>8. StoreCovered'
  <2> SUFFICES ASSUME NEW v \in Users PROVE Covered(store, v, over[v])'
    BY DEF StoreCovered
  <2>1. Covered(store, v, over[v]) /\ store' = store
    BY <1>1 DEF EarnedBy, StoreCovered
  <2>2. over[v] \in Nat /\ over[v] <= over'[v] /\ over'[v] <= StrikeCount
    BY <1>4, <1>5
  <2>3. over'[v] \in Nat /\ store[v].strikes \in Nat
    BY <1>1, <1>2, CountType DEF StopInv, AccountInv, TypeInv, TypeOK, UserState
  <2> QED BY <2>1, <2>2, <2>3, StrikeCountAssumption DEF Covered, Stopped
<1>9. MemCovered(p)'
  <2> SUFFICES ASSUME NEW v \in Users PROVE Covered(mem[p], v, Streak(v))'
    BY DEF MemCovered
  <2>1. CASE v = u
    BY <1>6, <1>7, <2>1 DEF Covered
  <2>2. CASE v # u
    <3>1. Covered(mem[p], v, Streak(v)) /\ mem'[p][v] = mem[p][v] /\ Streak(v)' = Streak(v)
      BY <1>3, <1>5, <1>7, <2>2 DEF MemCovered
    <3> QED BY <3>1 DEF Covered, Stopped
  <2> QED BY <2>1, <2>2
<1>10. DueOf(p)'
  BY <1>1, <1>6 DEF DueOf
<1> QED BY <1>8, <1>9, <1>10 DEF EarnedBy, EarnedOf

LEMMA EarnReinit ==
  ASSUME StopInv, NEW p \in Procs, EarnedBy(p), StopReinit(p) \/ ReinstateReinit(p)
  PROVE  EarnedBy(p)'
<1>1. /\ lock = p /\ cur[p] \in Users
      /\ UNCHANGED <<store, lock>>
      /\ pc'[p] # "stopEdit"
      /\ mem \in [Procs -> [Users -> UserState]]
      /\ tail \in [Users -> Nat] /\ broken \subseteq Users
  BY DEF StopReinit, ReinstateReinit, LockInv, Holding, AtUser, CurOK, Goto, StopInv,
         AccountInv, TypeInv, TypeOK
<1>2. PICK new :
        /\ mem' = [mem EXCEPT ![p][cur[p]] = new]
        /\ \/ new.status = "stopped" /\ UNCHANGED streaks
           \/ new.strikes = 0 /\ Break(cur[p])
  <2>1. CASE StopReinit(p)
    <3> DEFINE new == [mem[p][cur[p]] EXCEPT !.status = "stopped", !.until = pending[p]]
    <3>1. new.status = "stopped"
      BY <1>1 DEF UserState
    <3>2. mem' = [mem EXCEPT ![p][cur[p]] = new] /\ UNCHANGED streaks
      BY <2>1 DEF StopReinit
    <3> HIDE DEF new
    <3> QED BY <3>1, <3>2
  <2>2. CASE ReinstateReinit(p)
    <3>1. mem' = [mem EXCEPT ![p][cur[p]] = Fresh] /\ Break(cur[p])
      BY <2>2 DEF ReinstateReinit
    <3>2. Fresh.strikes = 0
      BY DEF Fresh
    <3> QED BY <3>1, <3>2
  <2> QED BY <2>1, <2>2
<1>3. \A v \in Users : mem'[p][v] = IF v = cur[p] THEN new ELSE mem[p][v]
  BY <1>1, <1>2, MemUpdate
<1>4. /\ over' = over
      /\ \A v \in Users \ {cur[p]} : Streak(v)' = Streak(v)
      /\ \/ new.status = "stopped"
         \/ new.strikes = 0 /\ \A v \in Users : v = cur[p] => Streak(v)' = 0
  <2>1. CASE new.status = "stopped" /\ UNCHANGED streaks
    BY <2>1 DEF streaks, Streak
  <2>2. CASE new.strikes = 0 /\ Break(cur[p])
    BY <1>1, <2>2 DEF Break, Streak
  <2> QED BY <1>2, <2>1, <2>2
<1>5. StoreCovered'
  BY <1>1, <1>4 DEF EarnedBy, StoreCovered, Covered, Stopped
<1>6. MemCovered(p)'
  <2> SUFFICES ASSUME NEW v \in Users PROVE Covered(mem[p], v, Streak(v))'
    BY DEF MemCovered
  <2>1. CASE v = cur[p]
    BY <1>3, <1>4, <2>1 DEF Covered, Stopped
  <2>2. CASE v # cur[p]
    <3>1. Covered(mem[p], v, Streak(v)) /\ mem'[p][v] = mem[p][v] /\ Streak(v)' = Streak(v)
      BY <1>1, <1>3, <1>4, <2>2 DEF EarnedBy, EarnedOf, MemCovered
    <3> QED BY <3>1 DEF Covered, Stopped
  <2> QED BY <2>1, <2>2
<1> QED BY <1>1, <1>5, <1>6 DEF EarnedBy, EarnedOf, DueOf

LEMMA EarnAbort ==
  ASSUME StopInv, NEW p \in Procs, EarnedBy(p), Fault(p) \/ AccountMissing(p)
  PROVE  EarnedBy(p)'
<1>1. lock' # p /\ UNCHANGED <<store, over>>
  BY FreeAssumption DEF Fault, ReinitFails, Crash, AccountMissing, Abort
<1> QED BY <1>1 DEF EarnedBy, EarnedOf, StoreCovered, Covered, Stopped

LEMMA EarnSave ==
  ASSUME StopInv, NEW p \in Procs, EarnedBy(p), Save(p)
  PROVE  EarnedBy(p)'
<1>1. /\ lock = p /\ lock' # p
      /\ store' = mem[p]
      /\ over' = [u \in Users |-> Streak(u)]
  BY FreeAssumption DEF Save, StopInv, AccountInv, LockInv, Holding
<1>2. \A u \in Users : Covered(mem[p], u, Streak(u))
  BY <1>1 DEF EarnedBy, EarnedOf, MemCovered
<1>3. StoreCovered'
  BY <1>1, <1>2 DEF StoreCovered, Covered, Stopped
<1> QED BY <1>1, <1>3 DEF EarnedBy, EarnedOf

LEMMA EarnSync ==
  ASSUME StopInv, NEW p \in Procs, EarnedBy(p), SyncLoad(p) \/ SyncSave(p), ~ stale'
  PROVE  EarnedBy(p)'
<1>1. lock # p
  BY DEF SyncLoad, SyncSave, StopInv, AccountInv, LockInv, Holding, AtUser
<1>2. UNCHANGED <<store, lock, streaks>>
  BY SyncLeaves
<1> QED BY <1>1, <1>2 DEF EarnedBy, EarnedOf, StoreCovered, Covered, Stopped, streaks

LEMMA EarnTick ==
  ASSUME StopInv, StoreCovered, \A p \in Procs : EarnedOf(p), Tick
  PROVE  StoreCovered' /\ \A p \in Procs : EarnedOf(p)'
<1> USE DEF StopInv, AccountInv
<1>1. UNCHANGED <<lock, pc, job, cur, over, broken, tail>>
  BY DEF Tick, ghosts
<1>2. \A u \in Users : /\ store'[u].strikes = store[u].strikes
                       /\ Stopped(store', u) <=> Stopped(store, u)
  BY TickKeeps DEF Stopped
<1>3. \A q \in Procs, u \in Users : /\ mem'[q][u].strikes = mem[q][u].strikes
                                    /\ Stopped(mem'[q], u) <=> Stopped(mem[q], u)
  BY TickKeeps DEF Stopped
<1>4. StoreCovered'
  BY <1>1, <1>2 DEF StoreCovered, Covered, Stopped
<1>5. \A u : Streak(u)' = Streak(u)
  BY <1>1 DEF Streak
<1>6. ASSUME NEW q \in Procs PROVE EarnedOf(q)'
  <2>1. CASE lock = q
    <3>1. \A u \in Users : Covered(mem[q], u, Streak(u))
      BY <2>1 DEF EarnedOf, MemCovered
    <3>2. MemCovered(q)'
      BY <1>3, <1>5, <3>1 DEF MemCovered, Covered, Stopped
    <3>3. DueOf(q)'
      BY <1>1, <1>5, <2>1 DEF EarnedOf, DueOf
    <3> QED BY <3>2, <3>3 DEF EarnedOf
  <2>2. CASE lock # q
    BY <1>1, <2>2 DEF EarnedOf
  <2> QED BY <2>1, <2>2
<1> QED BY <1>4, <1>6

LEMMA EarnInit == Init => EarnInv
  BY FreeAssumption DEF Init, EarnInv, StoreCovered, Covered, EarnedOf, NoState, NoStreak, Fresh

LEMMA EarnNext ==
  ASSUME StopInv, EarnInv, [Next]_vars
  PROVE  EarnInv'
<1> SUFFICES ASSUME ~ stale' PROVE StoreCovered' /\ \A q \in Procs : EarnedOf(q)'
  BY DEF EarnInv
<1>0. StoreCovered /\ \A q \in Procs : EarnedOf(q)
  BY StaleStays DEF EarnInv
<1>1. CASE UNCHANGED vars
  BY <1>0, <1>1 DEF vars, StoreCovered, Covered, EarnedOf, MemCovered, DueOf, Stopped, Streak
<1>2. CASE OscamRestart
  BY <1>0, <1>2 DEF OscamRestart, locals, ghosts, StoreCovered, Covered, EarnedOf, MemCovered,
                    DueOf, Stopped, Streak
<1>3. CASE Tick
  BY <1>0, <1>3, EarnTick
<1>4. ASSUME NEW p \in Procs, Start(p) \/ Work(p) \/ Fault(p)
      PROVE  StoreCovered' /\ \A q \in Procs : EarnedOf(q)'
  <2>1. EarnedBy(p)
    BY <1>0 DEF EarnedBy
  <2>2. EarnedBy(p)'
    <3>1. CASE Start(p) \/ LockCycle(p) \/ LockDisable(p) \/ LockEnable(p) \/ LockReset(p)
      BY <2>1, <3>1, EarnLock
    <3>2. CASE \/ ReenableNext(p) \/ ReenableEnd(p) \/ EvaluateEnd(p)
               \/ StopEdit(p) \/ ReinstateEdit(p)
      BY <2>1, <3>2, EarnLoops
    <3>3. CASE Observe(p) \/ DecideStop(p)
      BY <2>1, <3>3, EarnEvaluate
    <3>4. CASE StopReinit(p) \/ ReinstateReinit(p)
      BY <2>1, <3>4, EarnReinit
    <3>5. CASE Fault(p) \/ AccountMissing(p)
      BY <2>1, <3>5, EarnAbort
    <3>6. CASE Save(p)
      BY <2>1, <3>6, EarnSave
    <3>7. CASE SyncLoad(p) \/ SyncSave(p)
      BY <2>1, <3>7, EarnSync
    <3> QED BY <1>4, <3>1, <3>2, <3>3, <3>4, <3>5, <3>6, <3>7 DEF Work
  <2>3. ASSUME NEW q \in Procs \ {p} PROVE EarnedOf(q)'
    <3>1. pc'[q] = pc[q] /\ job'[q] = job[q] /\ cur'[q] = cur[q] /\ mem'[q] = mem[q]
      BY <1>4, StepsAside DEF Aside, StopInv, AccountInv
    <3>2. CASE lock' = q
      <4>1. lock = q
        BY <1>4, <3>2, LockMoves, FreeAssumption
      <4>2. UNCHANGED <<store, streaks>>
        BY <1>4, <4>1, Outsider DEF StopInv, AccountInv
      <4> QED BY <1>0, <3>1, <4>1, <4>2 DEF EarnedOf, MemCovered, Covered, DueOf, Stopped,
                                            Streak, streaks
    <3>3. CASE lock' # q
      BY <3>3 DEF EarnedOf
    <3> QED BY <3>2, <3>3
  <2> QED BY <2>2, <2>3 DEF EarnedBy
<1> QED BY <1>1, <1>2, <1>3, <1>4 DEF Next

LEMMA EarnImplies == StopInv /\ EarnInv => StopEarned
<1> SUFFICES ASSUME StopInv, EarnInv, ~ stale, NEW p \in Procs,
                    job[p] \in Cycles, pc[p] = "stopEdit"
             PROVE  Streak(cur[p]) = StrikeCount
  BY DEF StopEarned
<1>1. lock = p
  BY DEF StopInv, AccountInv, LockInv, Holding, AtUser
<1> QED BY <1>1 DEF EarnInv, EarnedOf, DueOf

(* With any number of users, entries, sessions, cycles, commands, Reset      *)
(* flags and syncs, and whatever fails: a cycle goes to disable an account   *)
(* only after strike_count readings over the limit have been evaluated for   *)
(* that user, with no lower reading, reset or reinstatement recorded in      *)
(* between, until a sync writes back a copy that was stale.                  *)
THEOREM StopIsEarned == Spec => []StopEarned
<1>1. Init => StopInv /\ EarnInv
  BY StopInvInit, EarnInit
<1>2. StopInv /\ EarnInv /\ [Next]_vars => StopInv' /\ EarnInv'
  BY StopInvNext, EarnNext
<1> QED BY <1>1, <1>2, EarnImplies, PTL DEF Spec

=============================================================================
