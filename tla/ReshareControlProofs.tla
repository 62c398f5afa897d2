------------------------ MODULE ReshareControlProofs ------------------------
(* Proofs about ReshareControl, for every value of its constants.            *)
EXTENDS ReshareControl, TLAPS

(* Where a process works on one user, and whose user it is.                  *)
AtUser == {"stopEdit", "stopReinit", "reinstateEdit", "reinstateReinit"}

(* A process that works on one user has one, and so has an operator command. *)
CurOK ==
    \A p \in Procs :
        (pc[p] \in AtUser \/ job[p] \in Commands) => cur[p] \in Users

TypeInv == TypeOK /\ CurOK

-----------------------------------------------------------------------------
(* The operators of the rule keep their types.                               *)

LEMMA FreshType == Fresh \in UserState
  BY DEF Fresh, UserState, Statuses, Minutes

LEMMA NextStateType ==
  ASSUME NEW reading \in Readings, NEW record \in UserState
  PROVE  NextState(reading, record) \in UserState
  BY DEF NextState, Recorded, NextStrikes, Verdict, Readings, UserState, Statuses, Minutes

LEMMA StoppedType ==
  ASSUME NEW record \in UserState, NEW time \in Minutes
  PROVE  [record EXCEPT !.status = "stopped", !.until = time] \in UserState
  BY DEF UserState, Statuses

LEMMA LaterType ==
  ASSUME NEW t \in Minutes
  PROVE  Later(t) \in Minutes
  BY NoTimeAssumption DEF Later, Minutes

LEMMA AgedType ==
  ASSUME NEW state \in [Users -> UserState]
  PROVE  Aged(state) \in [Users -> UserState]
  BY LaterType DEF Aged, UserState

LEMMA StoppedUntilType ==
  ASSUME NEW u \in Users
  PROVE  StoppedUntil(u) \in Minutes
  BY PolicyAssumption DEF StoppedUntil, Minutes

LEMMA CountToType ==
  ASSUME NEW limit \in Nat, NEW n \in Nat
  PROVE  CountTo(limit, n) \in Nat
  BY DEF CountTo

(* A response lists each user no more often than it may.                     *)
Lists == Seq({"over", "under"})

LEMMA ListingsType ==
  ASSUME NEW n \in Nat, NEW list \in Listings(n)
  PROVE  list \in Lists /\ Len(list) <= n
<1>1. PICK k \in 0 .. n : list \in [1 .. k -> {"over", "under"}]
  BY DEF Listings
<1> QED BY <1>1 DEF Lists

LEMMA ResponsesType ==
  ASSUME NEW b \in Responses
  PROVE  /\ b \in [Users -> Lists]
         /\ \A u \in Users : Len(b[u]) <= Entries[u]
<1>1. b \in [Users -> UNION {Listings(Entries[u]) : u \in Users}]
  BY DEF Responses
<1>2. ASSUME NEW u \in Users
      PROVE  b[u] \in Lists /\ Len(b[u]) <= Entries[u]
  <2> DEFINE n == IF applied[u] THEN 0 ELSE Entries[u]
  <2>1. b[u] \in Listings(n)
    BY DEF Responses
  <2>2. n \in Nat /\ n <= Entries[u]
    BY EntriesAssumption
  <2> HIDE DEF n
  <2> QED BY <2>1, <2>2, EntriesAssumption, ListingsType DEF Lists
<1> QED BY <1>1, <1>2

LEMMA RestType ==
  ASSUME NEW list \in Lists
  PROVE  /\ Rest(list) \in Lists
         /\ Len(Rest(list)) = IF list = <<>> THEN 0 ELSE Len(list) - 1
  BY DEF Rest, Lists

LEMMA NextReadingType ==
  ASSUME TypeInv, NEW p \in Procs, NEW u \in Users
  PROVE  NextReading(p, u) \in Readings
  BY DEF NextReading, TypeInv, TypeOK, Readings

LEMMA AlertsType ==
  ASSUME alerts \in [Users -> Nat], NEW u \in Users,
         \/ alerts' = [alerts EXCEPT ![u] = 0]
         \/ alerts' = [alerts EXCEPT ![u] = CountTo(2, alerts[u])]
         \/ alerts' = alerts
  PROVE  alerts' \in [Users -> Nat]
<1>1. CountTo(2, alerts[u]) \in Nat
  BY CountToType
<1> QED BY <1>1

(* What one evaluation does to the history of the streaks.                   *)
LEMMA CountType ==
  ASSUME TypeInv, NEW u \in Users, NEW reading \in Readings, Count(u, reading)
  PROVE  over' \in [Users -> Nat] /\ broken' \subseteq Users /\ tail' \in [Users -> Nat]
<1> USE DEF TypeInv, TypeOK
<1>1. CASE reading = "over"
  <2>1. CountTo(StrikeCount, over[u]) \in Nat /\ CountTo(StrikeCount, tail[u]) \in Nat
    BY CountToType, StrikeCountAssumption
  <2> QED BY <1>1, <2>1 DEF Count
<1>2. CASE reading = "under"
  <2>1. Break(u)
    BY <1>2 DEF Count
  <2> QED BY <2>1 DEF Break
<1>3. CASE reading = "none"
  BY <1>3 DEF Count, streaks
<1> QED BY <1>1, <1>2, <1>3 DEF Readings

-----------------------------------------------------------------------------

LEMMA TypeInit == Init => TypeInv
<1> SUFFICES ASSUME Init PROVE TypeInv
  OBVIOUS
<1>1. NoState \in [Users -> UserState] /\ NoReading \in [Users -> Lists]
  BY FreshType DEF NoState, NoReading, Lists
<1>2. TypeOK
  BY <1>1 DEF Init, TypeOK, Labels, Minutes, NoStreak, Lists
<1>3. CurOK
  BY DEF Init, CurOK, AtUser, Commands
<1> QED BY <1>2, <1>3 DEF TypeInv

(* Returning from a job keeps the types of the local variables.              *)
LEMMA ReturnType ==
  ASSUME TypeInv, NEW p \in Procs, Return(p)
  PROVE  /\ pc' \in [Procs -> Labels]
         /\ job' \in [Procs -> Jobs \cup {"none"}]
         /\ cur' \in [Procs -> Users \cup {NoUser}]
         /\ body' \in [Procs -> [Users -> Lists]]
         /\ mem' \in [Procs -> [Users -> UserState]]
         /\ todo' \in [Procs -> SUBSET Users]
         /\ pending' \in [Procs -> Minutes]
         /\ CurOK'
  BY FreshType DEF TypeInv, TypeOK, CurOK, AtUser, Commands, Return, Goto, Labels,
                   NoReading, NoState, Lists, Minutes

(* Aborting one keeps the types of the history too.                          *)
LEMMA AbortType ==
  ASSUME TypeInv, NEW p \in Procs, Abort(p)
  PROVE  /\ lock' \in Procs \cup {Free}
         /\ lost' \in BOOLEAN
         /\ broken' \subseteq Users
         /\ tail' \in [Users -> Nat]
  BY DEF Abort, Forget, NoStreak, Unsaved, TypeInv, TypeOK

LEMMA TypeStart ==
  ASSUME TypeInv, NEW p \in Procs, Start(p)
  PROVE  TypeInv'
<1> USE DEF TypeInv, TypeOK, CurOK, AtUser, Goto, CountRequest, shared, ghosts, Labels
<1>1. CASE StartCycle(p)
  BY <1>1, ResponsesType DEF StartCycle, Cycles, Commands, Lists
<1>2. CASE StartCommand(p)
  BY <1>2 DEF StartCommand
<1>3. CASE StartSaveInstance(p)
  BY <1>3 DEF StartSaveInstance, Commands
<1> QED BY <1>1, <1>2, <1>3 DEF Start

LEMMA TypeLock ==
  ASSUME TypeInv, NEW p \in Procs,
         LockCycle(p) \/ LockDisable(p) \/ LockEnable(p) \/ LockReset(p)
  PROVE  TypeInv'
<1> USE DEF TypeInv, TypeOK, CurOK, AtUser, Goto, Acquire, limits, streaks, Labels
<1>1. CASE LockCycle(p)
  BY <1>1 DEF LockCycle, Cycles, Commands
<1>2. CASE LockDisable(p)
  BY <1>2 DEF LockDisable, Commands
<1>3. CASE LockEnable(p)
  BY <1>3 DEF LockEnable, Commands
<1>4. CASE LockReset(p)
  BY <1>4, FreshType DEF LockReset, Commands, Break
<1> QED BY <1>1, <1>2, <1>3, <1>4

LEMMA TypeLoops ==
  ASSUME TypeInv, NEW p \in Procs,
         \/ ReenableNext(p) \/ ReenableEnd(p)
         \/ Observe(p) \/ DecideStop(p) \/ EvaluateEnd(p)
  PROVE  TypeInv'
<1> USE DEF TypeInv, TypeOK, CurOK, AtUser, Goto, shared, limits, ghosts, Labels
<1>1. CASE ReenableNext(p)
  BY <1>1 DEF ReenableNext
<1>2. CASE ReenableEnd(p)
  BY <1>2 DEF ReenableEnd
<1>3. CASE Observe(p)
  <2>1. PICK u \in todo[p] :
          /\ mem' = [mem EXCEPT ![p][u] = NextState(NextReading(p, u), mem[p][u])]
          /\ body' = [body EXCEPT ![p][u] = Rest(@)]
          /\ todo' = todo \/ todo' = [todo EXCEPT ![p] = @ \ {u}]
          /\ Count(u, NextReading(p, u))
          /\ \/ alerts' = [alerts EXCEPT ![u] = 0]
             \/ alerts' = [alerts EXCEPT ![u] = CountTo(2, alerts[u])]
             \/ alerts' = alerts
    BY <1>3 DEF Observe
  <2>2. NextReading(p, u) \in Readings
    BY NextReadingType
  <2>3. /\ NextState(NextReading(p, u), mem[p][u]) \in UserState
        /\ Rest(body[p][u]) \in Lists
    BY <2>2, NextStateType, RestType DEF Lists
  <2>4. /\ mem' \in [Procs -> [Users -> UserState]]
        /\ todo' \in [Procs -> SUBSET Users]
        /\ body' \in [Procs -> [Users -> Lists]]
    BY <2>1, <2>3 DEF Lists
  <2>5. over' \in [Users -> Nat] /\ broken' \subseteq Users /\ tail' \in [Users -> Nat]
    BY <2>1, <2>2, CountType
  <2>6. alerts' \in [Users -> Nat]
    BY <2>1, AlertsType
  <2>7. UNCHANGED <<store, lock, disabled, applied, audit, pc, job, cur, pending,
                    faults, requests, lost, stale>>
    BY <1>3 DEF Observe
  <2> QED BY <2>4, <2>5, <2>6, <2>7 DEF Lists
<1>4. CASE DecideStop(p)
  <2>1. PICK u \in todo[p] :
          /\ cur' = [cur EXCEPT ![p] = u]
          /\ mem' = [mem EXCEPT ![p][u] = NextState(NextReading(p, u), mem[p][u])]
          /\ pending' = [pending EXCEPT ![p] = StoppedUntil(u)]
          /\ body' = [body EXCEPT ![p][u] = <<>>]
          /\ todo' = [todo EXCEPT ![p] = @ \ {u}]
          /\ Count(u, NextReading(p, u))
    BY <1>4 DEF DecideStop
  <2>2. NextReading(p, u) \in Readings
    BY NextReadingType
  <2>3. NextState(NextReading(p, u), mem[p][u]) \in UserState
    BY <2>2, NextStateType
  <2>4. /\ mem' \in [Procs -> [Users -> UserState]]
        /\ todo' \in [Procs -> SUBSET Users]
        /\ body' \in [Procs -> [Users -> Lists]]
    BY <2>1, <2>3 DEF Lists
  <2>5. over' \in [Users -> Nat] /\ broken' \subseteq Users /\ tail' \in [Users -> Nat]
    BY <2>1, <2>2, CountType
  <2>6. pending' \in [Procs -> Minutes]
    BY <2>1, StoppedUntilType
  <2> QED BY <1>4, <2>1, <2>4, <2>5, <2>6 DEF DecideStop, Lists
<1>5. CASE EvaluateEnd(p)
  BY <1>5 DEF EvaluateEnd
<1> QED BY <1>1, <1>2, <1>3, <1>4, <1>5

LEMMA TypeAccount ==
  ASSUME TypeInv, NEW p \in Procs,
         \/ StopEdit(p) \/ ReinstateEdit(p) \/ AccountMissing(p)
         \/ StopReinit(p) \/ ReinstateReinit(p) \/ Fault(p)
  PROVE  TypeInv'
<1> USE DEF TypeInv, TypeOK
<1>1. CASE StopEdit(p)
  BY <1>1 DEF StopEdit, EditAccount, CurOK, AtUser, Goto, limits, ghosts, Labels
<1>2. CASE ReinstateEdit(p)
  BY <1>2 DEF ReinstateEdit, EditAccount, CurOK, AtUser, Goto, limits, ghosts, Labels
<1>3. CASE AccountMissing(p)
  BY <1>3, ReturnType, AbortType DEF AccountMissing, Abort, limits, Lists
<1>4. CASE StopReinit(p)
  <2>1. cur[p] \in Users
    BY <1>4 DEF StopReinit, CurOK, AtUser
  <2>2. mem' \in [Procs -> [Users -> UserState]]
    <3> DEFINE new == [mem[p][cur[p]] EXCEPT !.status = "stopped", !.until = pending[p]]
    <3>1. new \in UserState
      <4>1. mem[p][cur[p]] \in UserState /\ pending[p] \in Minutes
        BY <2>1
      <4> QED BY <4>1, StoppedType
    <3>2. mem' = [mem EXCEPT ![p][cur[p]] = new]
      BY <1>4 DEF StopReinit
    <3> QED BY <2>1, <3>1, <3>2
  <2>3. alerts' \in [Users -> Nat]
    BY <1>4, <2>1, CountToType DEF StopReinit
  <2>4. pc' \in [Procs -> Labels] /\ CurOK'
    BY <1>4 DEF StopReinit, CurOK, AtUser, Goto, Labels
  <2>5. pending' \in [Procs -> Minutes]
    BY <1>4 DEF StopReinit, Minutes
  <2> QED BY <1>4, <2>2, <2>3, <2>4, <2>5 DEF StopReinit, Reinit, limits, streaks
<1>5. CASE ReinstateReinit(p)
  <2>1. cur[p] \in Users
    BY <1>5 DEF ReinstateReinit, CurOK, AtUser
  <2>2. mem' \in [Procs -> [Users -> UserState]]
    BY <1>5, <2>1, FreshType DEF ReinstateReinit
  <2>3. /\ over' \in [Users -> Nat] /\ tail' \in [Users -> Nat]
        /\ broken' \subseteq Users /\ alerts' \in [Users -> Nat]
    BY <1>5, <2>1 DEF ReinstateReinit, Break
  <2>4. pc' \in [Procs -> Labels] /\ CurOK'
    BY <1>5 DEF ReinstateReinit, CurOK, AtUser, Goto, Labels
  <2> QED BY <1>5, <2>2, <2>3, <2>4 DEF ReinstateReinit, Reinit, limits
<1>6. CASE ReinitFails(p)
  <2>1. /\ Abort(p) /\ Return(p)
        /\ faults' = faults + 1
        /\ applied' = applied \/ applied' = disabled
        /\ UNCHANGED <<store, disabled, audit, requests, stale, over, alerts>>
    BY <1>6 DEF ReinitFails, Abort
  <2>2. applied' \in [Users -> BOOLEAN] /\ faults' \in Nat
    BY <2>1
  <2>3. UNCHANGED <<store, disabled, audit, requests, stale, over, alerts>>
    BY <2>1
  <2> QED BY <2>1, <2>2, <2>3, ReturnType, AbortType DEF Lists
<1>7. CASE Crash(p)
  <2>1. /\ Abort(p) /\ Return(p)
        /\ faults' = faults + 1
        /\ UNCHANGED <<store, disabled, applied, audit, requests, stale, over, alerts>>
    BY <1>7 DEF Crash, Abort
  <2> QED BY <2>1, ReturnType, AbortType DEF Lists
<1> QED BY <1>1, <1>2, <1>3, <1>4, <1>5, <1>6, <1>7 DEF Fault

LEMMA TypeSave ==
  ASSUME TypeInv, NEW p \in Procs, Save(p) \/ SyncLoad(p) \/ SyncSave(p)
  PROVE  TypeInv'
<1> USE DEF TypeInv, TypeOK
<1>1. CASE Save(p)
  <2>1. /\ over' \in [Users -> Nat] /\ tail' \in [Users -> Nat]
        /\ broken' \subseteq Users /\ alerts' \in [Users -> Nat]
    BY <1>1 DEF Save, Streak, Forget, NoStreak
  <2>2. CASE job[p] = "run_instance"
    <3>1. /\ pc' = [pc EXCEPT ![p] = "sync"]
          /\ cur' = [cur EXCEPT ![p] = NoUser]
          /\ body' = [body EXCEPT ![p] = NoReading]
          /\ mem' = [mem EXCEPT ![p] = NoState]
          /\ UNCHANGED <<job, todo, pending>>
      BY <1>1, <2>2 DEF Save, Goto
    <3>2. NoState \in [Users -> UserState] /\ NoReading \in [Users -> Lists]
      BY FreshType DEF NoState, NoReading, Lists
    <3>3. CurOK'
      BY <2>2, <3>1 DEF CurOK, AtUser, Commands
    <3> QED BY <1>1, <2>1, <3>1, <3>2, <3>3 DEF Save, limits, Labels, Lists
  <2>3. CASE job[p] # "run_instance"
    BY <1>1, <2>1, <2>3, ReturnType DEF Save, limits, Lists
  <2> QED BY <2>2, <2>3
<1>2. CASE SyncLoad(p)
  <2>1. CASE Accounts = {}
    BY <1>2, <2>1, ReturnType DEF SyncLoad, shared, limits, ghosts, Lists
  <2>2. CASE Accounts # {}
    BY <1>2, <2>2 DEF SyncLoad, shared, limits, ghosts, Goto, Labels, CurOK, AtUser
  <2> QED BY <2>1, <2>2
<1>3. CASE SyncSave(p)
  BY <1>3, ReturnType DEF SyncSave, limits, streaks, Lists
<1> QED BY <1>1, <1>2, <1>3

LEMMA TypeEnvironment ==
  ASSUME TypeInv, OscamRestart \/ Tick
  PROVE  TypeInv'
<1> USE DEF TypeInv, TypeOK, CurOK, limits, ghosts
<1>1. CASE OscamRestart
  BY <1>1 DEF OscamRestart, locals
<1>2. CASE Tick
  BY <1>2, AgedType, LaterType DEF Tick
<1> QED BY <1>1, <1>2

LEMMA TypeNext == TypeInv /\ [Next]_vars => TypeInv'
<1> SUFFICES ASSUME TypeInv, [Next]_vars PROVE TypeInv'
  OBVIOUS
<1>1. CASE UNCHANGED vars
  BY <1>1 DEF vars, TypeInv, TypeOK, CurOK
<1>2. CASE OscamRestart \/ Tick
  BY <1>2, TypeEnvironment
<1>3. ASSUME NEW p \in Procs, Start(p) \/ Work(p) \/ Fault(p)
      PROVE  TypeInv'
  BY <1>3, TypeStart, TypeLock, TypeLoops, TypeAccount, TypeSave DEF Work
<1> QED BY <1>1, <1>2, <1>3 DEF Next

(* Every variable keeps its type in every behaviour.                         *)
THEOREM TypeCorrect == Spec => []TypeOK
<1>1. TypeInv => TypeOK
  BY DEF TypeInv
<1> QED BY <1>1, TypeInit, TypeNext, PTL DEF Spec

-----------------------------------------------------------------------------
(* The lock, the account and its audit trail.                                *)

Reiniting == {"stopReinit", "reinstateReinit"}

(* Where a process is between taking the lock and releasing it.              *)
Holding == {"reenable", "evaluate", "save"} \cup AtUser

LockInv == \A p \in Procs : pc[p] \in Holding <=> lock = p

(* The account u has been edited and OSCam has still to be told.             *)
Edited(u) == \E p \in Procs : pc[p] \in Reiniting /\ cur[p] = u

EditInv ==
    \A p \in Procs :
        /\ pc[p] = "stopReinit" => disabled[cur[p]]
        /\ pc[p] = "reinstateReinit" => ~ disabled[cur[p]]

(* Except for an account that is being changed, OSCam and the audit log      *)
(* agree with oscam.user, in the middle of a critical section too.           *)
AuditInv ==
    ~ lost => \A u \in Users :
        \/ Edited(u)
        \/ applied[u] = disabled[u] /\ (audit[u] = "stop" <=> disabled[u])

AccountInv == TypeInv /\ LockInv /\ EditInv /\ AuditInv

(* The jobs that never clear the record of a stopped user without touching   *)
(* its account: all but Reset flag.                                          *)
CarefulJobs == AllJobs \ {"reset"}

(* Except for an account that is being changed, the records that will be     *)
(* saved say of every user what oscam.user says, and so do the records in    *)
(* state.json while nobody holds the lock.                                   *)
RecordInv ==
    ~ lost /\ ~ stale =>
        /\ lock = Free => \A u \in Users : Stopped(store, u) <=> disabled[u]
        /\ \A p \in Procs : lock = p =>
              \A u \in Users : Edited(u) \/ (Stopped(mem[p], u) <=> disabled[u])

(* The users a cycle has still to evaluate are not stopped.                  *)
TodoInv ==
    \A p \in Procs :
        \/ pc[p] = "evaluate"
        \/ pc[p] \in {"stopEdit", "stopReinit"} /\ job[p] \in Cycles
        => \A u \in todo[p] :
              /\ ~ Stopped(mem[p], u)
              /\ pc[p] # "evaluate" => u # cur[p]

-----------------------------------------------------------------------------

LEMMA LockInit == Init => LockInv
  BY FreeAssumption DEF Init, LockInv, Holding, AtUser

(* The critical sections exclude each other, whoever dies in one.            *)
LEMMA LockNext ==
  ASSUME TypeInv, LockInv, [Next]_vars
  PROVE  LockInv'
<1> USE FreeAssumption DEF LockInv, Holding, AtUser, TypeInv, TypeOK, Goto
<1>1. CASE UNCHANGED vars
  BY <1>1 DEF vars
<1>2. CASE OscamRestart
  BY <1>2 DEF OscamRestart, locals
<1>3. CASE Tick
  BY <1>3 DEF Tick
<1>4. ASSUME NEW p \in Procs, Start(p)
      PROVE  LockInv'
  BY <1>4 DEF Start, StartCycle, StartCommand, StartSaveInstance, shared
<1>5. ASSUME NEW p \in Procs,
             LockCycle(p) \/ LockDisable(p) \/ LockEnable(p) \/ LockReset(p)
      PROVE  LockInv'
  BY <1>5 DEF LockCycle, LockDisable, LockEnable, LockReset, Acquire
<1>6. ASSUME NEW p \in Procs,
             ReenableNext(p) \/ ReenableEnd(p) \/ DecideStop(p) \/ EvaluateEnd(p)
      PROVE  LockInv'
  BY <1>6 DEF ReenableNext, ReenableEnd, DecideStop, EvaluateEnd, shared
<1>7. ASSUME NEW p \in Procs, Observe(p)
      PROVE  LockInv'
  BY <1>7 DEF Observe, shared
<1>8. ASSUME NEW p \in Procs, StopEdit(p) \/ ReinstateEdit(p)
      PROVE  LockInv'
  BY <1>8 DEF StopEdit, ReinstateEdit, EditAccount
<1>9. ASSUME NEW p \in Procs, StopReinit(p) \/ ReinstateReinit(p)
      PROVE  LockInv'
  <2>1. /\ pc[p] \in Reiniting /\ lock' = lock
        /\ \E label \in {"evaluate", "reenable", "save"} :
              pc' = [pc EXCEPT ![p] = label]
    BY <1>9 DEF StopReinit, ReinstateReinit, Reiniting
  <2> QED BY <2>1 DEF Reiniting
<1>10. ASSUME NEW p \in Procs, Abort(p)
       PROVE  LockInv'
  <2>1. pc' = [pc EXCEPT ![p] = "idle"] /\ lock' = IF lock = p THEN Free ELSE lock
    BY <1>10 DEF Abort, Return
  <2>2. lock' # p /\ pc'[p] = "idle"
    BY <2>1
  <2>3. \A q \in Procs \ {p} : pc'[q] = pc[q] /\ (lock' = q <=> lock = q)
    BY <2>1
  <2> QED BY <2>2, <2>3
<1>11. ASSUME NEW p \in Procs, Save(p)
       PROVE  LockInv'
  <2>1. /\ pc' = [pc EXCEPT ![p] = "idle"] \/ pc' = [pc EXCEPT ![p] = "sync"]
        /\ lock = p /\ lock' = Free
    BY <1>11 DEF Save, Return
  <2>2. lock' # p /\ pc'[p] \in {"idle", "sync"}
    BY <2>1
  <2>3. \A q \in Procs \ {p} : pc'[q] = pc[q] /\ lock' # q /\ lock # q
    BY <2>1
  <2> QED BY <2>2, <2>3
<1>12. ASSUME NEW p \in Procs, SyncLoad(p) \/ SyncSave(p)
       PROVE  LockInv'
  BY <1>12 DEF SyncLoad, SyncSave, Return, shared
<1> HIDE DEF LockInv, Holding, AtUser, TypeInv, TypeOK, Goto
<1>13. ASSUME NEW p \in Procs, Work(p)
       PROVE  LockInv'
  BY <1>5, <1>6, <1>7, <1>8, <1>9, <1>10, <1>11, <1>12, <1>13
     DEF Work, AccountMissing
<1>14. ASSUME NEW p \in Procs, Fault(p)
       PROVE  LockInv'
  BY <1>10, <1>14 DEF Fault, ReinitFails, Crash
<1> QED BY <1>1, <1>2, <1>3, <1>4, <1>13, <1>14 DEF Next

-----------------------------------------------------------------------------
(* The audit invariant.  Most actions leave the accounts alone.              *)

LeavesAccounts(p) ==
    /\ pc[p] \notin Reiniting /\ pc'[p] \notin Reiniting
    /\ \A q \in Procs \ {p} : pc'[q] = pc[q] /\ cur'[q] = cur[q]
    /\ UNCHANGED <<disabled, applied, audit>>
    /\ lost => lost'

LEMMA AuditLeft ==
  ASSUME EditInv, AuditInv, NEW p \in Procs, LeavesAccounts(p)
  PROVE  EditInv' /\ AuditInv'
<1>1. \A u \in Users : Edited(u)' <=> Edited(u)
  BY DEF LeavesAccounts, Edited
<1>2. AuditInv'
  BY <1>1 DEF LeavesAccounts, AuditInv
<1>3. EditInv'
  BY DEF LeavesAccounts, EditInv, Reiniting
<1> QED BY <1>2, <1>3

LEMMA LeaveAccounts ==
  ASSUME TypeInv, NEW p \in Procs,
         \/ Start(p)
         \/ LockCycle(p) \/ LockDisable(p) \/ LockEnable(p) \/ LockReset(p)
         \/ ReenableNext(p) \/ ReenableEnd(p)
         \/ Observe(p) \/ DecideStop(p) \/ EvaluateEnd(p)
         \/ AccountMissing(p)
         \/ Save(p) \/ SyncLoad(p) \/ SyncSave(p)
  PROVE  LeavesAccounts(p)
<1> USE DEF LeavesAccounts, Reiniting, TypeInv, TypeOK, Goto, shared, ghosts, limits
<1>1. CASE Start(p)
  BY <1>1 DEF Start, StartCycle, StartCommand, StartSaveInstance
<1>2. CASE LockCycle(p) \/ LockDisable(p) \/ LockEnable(p) \/ LockReset(p)
  BY <1>2 DEF LockCycle, LockDisable, LockEnable, LockReset, Acquire
<1>3. CASE ReenableNext(p)
  BY <1>3 DEF ReenableNext
<1>4. CASE ReenableEnd(p) \/ EvaluateEnd(p)
  BY <1>4 DEF ReenableEnd, EvaluateEnd
<1>5. CASE Observe(p)
  BY <1>5 DEF Observe
<1>6. CASE DecideStop(p)
  BY <1>6 DEF DecideStop
<1>7. CASE AccountMissing(p)
  BY <1>7 DEF AccountMissing, Abort, Return
<1>8. CASE Save(p)
  BY <1>8 DEF Save, Return
<1>9. CASE SyncLoad(p) \/ SyncSave(p)
  BY <1>9 DEF SyncLoad, SyncSave, Return
<1> QED BY <1>1, <1>2, <1>3, <1>4, <1>5, <1>6, <1>7, <1>8, <1>9

(* Only the holder of the lock is in the middle of a change.                 *)
LEMMA OneEditor ==
  ASSUME LockInv, NEW p \in Procs, NEW q \in Procs,
         lock = p, pc[q] \in Reiniting
  PROVE  q = p
  BY DEF LockInv, Holding, AtUser, Reiniting

LEMMA AuditEdit ==
  ASSUME AccountInv, NEW p \in Procs, StopEdit(p) \/ ReinstateEdit(p)
  PROVE  EditInv' /\ AuditInv'
<1> USE DEF AccountInv, TypeInv, TypeOK
<1> DEFINE c == cur[p]
<1>1. lock = p /\ pc[p] \notin Reiniting /\ c \in Users
  BY DEF StopEdit, ReinstateEdit, EditAccount, LockInv, Holding, AtUser, Reiniting, CurOK
<1>2. /\ \/ pc' = [pc EXCEPT ![p] = "stopReinit"]
            /\ disabled' = [disabled EXCEPT ![c] = TRUE]
         \/ pc' = [pc EXCEPT ![p] = "reinstateReinit"]
            /\ disabled' = [disabled EXCEPT ![c] = FALSE]
      /\ UNCHANGED <<applied, audit, cur, lost>>
  BY DEF StopEdit, ReinstateEdit, EditAccount, Goto, ghosts
<1>3. \A q \in Procs : pc[q] \notin Reiniting
  BY <1>1, OneEditor
<1>4. EditInv'
  BY <1>1, <1>2, <1>3 DEF EditInv, Reiniting
<1>5. Edited(c)'
  BY <1>1, <1>2 DEF Edited, Reiniting
<1>6. AuditInv'
  BY <1>1, <1>2, <1>3, <1>5 DEF AuditInv, Edited
<1> QED BY <1>4, <1>6

LEMMA AuditReinit ==
  ASSUME AccountInv, NEW p \in Procs, StopReinit(p) \/ ReinstateReinit(p)
  PROVE  EditInv' /\ AuditInv'
<1> USE DEF AccountInv, TypeInv, TypeOK
<1> DEFINE c == cur[p]
<1>1. lock = p /\ pc[p] \in Reiniting /\ c \in Users
  BY DEF StopReinit, ReinstateReinit, LockInv, Holding, AtUser, Reiniting, CurOK
<1>2. /\ applied' = disabled
      /\ UNCHANGED <<disabled, cur, lost>>
      /\ pc'[p] \notin Reiniting
      /\ \A q \in Procs \ {p} : pc'[q] = pc[q]
  BY DEF StopReinit, ReinstateReinit, Reinit, Goto, Reiniting
<1>3. \/ disabled[c] /\ audit' = [audit EXCEPT ![c] = "stop"]
      \/ ~ disabled[c] /\ audit' = [audit EXCEPT ![c] = "reinstate"]
  BY DEF StopReinit, ReinstateReinit, EditInv
<1>4. \A q \in Procs : pc'[q] \notin Reiniting
  BY <1>1, <1>2, OneEditor
<1>5. EditInv'
  BY <1>4 DEF EditInv, Reiniting
<1>6. \A u \in Users : Edited(u) => u = c
  BY <1>1, OneEditor DEF Edited
<1>7. AuditInv'
  BY <1>1, <1>2, <1>3, <1>6 DEF AuditInv
<1> QED BY <1>5, <1>7

LEMMA AuditFault ==
  ASSUME AccountInv, NEW p \in Procs, Fault(p)
  PROVE  EditInv' /\ AuditInv'
<1> USE DEF AccountInv, TypeInv, TypeOK
<1>1. /\ pc' = [pc EXCEPT ![p] = "idle"]
      /\ cur' = [cur EXCEPT ![p] = NoUser]
      /\ UNCHANGED <<disabled, audit>>
      /\ lost' = (lost \/ Unsaved(p))
      /\ pc[p] \in Reiniting \/ applied' = applied
  BY DEF Fault, ReinitFails, Crash, Abort, Return, Goto, Reiniting
<1>2. EditInv'
  BY <1>1 DEF EditInv
<1>3. CASE pc[p] \in Reiniting
  <2>1. lost'
    BY <1>1, <1>3 DEF Unsaved, LockInv, Holding, AtUser, Reiniting
  <2> QED BY <1>2, <2>1 DEF AuditInv
<1>4. CASE pc[p] \notin Reiniting
  <2>1. LeavesAccounts(p)
    BY <1>1, <1>4 DEF LeavesAccounts, Reiniting
  <2> QED BY <2>1, AuditLeft
<1> QED BY <1>3, <1>4

LEMMA AccountInit == Init => AccountInv
<1> SUFFICES ASSUME Init PROVE AccountInv
  OBVIOUS
<1>1. EditInv /\ AuditInv
  BY DEF Init, EditInv, AuditInv
<1> QED BY <1>1, TypeInit, LockInit DEF AccountInv

LEMMA AccountNext == AccountInv /\ [Next]_vars => AccountInv'
<1> SUFFICES ASSUME AccountInv, [Next]_vars PROVE AccountInv'
  OBVIOUS
<1>1. TypeInv' /\ LockInv'
  BY TypeNext, LockNext DEF AccountInv
<1>2. CASE UNCHANGED vars
  BY <1>1, <1>2 DEF vars, AccountInv, EditInv, AuditInv, Edited
<1>3. CASE OscamRestart
  BY <1>1, <1>3 DEF OscamRestart, locals, ghosts, AccountInv, TypeInv, TypeOK,
              EditInv, AuditInv, Edited
<1>4. CASE Tick
  BY <1>1, <1>4 DEF Tick, ghosts, AccountInv, EditInv, AuditInv, Edited
<1>5. ASSUME NEW p \in Procs, Start(p) \/ Work(p) \/ Fault(p)
      PROVE  EditInv' /\ AuditInv'
  <2>1. CASE Fault(p)
    BY <2>1, AuditFault
  <2>2. CASE StopEdit(p) \/ ReinstateEdit(p)
    BY <2>2, AuditEdit
  <2>3. CASE StopReinit(p) \/ ReinstateReinit(p)
    BY <2>3, AuditReinit
  <2>4. CASE LeavesAccounts(p)
    BY <2>4, AuditLeft DEF AccountInv
  <2> QED BY <1>5, <2>1, <2>2, <2>3, <2>4, LeaveAccounts DEF Work, AccountInv
<1>6. EditInv' /\ AuditInv'
  BY <1>2, <1>3, <1>4, <1>5 DEF Next, AccountInv
<1> QED BY <1>1, <1>6 DEF AccountInv

LEMMA AccountInvImplies == AccountInv => AccountAudited
<1> SUFFICES ASSUME AccountInv, lock = Free, ~ lost,
                    NEW u \in Users
             PROVE  applied[u] = disabled[u] /\ (audit[u] = "stop" <=> disabled[u])
  BY DEF AccountAudited
<1>1. \A p \in Procs : pc[p] \notin Reiniting
  BY FreeAssumption DEF AccountInv, LockInv, Holding, AtUser, Reiniting
<1> QED BY <1>1 DEF AccountInv, AuditInv, Edited

(* For any number of users, sessions and failures, and for every set of      *)
(* jobs: whenever the lock is free and nothing was lost, oscam.user, OSCam   *)
(* and the audit log agree on every account.                                 *)
THEOREM AuditIsTrue == Spec => []AccountAudited
  BY AccountInit, AccountNext, AccountInvImplies, PTL DEF Spec

-----------------------------------------------------------------------------
(* The records invariant, until a sync writes a stale copy.                  *)

Locking == AccountInv /\ RecordInv /\ TodoInv

LEMMA AgedStopped ==
  ASSUME NEW state \in [Users -> UserState], NEW u \in Users
  PROVE  Stopped(Aged(state), u) <=> Stopped(state, u)
  BY DEF Stopped, Aged, UserState

(* What an update of one record in one process's memory changes.             *)
LEMMA MemUpdate ==
  ASSUME NEW m \in [Procs -> [Users -> UserState]],
         NEW p \in Procs, NEW u \in Users, NEW new
  PROVE  \A q \in Procs, v \in Users :
            [m EXCEPT ![p][u] = new][q][v] = IF q = p /\ v = u THEN new ELSE m[q][v]
<1> DEFINE m1 == [m EXCEPT ![p] = [m[p] EXCEPT ![u] = new]]
<1>1. m1[p] = [m[p] EXCEPT ![u] = new] /\ \A q \in Procs \ {p} : m1[q] = m[q]
  OBVIOUS
<1>2. \A v \in Users : m1[p][v] = IF v = u THEN new ELSE m[p][v]
  BY <1>1
<1> QED BY <1>1, <1>2

LEMMA FreshNotStopped == Fresh.status # "stopped"
  BY DEF Fresh

LEMMA NextStateNotStopped ==
  ASSUME NEW reading, NEW record, record.status # "stopped"
  PROVE  NextState(reading, record).status # "stopped"
  BY DEF NextState, Recorded, Verdict

(* An action of p that leaves the accounts, the lock and state.json alone,   *)
(* and stops or lifts nobody in memory.                                      *)
LeavesRecords(p) ==
    /\ LeavesAccounts(p)
    /\ UNCHANGED <<store, lock, lost, stale>>
    /\ \A q \in Procs, u \in Users : Stopped(mem'[q], u) <=> Stopped(mem[q], u)

LEMMA RecordLeft ==
  ASSUME RecordInv, NEW p \in Procs, LeavesRecords(p)
  PROVE  RecordInv'
<1>1. \A u \in Users : Edited(u)' <=> Edited(u)
  BY DEF LeavesRecords, LeavesAccounts, Edited
<1>2. \A u \in Users : Stopped(store, u)' <=> Stopped(store, u)
  BY DEF LeavesRecords, Stopped
<1>3. \A q \in Procs, u \in Users : Stopped(mem[q], u)' <=> Stopped(mem[q], u)
  BY DEF LeavesRecords, Stopped
<1> QED BY <1>1, <1>2, <1>3 DEF LeavesRecords, LeavesAccounts, RecordInv

(* An action of p that leaves it outside the loop of a cycle.                *)
LEMMA TodoLeft ==
  ASSUME TodoInv, NEW p \in Procs,
         pc'[p] \notin {"evaluate", "stopEdit", "stopReinit"},
         \A q \in Procs \ {p} :
            /\ pc'[q] = pc[q] /\ cur'[q] = cur[q] /\ job'[q] = job[q]
            /\ mem'[q] = mem[q] /\ todo'[q] = todo[q]
  PROVE  TodoInv'
<1> SUFFICES ASSUME NEW q \in Procs,
                    \/ pc'[q] = "evaluate"
                    \/ pc'[q] \in {"stopEdit", "stopReinit"} /\ job'[q] \in Cycles,
                    NEW u \in todo'[q]
             PROVE  ~ Stopped(mem'[q], u) /\ (pc'[q] # "evaluate" => u # cur'[q])
  BY DEF TodoInv, Stopped
<1>1. q # p
  OBVIOUS
<1>2. /\ pc'[q] = pc[q] /\ cur'[q] = cur[q] /\ job'[q] = job[q]
      /\ mem'[q] = mem[q] /\ todo'[q] = todo[q]
  BY <1>1
<1> QED BY <1>2 DEF TodoInv

LEMMA RecordStart ==
  ASSUME Jobs \subseteq CarefulJobs, Locking, NEW p \in Procs, Start(p)
  PROVE  RecordInv' /\ TodoInv'
<1> USE DEF Locking, AccountInv, TypeInv, TypeOK
<1>1. /\ LeavesAccounts(p)
      /\ pc' = [pc EXCEPT ![p] = "lock"] \/ pc' = [pc EXCEPT ![p] = "sync"]
      /\ \A q \in Procs \ {p} : job'[q] = job[q]
      /\ UNCHANGED <<store, lock, lost, stale, mem, todo>>
  BY LeaveAccounts DEF Start, StartCycle, StartCommand, StartSaveInstance,
                       Goto, shared, ghosts
<1>2. LeavesRecords(p)
  BY <1>1 DEF LeavesRecords, Stopped
<1>3. TodoInv'
  <2>1. pc'[p] \notin {"evaluate", "stopEdit", "stopReinit"}
    BY <1>1
  <2>2. \A q \in Procs \ {p} :
           /\ pc'[q] = pc[q] /\ cur'[q] = cur[q] /\ job'[q] = job[q]
           /\ mem'[q] = mem[q] /\ todo'[q] = todo[q]
    BY <1>1 DEF LeavesAccounts
  <2> QED BY <2>1, <2>2, TodoLeft
<1> QED BY <1>2, <1>3, RecordLeft

LEMMA RecordLock ==
  ASSUME Jobs \subseteq CarefulJobs, Locking, NEW p \in Procs,
         LockCycle(p) \/ LockDisable(p) \/ LockEnable(p) \/ LockReset(p)
  PROVE  RecordInv' /\ TodoInv'
<1> USE DEF Locking, AccountInv, TypeInv, TypeOK
<1>1. /\ LeavesAccounts(p)
      /\ lock = Free /\ lock' = p
      /\ mem' = [mem EXCEPT ![p] = store]
      /\ \E label \in {"reenable", "stopEdit", "reinstateEdit"} :
            /\ pc' = [pc EXCEPT ![p] = label]
            /\ label = "stopEdit" => job[p] = "disable"
      /\ \A q \in Procs \ {p} : todo'[q] = todo[q]
      /\ UNCHANGED <<store, lost, stale, job>>
  BY LeaveAccounts DEF LockCycle, LockDisable, LockEnable, LockReset, Acquire,
                       CarefulJobs, Goto
<1>2. \A u \in Users : Edited(u)' <=> Edited(u)
  BY <1>1 DEF LeavesAccounts, Edited
<1>3. \A u \in Users : Stopped(mem[p], u)' <=> Stopped(store, u)
  BY <1>1 DEF Stopped
<1>4. RecordInv'
  BY <1>1, <1>2, <1>3, FreeAssumption DEF RecordInv, LeavesAccounts
<1>5. TodoInv'
  BY <1>1 DEF TodoInv, Stopped, LeavesAccounts, Cycles
<1> QED BY <1>4, <1>5

LEMMA RecordLoops ==
  ASSUME Locking, NEW p \in Procs,
         ReenableNext(p) \/ ReenableEnd(p) \/ EvaluateEnd(p)
  PROVE  RecordInv' /\ TodoInv'
<1> USE DEF Locking, AccountInv, TypeInv, TypeOK
<1>1. LeavesRecords(p)
  BY LeaveAccounts DEF LeavesRecords, ReenableNext, ReenableEnd, EvaluateEnd,
                       shared, ghosts, Goto, Stopped
<1>2. /\ \/ pc' = [pc EXCEPT ![p] = "reinstateEdit"]
         \/ pc' = [pc EXCEPT ![p] = "save"]
         \/ /\ pc' = [pc EXCEPT ![p] = "evaluate"]
            /\ todo' = [todo EXCEPT ![p] = {u \in Users : ~ Stopped(mem[p], u)}]
      /\ \A q \in Procs \ {p} : todo'[q] = todo[q] /\ cur'[q] = cur[q]
      /\ UNCHANGED <<mem, job>>
  BY DEF ReenableNext, ReenableEnd, EvaluateEnd, Goto
<1>3. TodoInv'
  <2> SUFFICES ASSUME NEW q \in Procs,
                      \/ pc'[q] = "evaluate"
                      \/ pc'[q] \in {"stopEdit", "stopReinit"} /\ job'[q] \in Cycles,
                      NEW v \in todo'[q]
               PROVE  ~ Stopped(mem'[q], v) /\ (pc'[q] # "evaluate" => v # cur'[q])
    BY DEF TodoInv, Stopped
  <2>1. CASE q = p
    BY <1>2, <2>1
  <2>2. CASE q # p
    <3>1. pc'[q] = pc[q] /\ cur'[q] = cur[q] /\ job'[q] = job[q]
          /\ todo'[q] = todo[q] /\ mem' = mem
      BY <1>2, <2>2
    <3> QED BY <3>1 DEF TodoInv
  <2> QED BY <2>1, <2>2
<1> QED BY <1>1, <1>3, RecordLeft

(* One evaluation in memory: the user was not stopped and still is not.      *)
LEMMA RecordEvaluate ==
  ASSUME Locking, NEW p \in Procs, Observe(p) \/ DecideStop(p)
  PROVE  RecordInv' /\ TodoInv'
<1> USE DEF Locking, AccountInv, TypeInv, TypeOK
<1>1. PICK u \in todo[p] :
        /\ mem' = [mem EXCEPT ![p][u] = NextState(NextReading(p, u), mem[p][u])]
        /\ \/ /\ UNCHANGED <<pc, cur>>
              /\ todo' = todo \/ todo' = [todo EXCEPT ![p] = @ \ {u}]
           \/ /\ pc' = [pc EXCEPT ![p] = "stopEdit"]
              /\ cur' = [cur EXCEPT ![p] = u]
              /\ todo' = [todo EXCEPT ![p] = @ \ {u}]
        /\ UNCHANGED <<store, lock, lost, stale, job>>
        /\ pc[p] = "evaluate"
  BY DEF Observe, DecideStop, Goto, shared
<1>2. u \in Users /\ ~ Stopped(mem[p], u)
  BY <1>1 DEF TodoInv
<1>3. \A q \in Procs, v \in Users :
         mem'[q][v] = IF q = p /\ v = u THEN NextState(NextReading(p, u), mem[p][u])
                      ELSE mem[q][v]
  <2> DEFINE new == NextState(NextReading(p, u), mem[p][u])
  <2>1. mem' = [mem EXCEPT ![p][u] = new]
    BY <1>1
  <2> HIDE DEF new
  <2>2. mem \in [Procs -> [Users -> UserState]] /\ u \in Users
    BY <1>2
  <2>3. \A q \in Procs, v \in Users :
           mem'[q][v] = IF q = p /\ v = u THEN new ELSE mem[q][v]
    BY <2>1, <2>2, MemUpdate
  <2> QED BY <2>3 DEF new
<1>4. \A q \in Procs, v \in Users : Stopped(mem'[q], v) <=> Stopped(mem[q], v)
  <2>1. NextState(NextReading(p, u), mem[p][u]).status # "stopped"
    BY <1>2, NextStateNotStopped DEF Stopped
  <2> QED BY <1>2, <1>3, <2>1 DEF Stopped
<1>5. LeavesRecords(p)
  BY <1>1, <1>4, LeaveAccounts DEF LeavesRecords
<1>6. TodoInv'
  <2> SUFFICES ASSUME NEW q \in Procs,
                      \/ pc'[q] = "evaluate"
                      \/ pc'[q] \in {"stopEdit", "stopReinit"} /\ job'[q] \in Cycles,
                      NEW v \in todo'[q]
               PROVE  ~ Stopped(mem'[q], v) /\ (pc'[q] # "evaluate" => v # cur'[q])
    BY DEF TodoInv, Stopped
  <2>1. v \in todo[q] /\ v \in Users
    <3>1. todo \in [Procs -> SUBSET Users]
      OBVIOUS
    <3>2. todo' = todo \/ todo' = [todo EXCEPT ![p] = @ \ {u}]
      BY <1>1
    <3> HIDE DEF Locking, AccountInv, TypeInv, TypeOK
    <3>3. CASE todo' = todo
      BY <3>1, <3>3
    <3>4. CASE todo' = [todo EXCEPT ![p] = @ \ {u}]
      <4>1. todo'[q] \subseteq todo[q]
        BY <3>1, <3>4
      <4> QED BY <3>1, <4>1
    <3> QED BY <3>2, <3>3, <3>4
  <2> HIDE DEF Locking, AccountInv, TypeInv, TypeOK
  <2>2. CASE q = p
    <3>1. ~ Stopped(mem[p], v)
      <4>1. \A w \in todo[p] : ~ Stopped(mem[p], w)
        BY <1>1 DEF TodoInv, Locking
      <4> QED BY <2>1, <2>2, <4>1
    <3>2. pc'[p] # "evaluate" => v # cur'[p]
      <4>1. CASE pc' = pc
        BY <1>1, <4>1
      <4>2. CASE cur' = [cur EXCEPT ![p] = u] /\ todo' = [todo EXCEPT ![p] = @ \ {u}]
        <5>1. v # u /\ cur'[p] = u
          BY <2>2, <4>2 DEF Locking, AccountInv, TypeInv, TypeOK
        <5> QED BY <5>1
      <4> QED BY <1>1, <4>1, <4>2
    <3>3. ~ Stopped(mem'[p], v)
      BY <1>4, <2>1, <3>1
    <3> QED BY <2>2, <3>2, <3>3
  <2>3. CASE q # p
    <3>1. pc'[q] = pc[q] /\ cur'[q] = cur[q] /\ job'[q] = job[q] /\ todo'[q] = todo[q]
      BY <1>1, <2>3 DEF Locking, AccountInv, TypeInv, TypeOK
    <3> QED BY <1>4, <2>1, <3>1 DEF TodoInv, Locking
  <2> QED BY <2>2, <2>3
<1> QED BY <1>5, <1>6, RecordLeft DEF Locking

LEMMA RecordEdit ==
  ASSUME Locking, NEW p \in Procs, StopEdit(p) \/ ReinstateEdit(p)
  PROVE  RecordInv' /\ TodoInv'
<1> USE DEF Locking, AccountInv, TypeInv, TypeOK
<1> DEFINE c == cur[p]
<1>1. lock = p /\ c \in Users /\ \A q \in Procs : pc[q] \notin Reiniting
  BY OneEditor DEF StopEdit, ReinstateEdit, EditAccount, LockInv, Holding, AtUser, Reiniting, CurOK
<1>2. /\ \/ pc[p] = "stopEdit" /\ pc' = [pc EXCEPT ![p] = "stopReinit"]
         \/ pc' = [pc EXCEPT ![p] = "reinstateReinit"]
      /\ \A u \in Users \ {c} : disabled'[u] = disabled[u]
      /\ UNCHANGED <<store, lock, lost, stale, mem, cur, todo, job>>
  BY DEF StopEdit, ReinstateEdit, EditAccount, Goto, ghosts
<1>3. \A u \in Users : ~ Edited(u)
  BY <1>1 DEF Edited
<1>4. RecordInv'
  <2>2. lock' # Free
    BY <1>1, <1>2, FreeAssumption
  <2>3. ASSUME ~ lost', ~ stale', NEW q \in Procs, lock' = q, NEW u \in Users
        PROVE  Edited(u)' \/ (Stopped(mem'[q], u) <=> disabled'[u])
    <3>1. CASE u = c
      <4>1. pc'[p] \in Reiniting /\ cur'[p] = u
        BY <1>1, <1>2, <3>1 DEF Reiniting
      <4> QED BY <4>1 DEF Edited
    <3>2. CASE u # c
      <4>1. Stopped(mem[q], u) <=> disabled[u]
        BY <1>2, <1>3, <2>3 DEF RecordInv
      <4> QED BY <1>2, <3>2, <4>1
    <3> QED BY <3>1, <3>2
  <2> QED BY <2>2, <2>3 DEF RecordInv, Stopped
<1>5. TodoInv'
  BY <1>2 DEF TodoInv, Stopped
<1> QED BY <1>4, <1>5

LEMMA RecordReinit ==
  ASSUME Locking, NEW p \in Procs, StopReinit(p) \/ ReinstateReinit(p)
  PROVE  RecordInv' /\ TodoInv'
<1> USE DEF Locking, AccountInv, TypeInv, TypeOK
<1> DEFINE c == cur[p]
<1>1. lock = p /\ pc[p] \in Reiniting /\ c \in Users
  BY DEF StopReinit, ReinstateReinit, LockInv, Holding, AtUser, Reiniting, CurOK
<1>2. PICK new :
        /\ mem' = [mem EXCEPT ![p][c] = new]
        /\ new.status = "stopped" <=> disabled[c]
        /\ \E label \in {"evaluate", "reenable", "save"} :
             /\ pc' = [pc EXCEPT ![p] = label]
             /\ label = "evaluate" => job[p] \in Cycles /\ pc[p] = "stopReinit"
        /\ UNCHANGED <<store, lock, lost, stale, disabled, cur, todo, job>>
  <2>1. CASE StopReinit(p)
    <3> DEFINE new == [mem[p][c] EXCEPT !.status = "stopped", !.until = pending[p]]
    <3>1. new.status = "stopped"
      BY <1>1 DEF UserState
    <3>2. disabled[c]
      BY <2>1 DEF StopReinit, EditInv
    <3>3. mem' = [mem EXCEPT ![p][c] = new]
      BY <2>1 DEF StopReinit
    <3>4. /\ \E label \in {"evaluate", "reenable", "save"} :
               /\ pc' = [pc EXCEPT ![p] = label]
               /\ label = "evaluate" => job[p] \in Cycles /\ pc[p] = "stopReinit"
          /\ UNCHANGED <<store, lock, lost, stale, disabled, cur, todo, job>>
      BY <2>1 DEF StopReinit, Goto
    <3> HIDE DEF new
    <3> QED BY <3>1, <3>2, <3>3, <3>4
  <2>2. CASE ReinstateReinit(p)
    BY <2>2, FreshNotStopped DEF ReinstateReinit, Goto, EditInv
  <2> QED BY <2>1, <2>2
<1>3. \A q \in Procs, v \in Users :
         mem'[q][v] = IF q = p /\ v = c THEN new ELSE mem[q][v]
  BY <1>1, <1>2, MemUpdate
<1>4. \A u \in Users : Edited(u) => u = c
  BY <1>1, OneEditor DEF Edited
<1>5. RecordInv'
  <2>2. lock' = p /\ lock' # Free
    BY <1>1, <1>2, FreeAssumption
  <2>3. ASSUME ~ lost', ~ stale', NEW u \in Users
        PROVE  Stopped(mem'[p], u) <=> disabled'[u]
    <3>1. CASE u = c
      BY <1>2, <1>3, <3>1 DEF Stopped
    <3>2. CASE u # c
      BY <1>1, <1>2, <1>3, <1>4, <2>3, <3>2 DEF RecordInv, Stopped
    <3> QED BY <3>1, <3>2
  <2> QED BY <2>2, <2>3 DEF RecordInv, Stopped
<1>6. TodoInv'
  <2> SUFFICES ASSUME NEW q \in Procs,
                      \/ pc'[q] = "evaluate"
                      \/ pc'[q] \in {"stopEdit", "stopReinit"} /\ job'[q] \in Cycles,
                      NEW v \in todo'[q]
               PROVE  ~ Stopped(mem'[q], v) /\ (pc'[q] # "evaluate" => v # cur'[q])
    BY DEF TodoInv, Stopped
  <2>1. v \in todo[q] /\ v \in Users
    BY <1>2
  <2>2. CASE q = p
    <3>1. pc[p] = "stopReinit" /\ job[p] \in Cycles /\ pc'[p] = "evaluate"
      BY <1>2, <2>2
    <3>2. v # c /\ ~ Stopped(mem[p], v)
      BY <2>1, <2>2, <3>1 DEF TodoInv
    <3> QED BY <1>3, <2>1, <2>2, <3>1, <3>2 DEF Stopped
  <2>3. CASE q # p
    <3>1. pc'[q] = pc[q] /\ cur'[q] = cur[q] /\ job'[q] = job[q] /\ mem'[q][v] = mem[q][v]
      BY <1>2, <1>3, <2>1, <2>3
    <3> QED BY <2>1, <3>1 DEF TodoInv, Stopped
  <2> QED BY <2>2, <2>3
<1> QED BY <1>5, <1>6

(* A job that ends without its save has either lost a change of an account   *)
(* or made none.                                                             *)
LEMMA RecordAbort ==
  ASSUME Locking, NEW p \in Procs, Abort(p), UNCHANGED <<store, disabled, stale>>
  PROVE  RecordInv' /\ TodoInv'
<1> USE DEF Locking, AccountInv, TypeInv, TypeOK
<1>1. /\ pc' = [pc EXCEPT ![p] = "idle"]
      /\ mem' = [mem EXCEPT ![p] = NoState]
      /\ \A q \in Procs \ {p} : cur'[q] = cur[q] /\ job'[q] = job[q] /\ todo'[q] = todo[q]
      /\ lock' = IF lock = p THEN Free ELSE lock
      /\ lost' = (lost \/ Unsaved(p))
  BY DEF Abort, Return, Goto
<1>2. TodoInv'
  <2> SUFFICES ASSUME NEW q \in Procs,
                      \/ pc'[q] = "evaluate"
                      \/ pc'[q] \in {"stopEdit", "stopReinit"} /\ job'[q] \in Cycles,
                      NEW v \in todo'[q]
               PROVE  ~ Stopped(mem'[q], v) /\ (pc'[q] # "evaluate" => v # cur'[q])
    BY DEF TodoInv, Stopped
  <2>1. q # p
    BY <1>1
  <2> QED BY <1>1, <2>1 DEF TodoInv
<1>4. ASSUME ~ lost', ~ stale', lock' = Free, NEW u \in Users
      PROVE  Stopped(store', u) <=> disabled'[u]
  <2>1. CASE lock = p
    <3>1. pc[p] \notin Reiniting /\ (Stopped(mem[p], u) <=> Stopped(store, u))
      BY <1>1, <1>4, <2>1 DEF Unsaved, Reiniting
    <3>2. ~ Edited(u)
      BY <2>1, <3>1, OneEditor DEF Edited
    <3> QED BY <1>1, <1>4, <2>1, <3>1, <3>2 DEF RecordInv, Stopped
  <2>2. CASE lock # p
    BY <1>1, <1>4, <2>2 DEF RecordInv, Stopped
  <2> QED BY <2>1, <2>2
<1>5. ASSUME ~ lost', ~ stale', NEW q \in Procs, lock' = q, NEW u \in Users
      PROVE  Edited(u)' \/ (Stopped(mem'[q], u) <=> disabled'[u])
  <2>1. lock = q /\ q # p
    BY <1>1, <1>5, FreeAssumption
  <2>2. Edited(u) => Edited(u)'
    <3>1. pc[p] \notin Reiniting
      BY <2>1, OneEditor
    <3> QED BY <1>1, <3>1 DEF Edited
  <2> QED BY <1>1, <1>5, <2>1, <2>2 DEF RecordInv, Stopped
<1>6. RecordInv'
  BY <1>4, <1>5 DEF RecordInv, Stopped
<1> QED BY <1>2, <1>6

LEMMA RecordSave ==
  ASSUME Jobs \subseteq CarefulJobs, Locking, NEW p \in Procs, Save(p)
  PROVE  RecordInv' /\ TodoInv'
<1> USE DEF Locking, AccountInv, TypeInv, TypeOK
<1>2. /\ pc[p] = "save" /\ lock = p /\ lock' = Free
      /\ pc' = [pc EXCEPT ![p] = "idle"] \/ pc' = [pc EXCEPT ![p] = "sync"]
      /\ mem' = [mem EXCEPT ![p] = NoState]
      /\ \A q \in Procs \ {p} : cur'[q] = cur[q] /\ job'[q] = job[q] /\ todo'[q] = todo[q]
      /\ store' = mem[p]
      /\ UNCHANGED <<disabled, lost, stale>>
  BY DEF Save, Return, Goto, LockInv, Holding
<1>3. \A u \in Users : ~ Edited(u)
  BY <1>2, OneEditor DEF Edited, Reiniting
<1>4. RecordInv'
  <2>2. ASSUME ~ lost', ~ stale', NEW u \in Users
        PROVE  Stopped(store', u) <=> disabled'[u]
    BY <1>2, <1>3, <2>2 DEF RecordInv
  <2> QED BY <1>2, <2>2, FreeAssumption DEF RecordInv, Stopped
<1>5. TodoInv'
  <2> SUFFICES ASSUME NEW q \in Procs,
                      \/ pc'[q] = "evaluate"
                      \/ pc'[q] \in {"stopEdit", "stopReinit"} /\ job'[q] \in Cycles,
                      NEW v \in todo'[q]
               PROVE  ~ Stopped(mem'[q], v) /\ (pc'[q] # "evaluate" => v # cur'[q])
    BY DEF TodoInv, Stopped
  <2>1. q # p
    BY <1>2
  <2> QED BY <1>2, <2>1 DEF TodoInv
<1> QED BY <1>4, <1>5

(* A sync changes no record in memory that is going to be saved under the    *)
(* lock, and if its own copy is not stale, none in state.json.               *)
LEMMA RecordSync ==
  ASSUME Locking, NEW p \in Procs, SyncLoad(p) \/ SyncSave(p)
  PROVE  RecordInv' /\ TodoInv'
<1> USE DEF Locking, AccountInv, TypeInv, TypeOK
<1>1. LeavesAccounts(p)
  BY LeaveAccounts
<1>2. /\ pc[p] \in {"sync", "syncSave"} /\ pc'[p] \in {"idle", "syncSave"}
      /\ \A q \in Procs \ {p} : mem'[q] = mem[q] /\ job'[q] = job[q] /\ todo'[q] = todo[q]
      /\ store' = store \/ stale'
      /\ stale => stale'
      /\ UNCHANGED <<lock, disabled, lost>>
  BY DEF SyncLoad, SyncSave, Return, Goto, shared, ghosts
<1>3. lock # p
  BY <1>2 DEF LockInv, Holding, AtUser
<1>4. \A u \in Users : Edited(u)' <=> Edited(u)
  BY <1>1 DEF LeavesAccounts, Edited
<1>5. RecordInv'
  BY <1>2, <1>3, <1>4 DEF RecordInv, Stopped
<1>6. TodoInv'
  <2>1. pc'[p] \notin {"evaluate", "stopEdit", "stopReinit"}
    BY <1>2
  <2>2. \A q \in Procs \ {p} :
           /\ pc'[q] = pc[q] /\ cur'[q] = cur[q] /\ job'[q] = job[q]
           /\ mem'[q] = mem[q] /\ todo'[q] = todo[q]
    BY <1>1, <1>2 DEF LeavesAccounts
  <2> QED BY <2>1, <2>2, TodoLeft
<1> QED BY <1>5, <1>6

LEMMA RecordTick ==
  ASSUME Locking, Tick
  PROVE  RecordInv' /\ TodoInv'
<1> USE DEF Locking, AccountInv, TypeInv, TypeOK
<1>1. /\ store' = Aged(store)
      /\ \A q \in Procs : mem'[q] = Aged(mem[q])
      /\ UNCHANGED <<lock, disabled, pc, job, cur, todo, lost, stale>>
  BY DEF Tick, ghosts
<1>2. \A u \in Users : Stopped(store, u)' <=> Stopped(store, u)
  BY <1>1, AgedStopped DEF Stopped
<1>3. \A q \in Procs, u \in Users : Stopped(mem[q], u)' <=> Stopped(mem[q], u)
  <2>1. ASSUME NEW q \in Procs, NEW u \in Users
        PROVE  Stopped(mem'[q], u) <=> Stopped(mem[q], u)
    <3>1. mem[q] \in [Users -> UserState] /\ mem'[q] = Aged(mem[q])
      BY <1>1
    <3>2. Stopped(Aged(mem[q]), u) <=> Stopped(mem[q], u)
      BY <3>1, AgedStopped
    <3> QED BY <3>1, <3>2
  <2> QED BY <2>1 DEF Stopped
<1>4. \A u \in Users : Edited(u)' <=> Edited(u)
  BY <1>1 DEF Edited
<1>5. RecordInv'
  BY <1>1, <1>2, <1>3, <1>4 DEF RecordInv
<1>6. TodoInv'
  BY <1>1, <1>3 DEF TodoInv
<1> QED BY <1>5, <1>6

LEMMA LockingInit == Init => Locking
<1> SUFFICES ASSUME Init PROVE Locking
  OBVIOUS
<1>1. AccountInv
  BY AccountInit
<1>2. RecordInv
  BY FreshNotStopped, FreeAssumption DEF Init, RecordInv, Stopped, NoState
<1>3. TodoInv
  BY DEF Init, TodoInv
<1> QED BY <1>1, <1>2, <1>3 DEF Locking

LEMMA LockingNext ==
  ASSUME Jobs \subseteq CarefulJobs, Locking, [Next]_vars
  PROVE  Locking'
<1>1. AccountInv'
  BY AccountNext DEF Locking
<1>2. CASE UNCHANGED vars
  BY <1>1, <1>2 DEF vars, Locking, RecordInv, TodoInv, Edited, Stopped
<1>3. CASE OscamRestart
  BY <1>1, <1>3 DEF OscamRestart, locals, ghosts, Locking, RecordInv, TodoInv, Edited, Stopped
<1>4. CASE Tick
  BY <1>1, <1>4, RecordTick DEF Locking
<1>5. ASSUME NEW p \in Procs, Start(p) \/ Work(p) \/ Fault(p)
      PROVE  RecordInv' /\ TodoInv'
  <2>1. CASE Start(p)
    BY <2>1, RecordStart
  <2>2. CASE Fault(p) \/ AccountMissing(p)
    BY <2>2, RecordAbort DEF Fault, ReinitFails, Crash, AccountMissing
  <2> QED BY <1>5, <2>1, <2>2, RecordLock, RecordLoops, RecordEvaluate,
             RecordEdit, RecordReinit, RecordSave, RecordSync DEF Work
<1> QED BY <1>1, <1>2, <1>3, <1>4, <1>5 DEF Next, Locking

LEMMA LockingImplies == Locking => RecordMatchesUnlessStale
  BY DEF Locking, RecordInv, RecordMatchesUnlessStale, RecordMatchesAccount

(* Without Reset flag, whatever the number and the order of the jobs, the    *)
(* syncs of the web UI among them, and whatever fails: when the lock is free *)
(* and nothing was lost, a user is stopped in state.json exactly when its    *)
(* account is disabled, until a sync writes back a copy that was stale.      *)
THEOREM RecordsAreTrue ==
  ASSUME Jobs \subseteq CarefulJobs
  PROVE  Spec => []RecordMatchesUnlessStale
<1>1. Locking /\ [Next]_vars => Locking'
  BY LockingNext
<1> QED BY <1>1, LockingInit, LockingImplies, PTL DEF Spec

=============================================================================
