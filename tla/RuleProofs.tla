----------------------------- MODULE RuleProofs -----------------------------
(* Proof that ReshareControl implements Monitoring, its abstract             *)
(* specification, when every job keeps to the lock: every save changes each  *)
(* record by one step of the rule, whatever failed before.  With the syncs   *)
(* of the web UI the same holds up to the first one that writes back a stale *)
(* copy.  It goes on where StopProofs ends.                                  *)
EXTENDS StopProofs

(* Only a stop has an end.                                                   *)
Lasting(record) == record.status # "stopped" => record.until = NoTime

(* The records from which a cycle may evaluate the readings of u.            *)
Base(u, record) ==
    \/ ~ Stopped(store, u) /\ record = store[u]
    \/ Expired(store, u) /\ record = Fresh

(* The policy wants this record stopped.                                     *)
Due(u, record) == record.status = "flagged" /\ EffectiveAutoStop(Action[u])

(* What k readings of u make of b, if none of them has to stop it ...        *)
Judged(u, b, k, record) ==
    \/ record = b
    \/ \E n \in Rule!Streaks(b.strikes, k) :
           record = Recorded(n, b) /\ ~ Due(u, record)

(* ... and what a response may make of it, in Monitoring.                    *)
Outcome(u, b, record) ==
    \/ Judged(u, b, Entries[u], record)
    \/ \E n \in Rule!Streaks(b.strikes, Entries[u]), t \in Rule!TimesLeft(u) :
           /\ Due(u, Recorded(n, b))
           /\ record = [Recorded(n, b) EXCEPT !.status = "stopped", !.until = t]

(* What the record of u in p's memory is to the one in state.json, while a   *)
(* cycle lifts the expired stops ...                                         *)
LiftPath(p, u) ==
    /\ IF u \in todo[p] \/ (pc[p] # "reenable" /\ u = cur[p])
       THEN Expired(store, u) /\ mem[p][u] = store[u]
       ELSE mem[p][u] = store[u] \/ (Expired(store, u) /\ mem[p][u] = Fresh)
    /\ pc[p] # "reenable" /\ u = cur[p] => u \notin todo[p]

(* ... while it evaluates its readings ...                                   *)
Evaluated(p, u) == Entries[u] - Len(body[p][u])

Deciding(u, record) ==
    \E b \in UserState :
        /\ Base(u, b)
        /\ \E n \in Rule!Streaks(b.strikes, Entries[u]) : record = Recorded(n, b)
        /\ Due(u, record)

Decided(u, record) ==
    \/ record = store[u]
    \/ \E b \in UserState : Base(u, b) /\ Outcome(u, b, record)

JudgePath(p, u) ==
    IF u \in todo[p]
    THEN \E b \in UserState : Base(u, b) /\ Judged(u, b, Evaluated(p, u), mem[p][u])
    ELSE IF pc[p] \in {"stopEdit", "stopReinit"} /\ u = cur[p] THEN Deciding(u, mem[p][u])
    ELSE Decided(u, mem[p][u])

(* A record stopped by hand.                                                 *)
Shut(record) == [record EXCEPT !.status = "stopped", !.until = NoTime]

(* ... and during a command.                                                 *)
CommandPath(p, u) ==
    IF pc[p] = "save" /\ u = cur[p]
    THEN IF job[p] = "disable"
         THEN mem[p][u] = Shut(store[u])
         ELSE mem[p][u] = Fresh
    ELSE mem[p][u] = store[u]

PathOf(p) ==
    lock = p => \A u \in Users :
        /\ Lasting(mem[p][u])
        /\ job[p] \in Cycles /\ pc[p] \in {"reenable", "reinstateEdit", "reinstateReinit"} =>
             LiftPath(p, u)
        /\ job[p] \in Cycles /\ pc[p] \in {"evaluate", "stopEdit", "stopReinit", "save"} =>
             JudgePath(p, u)
        /\ job[p] \in Commands => CommandPath(p, u)

(* The end a stop in progress will record.                                   *)
PendingOf(p) ==
    IF job[p] \in Cycles /\ pc[p] \in {"stopEdit", "stopReinit"}
    THEN pending[p] \in Rule!TimesLeft(cur[p])
    ELSE pending[p] = NoTime

(* Whoever works on the records has a job, and commands come from sessions.  *)
OwnerOf(p) ==
    /\ pc[p] \in Holding => job[p] \in Cycles \cup Commands
    /\ job[p] \in Commands => p \in Sessions

(* No response has more readings of a user than it has entries.              *)
ListOf(p) == \A u \in Users : Len(body[p][u]) <= Entries[u]

OwnPath(p) == PathOf(p) /\ PendingOf(p) /\ OwnerOf(p) /\ ListOf(p)

PathInv ==
    ~ stale => /\ \A u \in Users : Lasting(store[u])
               /\ \A p \in Procs : OwnPath(p)

PathBy(p) == (\A u \in Users : Lasting(store[u])) /\ OwnPath(p)

-----------------------------------------------------------------------------
(* The operators of the rule, seen through the instance, and their results.  *)

LEMMA SameRule ==
  /\ Rule!Fresh = Fresh /\ Rule!UserState = UserState
  /\ \A n, record : Rule!Recorded(n, record) = Recorded(n, record)
  /\ \A action : Rule!EffectiveAutoStop(action) <=> EffectiveAutoStop(action)
<1>1. Rule!Fresh = Fresh /\ Rule!UserState = UserState
  BY DEF Rule!Fresh, Fresh, Rule!UserState, UserState, Rule!Statuses, Statuses,
         Rule!Minutes, Minutes
<1>2. \A n, record : Rule!Recorded(n, record) = Recorded(n, record)
  BY DEF Rule!Recorded, Recorded, Rule!Verdict, Verdict
<1> QED BY <1>1, <1>2 DEF Rule!EffectiveAutoStop, EffectiveAutoStop

(* Streaks only grow longer with more readings.                              *)
LEMMA StreaksAre ==
  ASSUME NEW s \in Nat, NEW k \in Nat, NEW m \in Nat, k <= m,
         NEW n \in Rule!Streaks(s, k)
  PROVE  n \in Nat /\ n \in Rule!Streaks(s, m)
  BY DEF Rule!Streaks

(* One more reading of the streak.                                           *)
LEMMA StreakGrows ==
  ASSUME NEW s \in Nat, NEW k \in Nat
  PROVE  /\ s + 1 \in Rule!Streaks(s, k + 1) /\ 0 \in Rule!Streaks(s, k + 1)
         /\ \A n \in Rule!Streaks(s, k) : n + 1 \in Rule!Streaks(s, k + 1)
  BY DEF Rule!Streaks

LEMMA OutcomeIs ==
  ASSUME NEW u, NEW b, NEW record, Outcome(u, b, record)
  PROVE  record \in Rule!Outcomes(u, b)
<1> DEFINE judged == {Rule!Recorded(n, b) : n \in Rule!Streaks(b.strikes, Entries[u])}
           due == {r \in judged : r.status = "flagged" /\ Rule!EffectiveAutoStop(Action[u])}
           halt(r, t) == [r EXCEPT !.status = "stopped", !.until = t]
           stopped == {halt(r, t) : r \in due, t \in Rule!TimesLeft(u)}
<1>1. Rule!Outcomes(u, b) = {b} \cup (judged \ due) \cup stopped
  BY DEF Rule!Outcomes
<1>2. \A n \in Rule!Streaks(b.strikes, Entries[u]) : Recorded(n, b) \in judged
  BY SameRule
<1>3. \A r \in judged : r \in due <=> Due(u, r)
  BY SameRule DEF Due
<1>4. \A r \in due, t \in Rule!TimesLeft(u) : halt(r, t) \in stopped
  <2> HIDE DEF judged, due, halt
  <2> QED OBVIOUS
<1> HIDE DEF judged, due, stopped
<1>5. CASE Judged(u, b, Entries[u], record)
  BY <1>1, <1>2, <1>3, <1>5 DEF Judged
<1>6. ASSUME NEW n \in Rule!Streaks(b.strikes, Entries[u]), NEW t \in Rule!TimesLeft(u),
             Due(u, Recorded(n, b)),
             record = [Recorded(n, b) EXCEPT !.status = "stopped", !.until = t]
      PROVE  record \in Rule!Outcomes(u, b)
  <2>1. Recorded(n, b) \in due
    BY <1>2, <1>3, <1>6
  <2> QED BY <1>1, <1>4, <1>6, <2>1
<1> QED BY <1>5, <1>6 DEF Outcome

LEMMA BaseLasts ==
  ASSUME TypeInv, NEW u \in Users, Lasting(store[u]), NEW b, Base(u, b)
  PROVE  b \in UserState /\ b.status # "stopped" /\ b.until = NoTime
<1>1. CASE ~ Stopped(store, u) /\ b = store[u]
  BY <1>1 DEF Stopped, Lasting, TypeInv, TypeOK
<1>2. CASE b = Fresh
  BY <1>2, FreshType DEF Fresh
<1> QED BY <1>1, <1>2 DEF Base

LEMMA RecordedLasts ==
  ASSUME NEW b \in UserState, b.until = NoTime, NEW n \in Nat
  PROVE  /\ Recorded(n, b) \in UserState
         /\ Recorded(n, b).status # "stopped"
         /\ Recorded(n, b).until = NoTime
         /\ Recorded(n, b).strikes = n
  BY DEF Recorded, Verdict, UserState, Statuses

(* The readings evaluated so far, of a record that is not stopped.           *)
LEMMA JudgedLasts ==
  ASSUME NEW u, NEW b \in UserState, b.status # "stopped", b.until = NoTime,
         NEW k \in Nat, NEW record, Judged(u, b, k, record)
  PROVE  record \in UserState /\ record.status # "stopped" /\ record.until = NoTime
<1>1. CASE record = b
  BY <1>1
<1>2. ASSUME NEW n \in Rule!Streaks(b.strikes, k), record = Recorded(n, b)
      PROVE  record \in UserState /\ record.status # "stopped" /\ record.until = NoTime
  <2>1. n \in Nat
    BY StreaksAre DEF UserState
  <2> QED BY <1>2, <2>1, RecordedLasts
<1> QED BY <1>1, <1>2 DEF Judged

LEMMA JudgedMore ==
  ASSUME NEW u, NEW b \in UserState, NEW k \in Nat, NEW m \in Nat, k <= m,
         NEW record, Judged(u, b, k, record)
  PROVE  Judged(u, b, m, record)
<1>1. b.strikes \in Nat
  BY DEF UserState
<1> QED BY <1>1, StreaksAre DEF Judged

(* One more reading: the strikes are still a streak of the readings, and the *)
(* account is disabled exactly if the policy wants the new record stopped.   *)
LEMMA OneMore ==
  ASSUME NEW u, NEW b \in UserState, b.until = NoTime, NEW k \in Nat,
         NEW record, Judged(u, b, k, record), NEW reading \in {"over", "under"}
  PROVE  /\ \E n \in Rule!Streaks(b.strikes, k + 1) :
                NextState(reading, record) = Recorded(n, b)
         /\ ShouldStop(reading, record, Action[u]) <=> Due(u, NextState(reading, record))
<1>1. b.strikes \in Nat
  BY DEF UserState
<1>2. record.until = b.until /\ record.strikes \in {b.strikes} \cup Rule!Streaks(b.strikes, k)
  BY <1>1 DEF Judged, Recorded
<1> DEFINE n == NextStrikes(reading, record)
<1>3. n \in Rule!Streaks(b.strikes, k + 1)
  BY <1>1, <1>2, StreakGrows DEF NextStrikes
<1>4. NextState(reading, record) = Recorded(n, b)
  BY <1>2 DEF NextState, Recorded
<1>5. ShouldStop(reading, record, Action[u]) <=> Due(u, NextState(reading, record))
  BY DEF ShouldStop, Due, NextState, Recorded, Verdict
<1> HIDE DEF n
<1> QED BY <1>3, <1>4, <1>5

LEMMA TimesLeftType ==
  ASSUME NEW u \in Users, NEW t \in Rule!TimesLeft(u)
  PROVE  t \in Minutes /\ Later(t) \in Rule!TimesLeft(u)
<1>1. StopDuration[u] \in Nat
  BY PolicyAssumption
<1> QED BY <1>1, NoTimeAssumption DEF Rule!TimesLeft, Minutes, Later

(* A minute leaves an outcome an outcome, and a base the base it was.        *)
AgeOf(record) == [record EXCEPT !.until = Later(@)]

LEMMA AgedIs ==
  ASSUME NEW state \in [Users -> UserState], NEW u \in Users
  PROVE  Aged(state)[u] = AgeOf(state[u])
  BY DEF Aged, AgeOf

LEMMA AgeStill ==
  ASSUME NEW record \in UserState, record.until \in {NoTime, 0}
  PROVE  AgeOf(record) = record
<1>1. Later(record.until) = record.until
  BY DEF Later
<1> QED BY <1>1 DEF AgeOf, UserState

LEMMA BaseAges ==
  ASSUME TypeInv, NEW u \in Users, Lasting(store[u]), NEW b, Base(u, b), Tick
  PROVE  Base(u, b)'
<1>1. store[u].until \in {NoTime, 0}
  BY DEF Base, Lasting, Expired, Stopped
<1>2. store'[u] = store[u]
  BY <1>1, AgedIs, AgeStill DEF Tick, TypeInv, TypeOK
<1> QED BY <1>2 DEF Base, Expired, Stopped

LEMMA OutcomeAges ==
  ASSUME NEW u \in Users, NEW b \in UserState, b.status # "stopped", b.until = NoTime,
         NEW record, Outcome(u, b, record)
  PROVE  Outcome(u, b, AgeOf(record))
<1>1. Entries[u] \in Nat /\ b.strikes \in Nat
  BY EntriesAssumption DEF UserState
<1>2. CASE Judged(u, b, Entries[u], record)
  <2>1. record \in UserState /\ record.until = NoTime
    BY <1>1, <1>2, JudgedLasts
  <2>2. AgeOf(record) = record
    BY <2>1, AgeStill
  <2> QED BY <2>2
<1>3. ASSUME NEW n \in Rule!Streaks(b.strikes, Entries[u]), NEW t \in Rule!TimesLeft(u),
             Due(u, Recorded(n, b)),
             record = [Recorded(n, b) EXCEPT !.status = "stopped", !.until = t]
      PROVE  Outcome(u, b, AgeOf(record))
  <2> DEFINE next == Recorded(n, b)
  <2>1. n \in Nat
    BY <1>1, StreaksAre
  <2>2. next \in UserState
    BY <2>1, RecordedLasts
  <2>3. Later(t) \in Rule!TimesLeft(u)
    BY TimesLeftType
  <2>4. record = [next EXCEPT !.status = "stopped", !.until = t] /\ Due(u, next)
    BY <1>3
  <2> HIDE DEF next
  <2>5. AgeOf(record) = [next EXCEPT !.status = "stopped", !.until = Later(t)]
    BY <2>2, <2>4 DEF AgeOf, UserState
  <2> QED BY <2>3, <2>4, <2>5 DEF Outcome, next
<1> QED BY <1>2, <1>3 DEF Outcome

-----------------------------------------------------------------------------
(* The steps of one process.                                                 *)

LEMMA PendingAside ==
  ASSUME TypeInv, NEW p \in Procs, NEW q \in Procs \ {p}, Start(p) \/ Work(p) \/ Fault(p)
  PROVE  pending'[q] = pending[q]
<1> USE DEF TypeInv, TypeOK
<1>1. \/ pending' = pending
      \/ \E t : pending' = [pending EXCEPT ![p] = t]
  BY DEF Start, StartCycle, StartCommand, StartSaveInstance, Work, Fault, ReinitFails, Crash,
         LockCycle, LockDisable, LockEnable, LockReset, Acquire, ReenableNext, ReenableEnd,
         Observe, DecideStop, EvaluateEnd, StopEdit, ReinstateEdit, EditAccount,
         AccountMissing, Abort, Return, StopReinit, ReinstateReinit, Save, SyncLoad, SyncSave
<1> QED BY <1>1

LEMMA ListStart ==
  ASSUME TypeInv, NEW p \in Procs, StartCycle(p)
  PROVE  ListOf(p)'
<1>1. PICK b \in Responses : body' = [body EXCEPT ![p] = b]
  BY DEF StartCycle
<1>2. \A u \in Users : b[u] \in Listings(Entries[u]) \/ b[u] \in Listings(0)
  BY DEF Responses
<1>3. ASSUME NEW u \in Users PROVE Len(b[u]) <= Entries[u]
  <2>1. Entries[u] \in Nat
    BY EntriesAssumption
  <2>2. \A n \in Nat : \A l \in Listings(n) : Len(l) <= n
    BY DEF Listings
  <2> QED BY <1>2, <2>1, <2>2
<1>4. body'[p] = b
  BY <1>1 DEF TypeInv, TypeOK
<1> QED BY <1>3, <1>4 DEF ListOf

LEMMA PathLock ==
  ASSUME StopInv, NEW p \in Procs, PathBy(p),
         Start(p) \/ LockCycle(p) \/ LockDisable(p) \/ LockEnable(p) \/ LockReset(p)
  PROVE  PathBy(p)'
<1> USE DEF StopInv, AccountInv, TypeInv, TypeOK, Goto
<1>1. CASE Start(p)
  <2>1. /\ lock # p /\ UNCHANGED <<lock, store, pending>>
        /\ pc'[p] \in {"lock", "sync"} /\ pc[p] = "idle"
        /\ job'[p] \in Commands => p \in Sessions
    BY <1>1 DEF Start, StartCycle, StartCommand, StartSaveInstance, LockInv, Holding,
                AtUser, shared, ghosts, Cycles, Commands
  <2>2. pending'[p] = NoTime
    BY <2>1 DEF PathBy, OwnPath, PendingOf
  <2>3. PendingOf(p)' /\ OwnerOf(p)'
    BY <2>1, <2>2 DEF PendingOf, OwnerOf, Holding, AtUser
  <2>4. ListOf(p)'
    <3>1. CASE StartCycle(p)
      BY <3>1, ListStart
    <3>2. CASE StartCommand(p) \/ StartSaveInstance(p)
      BY <3>2 DEF StartCommand, StartSaveInstance, PathBy, OwnPath, ListOf
    <3> QED BY <1>1, <3>1, <3>2 DEF Start
  <2> QED BY <2>1, <2>3, <2>4 DEF PathBy, OwnPath, PathOf
<1>2. CASE ~ Start(p)
  <2>1. /\ UNCHANGED <<store, pending, job, cur, body>> /\ pc[p] = "lock"
        /\ job[p] \in Cycles \cup Commands
    BY <1>2 DEF LockCycle, LockDisable, LockEnable, LockReset, Acquire, Commands
  <2>2. pending[p] = NoTime /\ OwnerOf(p)' /\ ListOf(p)'
    BY <2>1 DEF PathBy, OwnPath, PendingOf, OwnerOf, ListOf
  <2>3. \A u \in Users : Lasting(store[u])
    BY DEF PathBy
  <2>4. CASE LockCycle(p)
    <3>1. /\ mem'[p] = store /\ pc'[p] = "reenable" /\ job[p] \in Cycles
          /\ todo'[p] = {u \in Users : Expired(store, u)}
      BY <2>4 DEF LockCycle
    <3>2. \A u \in Users : LiftPath(p, u)'
      BY <2>1, <3>1 DEF LiftPath, Expired, Stopped
    <3>3. PathOf(p)'
      BY <2>1, <2>3, <3>1, <3>2 DEF PathOf, Cycles, Commands
    <3> QED BY <2>1, <2>2, <2>3, <3>1, <3>3 DEF PathBy, OwnPath, PendingOf
  <2>5. CASE LockDisable(p) \/ LockEnable(p)
    <3>1. /\ mem'[p] = store /\ pc'[p] \in {"stopEdit", "reinstateEdit"}
          /\ job[p] \in Commands /\ job[p] \notin Cycles
      BY <2>5 DEF LockDisable, LockEnable, Commands, Cycles
    <3>2. PathOf(p)'
      BY <2>1, <2>3, <3>1 DEF PathOf, CommandPath
    <3> QED BY <2>1, <2>2, <2>3, <3>1, <3>2 DEF PathBy, OwnPath, PendingOf
  <2>6. CASE LockReset(p)
    <3>1. /\ mem' = [mem EXCEPT ![p] = [store EXCEPT ![cur[p]] = Fresh]]
          /\ pc'[p] = "save" /\ job[p] = "reset" /\ cur[p] \in Users
      BY <2>6 DEF LockReset, Acquire, CurOK, Commands
    <3>2. \A u \in Users : mem'[p][u] = IF u = cur[p] THEN Fresh ELSE store[u]
      BY <3>1
    <3>3. \A u \in Users : Lasting(mem'[p][u]) /\ CommandPath(p, u)'
      BY <2>1, <2>3, <3>1, <3>2 DEF CommandPath, Lasting, Fresh
    <3>4. PathOf(p)'
      BY <2>1, <3>1, <3>3 DEF PathOf, Cycles
    <3> QED BY <2>1, <2>2, <2>3, <3>1, <3>4 DEF PathBy, OwnPath, PendingOf, Cycles
  <2> QED BY <1>2, <2>4, <2>5, <2>6
<1> QED BY <1>1, <1>2

LEMMA PathLoops ==
  ASSUME StopInv, NEW p \in Procs, PathBy(p),
         ReenableNext(p) \/ ReenableEnd(p) \/ EvaluateEnd(p)
  PROVE  PathBy(p)'
<1> USE DEF StopInv, AccountInv, TypeInv, TypeOK, Goto
<1>1. /\ UNCHANGED <<store, lock, job, mem, pending, body>> /\ lock = p
      /\ job[p] \in Cycles /\ job[p] \notin Commands
      /\ pc[p] \in {"reenable", "evaluate"}
      /\ pc'[p] \in {"reinstateEdit", "evaluate", "save"}
  BY DEF ReenableNext, ReenableEnd, EvaluateEnd, shared, LockInv, Holding, JobInv, JobOf,
         Cycles, Commands
<1>2. PendingOf(p)' /\ OwnerOf(p)' /\ ListOf(p)'
  BY <1>1 DEF PathBy, OwnPath, PendingOf, OwnerOf, ListOf
<1>3. \A u \in Users : Lasting(store'[u]) /\ Lasting(mem'[p][u])
  BY <1>1 DEF PathBy, OwnPath, PathOf
<1>4. CASE ReenableNext(p)
  <2>1. PICK u \in todo[p] : /\ cur'[p] = u /\ todo'[p] = todo[p] \ {u}
                             /\ pc[p] = "reenable" /\ pc'[p] = "reinstateEdit"
    BY <1>4 DEF ReenableNext
  <2>2. \A v \in Users : LiftPath(p, v)
    BY <1>1, <2>1 DEF PathBy, OwnPath, PathOf
  <2>3. \A v \in Users : LiftPath(p, v)'
    BY <1>1, <2>1, <2>2 DEF LiftPath, Expired, Stopped
  <2> QED BY <1>1, <1>2, <1>3, <2>1, <2>3 DEF PathBy, OwnPath, PathOf
<1>5. CASE ReenableEnd(p)
  <2>1. /\ pc[p] = "reenable" /\ pc'[p] = "evaluate" /\ todo[p] = {}
        /\ todo'[p] = {u \in Users : ~ Stopped(mem[p], u)}
    BY <1>5 DEF ReenableEnd
  <2>2. \A v \in Users :
           mem[p][v] = store[v] \/ (Expired(store, v) /\ mem[p][v] = Fresh)
    BY <1>1, <2>1 DEF PathBy, OwnPath, PathOf, LiftPath
  <2>3. ASSUME NEW v \in Users PROVE JudgePath(p, v)'
    <3>1. CASE v \in todo'[p]
      <4>1. Base(v, mem[p][v])
        BY <2>1, <2>2, <3>1 DEF Base, Stopped
      <4>2. Base(v, mem[p][v])'
        BY <1>1, <4>1 DEF Base, Expired, Stopped
      <4>3. mem[p][v] \in UserState /\ mem' = mem
        BY <1>1
      <4>4. Judged(v, mem'[p][v], Evaluated(p, v)', mem'[p][v])
        BY DEF Judged
      <4> QED BY <3>1, <4>2, <4>3, <4>4 DEF JudgePath
    <3>2. CASE v \notin todo'[p]
      <4>1. Stopped(mem[p], v)
        BY <2>1, <3>2
      <4>2. mem[p][v] = store[v]
        BY <2>2, <4>1, FreshNotStopped DEF Stopped
      <4> QED BY <1>1, <2>1, <3>2, <4>2 DEF JudgePath, Decided
    <3> QED BY <3>1, <3>2
  <2> QED BY <1>1, <1>2, <1>3, <2>1, <2>3 DEF PathBy, OwnPath, PathOf
<1>6. CASE EvaluateEnd(p)
  <2>1. /\ pc[p] = "evaluate" /\ pc'[p] = "save" /\ todo[p] = {}
        /\ UNCHANGED <<todo, cur>>
    BY <1>6 DEF EvaluateEnd
  <2>2. \A v \in Users : Decided(v, mem[p][v])
    BY <1>1, <2>1 DEF PathBy, OwnPath, PathOf, JudgePath
  <2>3. \A v \in Users : JudgePath(p, v)'
    BY <1>1, <2>1, <2>2 DEF JudgePath, Decided, Base, Expired, Stopped
  <2> QED BY <1>1, <1>2, <1>3, <2>1, <2>3 DEF PathBy, OwnPath, PathOf
<1> QED BY <1>4, <1>5, <1>6

(* A cycle evaluates the next reading of a user.                             *)
LEMMA PathEvaluate ==
  ASSUME StopInv, NEW p \in Procs, PathBy(p), Observe(p) \/ DecideStop(p)
  PROVE  PathBy(p)'
<1>1. PICK u \in todo[p] :
        /\ mem' = [mem EXCEPT ![p][u] = NextState(NextReading(p, u), mem[p][u])]
        /\ \/ /\ pc'[p] = "evaluate" /\ UNCHANGED <<cur, pending>>
              /\ ~ ShouldStop(NextReading(p, u), mem[p][u], Action[u])
              /\ body' = [body EXCEPT ![p][u] = Rest(@)]
              /\ todo'[p] = IF Len(body[p][u]) > 1 THEN todo[p] ELSE todo[p] \ {u}
           \/ /\ pc'[p] = "stopEdit" /\ cur'[p] = u /\ pending'[p] = StoppedUntil(u)
              /\ ShouldStop(NextReading(p, u), mem[p][u], Action[u])
              /\ body' = [body EXCEPT ![p][u] = <<>>]
              /\ todo'[p] = todo[p] \ {u}
        /\ pc[p] = "evaluate"
        /\ UNCHANGED <<store, lock, job>>
  BY DEF Observe, DecideStop, shared, Goto, StopInv, AccountInv, TypeInv, TypeOK
<1> DEFINE reading == NextReading(p, u)
           record == mem[p][u]
           new == NextState(reading, record)
           list == body[p][u]
<1>2. /\ u \in Users /\ p \in Procs /\ reading \in Readings
      /\ lock = p /\ job[p] \in Cycles /\ job[p] \notin Commands
      /\ mem \in [Procs -> [Users -> UserState]] /\ record \in UserState
      /\ list \in Seq({"over", "under"})
      /\ body \in [Procs -> [Users -> Seq({"over", "under"})]]
  BY <1>1, NextReadingType
     DEF LockInv, Holding, JobInv, JobOf, Cycles, Commands, StopInv, AccountInv, TypeInv, TypeOK
<1>3. /\ \A v \in Users : /\ Lasting(mem[p][v]) /\ JudgePath(p, v) /\ Lasting(store[v])
                         /\ Len(body[p][v]) <= Entries[v]
      /\ pending[p] = NoTime
  BY <1>1, <1>2 DEF PathBy, OwnPath, PathOf, ListOf, PendingOf
<1>4. PICK b \in UserState : Base(u, b) /\ Judged(u, b, Evaluated(p, u), record)
  BY <1>1, <1>2, <1>3 DEF JudgePath
<1>5. b.status # "stopped" /\ b.until = NoTime /\ TypeInv
  BY <1>2, <1>3, <1>4, BaseLasts DEF StopInv, AccountInv
<1>6. /\ Entries[u] \in Nat /\ Len(list) \in Nat /\ Len(list) <= Entries[u]
      /\ Evaluated(p, u) \in Nat /\ Evaluated(p, u) = Entries[u] - Len(list)
      /\ Evaluated(p, u) <= Entries[u]
  BY <1>2, <1>3, EntriesAssumption DEF Evaluated
<1>7. /\ new.status # "stopped" /\ new.until = NoTime
      /\ pc'[p] = "evaluate" => Outcome(u, b, new)
      /\ pc'[p] = "evaluate" /\ Len(list) > 1 =>
           Judged(u, b, Entries[u] - (Len(list) - 1), new)
      /\ pc'[p] = "stopEdit" => Deciding(u, new)
  <2>1. /\ pc'[p] = "evaluate" => ~ ShouldStop(reading, record, Action[u])
        /\ pc'[p] = "stopEdit" => ShouldStop(reading, record, Action[u])
    BY <1>1
  <2>2. CASE list = <<>>
    <3>1. reading = "none" /\ new = record /\ ~ ShouldStop(reading, record, Action[u])
      BY <2>2 DEF NextReading, NextState, ShouldStop
    <3>2. Judged(u, b, Entries[u], new)
      BY <1>4, <1>6, <3>1, JudgedMore
    <3>3. new.status # "stopped" /\ new.until = NoTime
      BY <1>4, <1>5, <1>6, <3>1, JudgedLasts
    <3>4. ~ (Len(list) > 1) /\ pc'[p] # "stopEdit"
      BY <2>1, <2>2, <3>1
    <3> QED BY <3>2, <3>3, <3>4 DEF Outcome
  <2>3. CASE list # <<>>
    <3> DEFINE k == Evaluated(p, u)
    <3>1. reading \in {"over", "under"} /\ Len(list) >= 1
      BY <1>2, <2>3 DEF NextReading
    <3>2. k + 1 \in Nat /\ k + 1 <= Entries[u] /\ k + 1 = Entries[u] - (Len(list) - 1)
      BY <1>6, <3>1
    <3>3. /\ \E n \in Rule!Streaks(b.strikes, k + 1) : new = Recorded(n, b)
          /\ ShouldStop(reading, record, Action[u]) <=> Due(u, new)
      <4> HIDE DEF reading, record
      <4> QED BY <1>4, <1>5, <1>6, <3>1, OneMore
    <3> HIDE DEF new, k, reading, record, list
    <3>4. PICK n \in Rule!Streaks(b.strikes, k + 1) : new = Recorded(n, b)
      BY <3>3
    <3>5. b.strikes \in Nat
      BY DEF UserState
    <3>6. n \in Nat /\ n \in Rule!Streaks(b.strikes, Entries[u])
      BY <1>6, <3>2, <3>5, StreaksAre
    <3>7. new.status # "stopped" /\ new.until = NoTime
      BY <1>5, <3>4, <3>6, RecordedLasts
    <3>8. pc'[p] = "evaluate" =>
            Judged(u, b, Entries[u], new) /\ Judged(u, b, k + 1, new)
      BY <2>1, <3>3, <3>4, <3>6 DEF Judged
    <3>9. pc'[p] = "stopEdit" => Deciding(u, new)
      BY <1>4, <2>1, <3>3, <3>4, <3>6 DEF Deciding
    <3> QED BY <3>2, <3>7, <3>8, <3>9 DEF Outcome
  <2> QED BY <2>2, <2>3
<1>8. \A v \in Users : mem'[p][v] = IF v = u THEN new ELSE mem[p][v]
  <2> HIDE DEF new
  <2>1. mem' = [mem EXCEPT ![p][u] = new]
    BY <1>1 DEF new
  <2> QED BY <1>2, <2>1, MemUpdate
<1>9. /\ \A v \in Users \ {u} : body'[p][v] = body[p][v]
      /\ body'[p][u] = IF pc'[p] = "evaluate" THEN Rest(list) ELSE <<>>
  BY <1>1, <1>2
<1>10. Len(Rest(list)) = IF Len(list) > 0 THEN Len(list) - 1 ELSE 0
  <2> HIDE DEF list
  <2> QED BY <1>2 DEF Rest
<1> HIDE DEF new, record, reading, list
<1>11. ASSUME NEW v \in Users PROVE Lasting(mem'[p][v]) /\ JudgePath(p, v)'
  <2>1. CASE v = u
    <3>1. mem'[p][v] = new /\ store' = store
      BY <1>1, <1>8, <2>1
    <3>2. CASE pc'[p] = "evaluate" /\ Len(list) > 1
      <4>1. Evaluated(p, u)' = Entries[u] - (Len(list) - 1)
        BY <1>9, <1>10, <3>2 DEF Evaluated
      <4>2. Base(u, b)' /\ Judged(u, b, Evaluated(p, u)', new)
        BY <1>4, <1>7, <3>1, <3>2, <4>1 DEF Base, Expired, Stopped
      <4>3. v \in todo'[p]
        BY <1>1, <2>1, <3>2 DEF list
      <4> QED BY <1>7, <2>1, <3>1, <4>2, <4>3 DEF JudgePath, Lasting
    <3>3. CASE pc'[p] = "evaluate" /\ ~ (Len(list) > 1)
      <4>1. v \notin todo'[p] /\ pc'[p] = "evaluate"
        BY <1>1, <2>1, <3>3 DEF list
      <4>2. Base(u, b)'
        BY <1>4, <3>1 DEF Base, Expired, Stopped
      <4>3. Decided(v, mem[p][v])'
        BY <1>7, <2>1, <3>1, <3>3, <4>2 DEF Decided
      <4> QED BY <1>7, <2>1, <3>1, <4>1, <4>3 DEF JudgePath, Lasting
    <3>4. CASE pc'[p] = "stopEdit"
      <4>1. v \notin todo'[p] /\ cur'[p] = v
        BY <1>1, <2>1, <3>4
      <4>2. Deciding(u, new)
        BY <1>7, <3>4
      <4> QED BY <1>7, <2>1, <3>1, <3>4, <4>1, <4>2
              DEF JudgePath, Deciding, Base, Expired, Stopped, Lasting
    <3> QED BY <1>1, <3>2, <3>3, <3>4
  <2>2. CASE v # u
    <3>1. /\ mem'[p][v] = mem[p][v] /\ (v \in todo'[p] <=> v \in todo[p]) /\ store' = store
          /\ body'[p][v] = body[p][v]
      BY <1>1, <1>8, <1>9, <2>2
    <3>2. ~ (pc'[p] \in {"stopEdit", "stopReinit"} /\ v = cur'[p])
      BY <1>1, <2>2
    <3>3. IF v \in todo[p]
          THEN \E c \in UserState : Base(v, c) /\ Judged(v, c, Evaluated(p, v), mem[p][v])
          ELSE Decided(v, mem[p][v])
      BY <1>1, <1>3 DEF JudgePath
    <3> QED BY <1>3, <3>1, <3>2, <3>3 DEF JudgePath, Decided, Base, Expired, Stopped, Evaluated
  <2> QED BY <2>1, <2>2
<1>12. PathOf(p)'
  BY <1>1, <1>2, <1>11 DEF PathOf
<1>13. PendingOf(p)'
  <2>1. StoppedUntil(u) \in Rule!TimesLeft(u)
    <3>1. StopDuration[u] \in Nat
      BY <1>2, PolicyAssumption
    <3> QED BY <3>1 DEF StoppedUntil, Rule!TimesLeft
  <2> QED BY <1>1, <1>2, <1>3, <2>1 DEF PendingOf
<1>14. OwnerOf(p)'
  BY <1>1, <1>2 DEF PathBy, OwnPath, OwnerOf
<1>15. ListOf(p)'
  <2> SUFFICES ASSUME NEW v \in Users PROVE Len(body'[p][v]) <= Entries[v]
    BY DEF ListOf
  <2>1. CASE v # u
    BY <1>3, <1>9, <2>1
  <2>2. CASE v = u
    <3>1. Len(body'[p][u]) \in {Len(Rest(list)), 0}
      BY <1>9
    <3> QED BY <1>6, <1>10, <2>2, <3>1 DEF list
  <2> QED BY <2>1, <2>2
<1> QED BY <1>1, <1>3, <1>12, <1>13, <1>14, <1>15 DEF PathBy, OwnPath

LEMMA PathEdit ==
  ASSUME StopInv, NEW p \in Procs, PathBy(p), StopEdit(p) \/ ReinstateEdit(p)
  PROVE  PathBy(p)'
<1> USE DEF StopInv, AccountInv, TypeInv, TypeOK, Goto
<1>1. /\ UNCHANGED <<store, lock, job, cur, mem, todo, pending, body>>
      /\ \/ pc[p] = "stopEdit" /\ pc'[p] = "stopReinit"
         \/ pc[p] = "reinstateEdit" /\ pc'[p] = "reinstateReinit"
  BY DEF StopEdit, ReinstateEdit, EditAccount
<1>2. PendingOf(p)' /\ OwnerOf(p)' /\ ListOf(p)'
  BY <1>1 DEF PathBy, OwnPath, PendingOf, OwnerOf, Holding, AtUser, ListOf
<1>3. ASSUME lock = p, NEW u \in Users
      PROVE  /\ Lasting(mem'[p][u])
             /\ job[p] \in Cycles /\ pc'[p] = "reinstateReinit" => LiftPath(p, u)'
             /\ job[p] \in Cycles /\ pc'[p] = "stopReinit" => JudgePath(p, u)'
             /\ job[p] \in Commands => CommandPath(p, u)'
  <2>1. Lasting(mem'[p][u])
    BY <1>1, <1>3 DEF PathBy, OwnPath, PathOf
  <2>2. job[p] \in Cycles /\ pc'[p] = "reinstateReinit" => LiftPath(p, u)'
    BY <1>1, <1>3 DEF PathBy, OwnPath, PathOf, LiftPath, Expired, Stopped
  <2>3. job[p] \in Cycles /\ pc'[p] = "stopReinit" => JudgePath(p, u)'
    BY <1>1, <1>3 DEF PathBy, OwnPath, PathOf, JudgePath, Decided, Deciding, Base, Expired,
                      Stopped, Evaluated
  <2>4. job[p] \in Commands => CommandPath(p, u)'
    BY <1>1, <1>3 DEF PathBy, OwnPath, PathOf, CommandPath
  <2> QED BY <2>1, <2>2, <2>3, <2>4
<1>4. PathOf(p)'
  BY <1>1, <1>3 DEF PathOf
<1> QED BY <1>1, <1>2, <1>4 DEF PathBy, OwnPath

LEMMA PathStop ==
  ASSUME StopInv, NEW p \in Procs, PathBy(p), StopReinit(p)
  PROVE  PathBy(p)'
<1> USE DEF StopInv, AccountInv, TypeInv, TypeOK, Goto
<1> DEFINE c == cur[p]
<1>1. /\ lock = p /\ c \in Users /\ pc[p] = "stopReinit"
      /\ UNCHANGED <<store, lock, job, cur, todo, body>>
      /\ pc'[p] = IF job[p] \in Cycles THEN "evaluate" ELSE "save"
      /\ job[p] \in Cycles \cup {"disable"}
      /\ pending'[p] = NoTime
  BY DEF StopReinit, LockInv, Holding, AtUser, CurOK, JobInv, JobOf
<1> DEFINE new == [mem[p][c] EXCEPT !.status = "stopped", !.until = pending[p]]
<1>2. mem' = [mem EXCEPT ![p][c] = new]
  BY DEF StopReinit
<1>3. new.status = "stopped"
  BY <1>1 DEF UserState
<1> HIDE DEF new
<1>4. \A v \in Users : mem'[p][v] = IF v = c THEN new ELSE mem[p][v]
  BY <1>1, <1>2, MemUpdate
<1>5. PendingOf(p)' /\ OwnerOf(p)' /\ ListOf(p)'
  BY <1>1 DEF PathBy, OwnPath, PendingOf, OwnerOf, Cycles, Commands, ListOf
<1>6. \A v \in Users : Lasting(mem'[p][v])
  BY <1>1, <1>3, <1>4 DEF PathBy, OwnPath, PathOf, Lasting
<1>7. CASE job[p] \in Cycles
  <2>1. \A v \in Users : JudgePath(p, v)
    BY <1>1, <1>7 DEF PathBy, OwnPath, PathOf
  <2>2. c \notin todo[p]
    BY <1>1, <1>7 DEF TodoInv
  <2>3. Decided(c, new)
    <3>1. PICK b \in UserState :
             /\ Base(c, b) /\ Due(c, mem[p][c])
             /\ \E n \in Rule!Streaks(b.strikes, Entries[c]) : mem[p][c] = Recorded(n, b)
      BY <1>1, <2>1, <2>2 DEF JudgePath, Deciding
    <3>2. pending[p] \in Rule!TimesLeft(c)
      BY <1>1, <1>7 DEF PathBy, OwnPath, PendingOf
    <3>3. Outcome(c, b, new)
      BY <3>1, <3>2 DEF Outcome, new
    <3> QED BY <3>1, <3>3 DEF Decided
  <2>4. ASSUME NEW v \in Users PROVE JudgePath(p, v)'
    <3>1. CASE v = c
      BY <1>1, <1>4, <1>7, <2>2, <2>3, <3>1 DEF JudgePath, Decided, Base, Expired, Stopped
    <3>2. CASE v # c
      BY <1>1, <1>4, <1>7, <2>1, <3>2
         DEF JudgePath, Decided, Base, Expired, Stopped, Evaluated
    <3> QED BY <3>1, <3>2
  <2> QED BY <1>1, <1>5, <1>6, <1>7, <2>4 DEF PathBy, OwnPath, PathOf, Cycles, Commands
<1>8. CASE job[p] = "disable"
  <2>1. \A v \in Users : mem[p][v] = store[v]
    BY <1>1, <1>8 DEF PathBy, OwnPath, PathOf, CommandPath, Commands
  <2>2. pending[p] = NoTime
    BY <1>8 DEF PathBy, OwnPath, PendingOf, Cycles
  <2>3. new = Shut(store[c])
    BY <1>1, <2>1, <2>2 DEF new, Shut
  <2>4. \A v \in Users : CommandPath(p, v)'
    BY <1>1, <1>4, <1>8, <2>1, <2>3 DEF CommandPath, Cycles
  <2> QED BY <1>1, <1>5, <1>6, <1>8, <2>4 DEF PathBy, OwnPath, PathOf, Cycles, Commands
<1> QED BY <1>1, <1>7, <1>8

LEMMA PathReinstate ==
  ASSUME StopInv, NEW p \in Procs, PathBy(p), ReinstateReinit(p)
  PROVE  PathBy(p)'
<1> USE DEF StopInv, AccountInv, TypeInv, TypeOK, Goto
<1> DEFINE c == cur[p]
<1>1. /\ lock = p /\ c \in Users /\ pc[p] = "reinstateReinit"
      /\ UNCHANGED <<store, lock, job, cur, todo, pending, body>>
      /\ pc'[p] = IF job[p] \in Cycles THEN "reenable" ELSE "save"
      /\ job[p] \in Cycles \cup {"enable"}
      /\ mem' = [mem EXCEPT ![p][c] = Fresh]
  BY DEF ReinstateReinit, LockInv, Holding, AtUser, CurOK, JobInv, JobOf
<1>2. \A v \in Users : mem'[p][v] = IF v = c THEN Fresh ELSE mem[p][v]
  BY <1>1, MemUpdate
<1>3. PendingOf(p)' /\ OwnerOf(p)' /\ ListOf(p)'
  BY <1>1 DEF PathBy, OwnPath, PendingOf, OwnerOf, Cycles, Commands, ListOf
<1>4. \A v \in Users : Lasting(mem'[p][v])
  BY <1>1, <1>2 DEF PathBy, OwnPath, PathOf, Lasting, Fresh
<1>5. CASE job[p] \in Cycles
  <2>1. \A v \in Users : LiftPath(p, v)
    BY <1>1, <1>5 DEF PathBy, OwnPath, PathOf
  <2>2. \A v \in Users : LiftPath(p, v)'
    BY <1>1, <1>2, <1>5, <2>1 DEF LiftPath, Expired, Stopped
  <2> QED BY <1>1, <1>3, <1>4, <1>5, <2>2 DEF PathBy, OwnPath, PathOf, Cycles, Commands
<1>6. CASE job[p] = "enable"
  <2>1. \A v \in Users : mem[p][v] = store[v]
    BY <1>1, <1>6 DEF PathBy, OwnPath, PathOf, CommandPath, Commands
  <2>2. \A v \in Users : CommandPath(p, v)'
    BY <1>1, <1>2, <1>6, <2>1 DEF CommandPath, Cycles
  <2> QED BY <1>1, <1>3, <1>4, <1>6, <2>2 DEF PathBy, OwnPath, PathOf, Cycles, Commands
<1> QED BY <1>1, <1>5, <1>6

LEMMA NoReadingListed == \A u \in Users : Len(NoReading[u]) <= Entries[u]
  BY EntriesAssumption DEF NoReading

LEMMA PathAbort ==
  ASSUME StopInv, NEW p \in Procs, PathBy(p), Fault(p) \/ AccountMissing(p)
  PROVE  PathBy(p)'
<1> USE DEF StopInv, AccountInv, TypeInv, TypeOK
<1>1. /\ lock' # p /\ store' = store
      /\ pc'[p] = "idle" /\ job'[p] = "none" /\ pending'[p] = NoTime
      /\ body'[p] = NoReading
  BY FreeAssumption DEF Fault, ReinitFails, Crash, AccountMissing, Abort, Return, Goto
<1> QED BY <1>1, NoReadingListed
        DEF PathBy, OwnPath, PathOf, PendingOf, OwnerOf, Holding, AtUser, Cycles, Commands,
            ListOf

(* The step that matters: what a save writes is a step of the rule for every *)
(* user.                                                                     *)
LEMMA SaveDecides ==
  ASSUME StopInv, NEW p \in Procs, PathBy(p), Save(p), NEW u \in Users
  PROVE  /\ store' = mem[p]
         /\ Lasting(mem[p][u])
         /\ \/ Decided(u, mem[p][u])
            \/ mem[p][u] = Shut(store[u])
            \/ /\ mem[p][u] = Fresh
               /\ p \in Sessions /\ job[p] \in {"enable", "reset"} /\ cur[p] = u
<1> USE DEF StopInv, AccountInv
<1>1. lock = p /\ pc[p] = "save" /\ store' = mem[p]
  BY DEF Save, LockInv, Holding
<1>2. job[p] \in Cycles \cup Commands /\ (job[p] \in Commands => p \in Sessions)
  BY <1>1 DEF PathBy, OwnPath, OwnerOf, Holding
<1>3. mem[p][u] \in UserState
  BY DEF TypeInv, TypeOK
<1>4. CASE job[p] \in Cycles
  <2>1. JudgePath(p, u) /\ Lasting(mem[p][u])
    BY <1>1, <1>4 DEF PathBy, OwnPath, PathOf
  <2>2. CASE u \in todo[p]
    <3>1. PICK b \in UserState : Base(u, b) /\ Judged(u, b, Evaluated(p, u), mem[p][u])
      BY <2>1, <2>2 DEF JudgePath
    <3>2. /\ Len(body[p][u]) \in Nat /\ Entries[u] \in Nat
          /\ Len(body[p][u]) <= Entries[u]
      BY EntriesAssumption DEF TypeInv, TypeOK, PathBy, OwnPath, ListOf
    <3>3. /\ Evaluated(p, u) \in Nat /\ Evaluated(p, u) <= Entries[u]
      BY <3>2 DEF Evaluated
    <3>4. Outcome(u, b, mem[p][u])
      BY <3>1, <3>2, <3>3, JudgedMore DEF Outcome
    <3> QED BY <1>1, <2>1, <3>1, <3>4 DEF Decided
  <2>3. CASE u \notin todo[p]
    BY <1>1, <2>1, <2>3 DEF JudgePath
  <2> QED BY <2>2, <2>3
<1>5. CASE job[p] \in Commands
  <2>1. CommandPath(p, u) /\ Lasting(mem[p][u])
    BY <1>1, <1>5 DEF PathBy, OwnPath, PathOf
  <2> QED BY <1>1, <1>2, <1>5, <2>1 DEF CommandPath, Decided, Commands
<1> QED BY <1>2, <1>4, <1>5

LEMMA PathSave ==
  ASSUME StopInv, NEW p \in Procs, PathBy(p), Save(p)
  PROVE  PathBy(p)'
<1>1. /\ lock' # p /\ pc[p] = "save"
      /\ body'[p] = NoReading
      /\ \/ pc'[p] = "idle" /\ job'[p] = "none" /\ pending'[p] = NoTime
         \/ /\ pc'[p] = "sync" /\ job'[p] = "run_instance"
            /\ pending' = pending /\ job' = job
  BY FreeAssumption DEF Save, Return, Goto, StopInv, AccountInv, TypeInv, TypeOK
<1>2. pending'[p] = NoTime
  BY <1>1 DEF PathBy, OwnPath, PendingOf
<1>3. \A u \in Users : Lasting(store'[u])
  BY SaveDecides
<1> QED BY <1>1, <1>2, <1>3, NoReadingListed
        DEF PathBy, OwnPath, PathOf, PendingOf, OwnerOf, Holding, AtUser, Cycles, Commands,
            ListOf

(* A sync that is not stale leaves everything as it was.                     *)
LEMMA PathSync ==
  ASSUME StopInv, NEW p \in Procs, PathBy(p), SyncLoad(p) \/ SyncSave(p), ~ stale'
  PROVE  PathBy(p)'
<1>1. /\ lock # p /\ pc[p] \in {"sync", "syncSave"}
      /\ \/ pc'[p] = "idle" /\ job'[p] = "none" /\ pending'[p] = NoTime
            /\ body'[p] = NoReading
         \/ pc'[p] = "syncSave" /\ UNCHANGED <<job, body, pending>>
  BY DEF SyncLoad, SyncSave, Return, Goto, LockInv, Holding, AtUser, StopInv, AccountInv,
         TypeInv, TypeOK
<1>2. UNCHANGED <<store, lock>>
  BY SyncLeaves
<1>3. pending'[p] = NoTime
  BY <1>1 DEF PathBy, OwnPath, PendingOf
<1>4. ListOf(p)'
  BY <1>1, NoReadingListed DEF PathBy, OwnPath, ListOf
<1> QED BY <1>1, <1>2, <1>3, <1>4
        DEF PathBy, OwnPath, PathOf, PendingOf, OwnerOf, Holding, AtUser, Cycles, Commands

LEMMA DecidedAges ==
  ASSUME TypeInv, NEW u \in Users, Lasting(store[u]), NEW record, Decided(u, record), Tick
  PROVE  Decided(u, AgeOf(record))'
<1>1. store'[u] = AgeOf(store[u])
  BY AgedIs DEF Tick, TypeInv, TypeOK
<1>2. CASE record = store[u]
  BY <1>1, <1>2 DEF Decided
<1>3. ASSUME NEW b \in UserState, Base(u, b), Outcome(u, b, record)
      PROVE  Decided(u, AgeOf(record))'
  <2>1. b.status # "stopped" /\ b.until = NoTime
    BY <1>3, BaseLasts
  <2>2. Outcome(u, b, AgeOf(record))
    BY <1>3, <2>1, OutcomeAges
  <2>3. Base(u, b)'
    BY <1>3, BaseAges
  <2> QED BY <2>2, <2>3 DEF Decided
<1> QED BY <1>2, <1>3 DEF Decided

LEMMA DecidingAges ==
  ASSUME TypeInv, NEW u \in Users, Lasting(store[u]), NEW record, Deciding(u, record), Tick
  PROVE  AgeOf(record) = record /\ Deciding(u, record)'
<1>1. PICK b \in UserState :
         /\ Base(u, b) /\ Due(u, record)
         /\ \E n \in Rule!Streaks(b.strikes, Entries[u]) : record = Recorded(n, b)
  BY DEF Deciding
<1>2. PICK n \in Rule!Streaks(b.strikes, Entries[u]) : record = Recorded(n, b)
  BY <1>1
<1>3. record \in UserState /\ record.until = NoTime
  <2>1. b.strikes \in Nat /\ Entries[u] \in Nat
    BY EntriesAssumption DEF UserState
  <2>2. b.until = NoTime /\ n \in Nat
    BY <1>1, <2>1, BaseLasts, StreaksAre
  <2> QED BY <1>2, <2>2, RecordedLasts
<1>4. AgeOf(record) = record
  BY <1>3, AgeStill
<1>5. Base(u, b)'
  BY <1>1, BaseAges
<1> QED BY <1>1, <1>4, <1>5 DEF Deciding

LEMMA PathTick ==
  ASSUME StopInv, PathInv, Tick, ~ stale'
  PROVE  PathInv'
<1> USE DEF StopInv, AccountInv
<1>1. UNCHANGED <<lock, pc, job, cur, todo, body, stale>>
  BY DEF Tick, ghosts
<1>0. (\A u \in Users : Lasting(store[u])) /\ \A q \in Procs : OwnPath(q)
  BY <1>1 DEF PathInv
<1>2. \A u \in Users : store[u] \in UserState /\ Lasting(store[u])
  BY <1>0 DEF TypeInv, TypeOK
<1>3. \A u \in Users : store'[u] = AgeOf(store[u])
  BY AgedIs DEF Tick, TypeInv, TypeOK
<1>4. \A q \in Procs, u \in Users : /\ mem[q][u] \in UserState
                                    /\ mem'[q][u] = AgeOf(mem[q][u])
  <2> SUFFICES ASSUME NEW q \in Procs, NEW u \in Users
               PROVE  mem[q][u] \in UserState /\ mem'[q][u] = AgeOf(mem[q][u])
    OBVIOUS
  <2>1. mem[q] \in [Users -> UserState] /\ mem'[q] = Aged(mem[q])
    BY DEF Tick, TypeInv, TypeOK
  <2> QED BY <2>1, AgedIs
<1>5. \A record \in UserState :
         /\ Lasting(record) => Lasting(AgeOf(record))
         /\ AgeOf(record).status = record.status
  BY DEF Lasting, AgeOf, Later, UserState
<1>6. \A u \in Users : /\ Expired(store, u) => Expired(store, u)'
                       /\ Lasting(store'[u])
  <2> SUFFICES ASSUME NEW u \in Users
               PROVE  (Expired(store, u) => Expired(store, u)') /\ Lasting(store'[u])
    OBVIOUS
  <2>1. Expired(store, u) => store'[u] = store[u]
    BY <1>2, <1>3, AgeStill DEF Expired
  <2> QED BY <1>2, <1>3, <1>5, <2>1 DEF Expired, Stopped
<1>7. AgeOf(Fresh) = Fresh
  BY FreshType, AgeStill DEF Fresh
<1>8. ASSUME NEW q \in Procs, NEW u \in Users, lock = q
      PROVE  /\ Lasting(mem'[q][u])
             /\ job[q] \in Cycles
                /\ pc[q] \in {"reenable", "reinstateEdit", "reinstateReinit"} =>
                  LiftPath(q, u)'
             /\ job[q] \in Cycles
                /\ pc[q] \in {"evaluate", "stopEdit", "stopReinit", "save"} =>
                  JudgePath(q, u)'
             /\ job[q] \in Commands => CommandPath(q, u)'
  <2> DEFINE record == mem[q][u]
  <2>1. Lasting(mem'[q][u])
    BY <1>0, <1>4, <1>5, <1>8 DEF OwnPath, PathOf
  <2>2. ASSUME job[q] \in Cycles,
               pc[q] \in {"reenable", "reinstateEdit", "reinstateReinit"}
        PROVE  LiftPath(q, u)'
    <3>1. LiftPath(q, u)
      BY <1>0, <1>8, <2>2 DEF OwnPath, PathOf
    <3> QED BY <1>1, <1>3, <1>4, <1>6, <1>7, <3>1 DEF LiftPath
  <2>3. ASSUME job[q] \in Cycles,
               pc[q] \in {"evaluate", "stopEdit", "stopReinit", "save"}
        PROVE  JudgePath(q, u)'
    <3>1. JudgePath(q, u)
      BY <1>0, <1>8, <2>3 DEF OwnPath, PathOf
    <3>2. CASE u \in todo[q]
      <4>1. PICK b \in UserState : Base(u, b) /\ Judged(u, b, Evaluated(q, u), record)
        BY <3>1, <3>2 DEF JudgePath
      <4>2. Base(u, b)'
        BY <1>2, <4>1, BaseAges
      <4>3. Evaluated(q, u) \in Nat
        BY <1>0, EntriesAssumption DEF OwnPath, ListOf, Evaluated, TypeInv, TypeOK
      <4>4. AgeOf(record) = record
        <5> HIDE DEF record
        <5>1. record \in UserState /\ record.until = NoTime
          BY <1>2, <4>1, <4>3, BaseLasts, JudgedLasts
        <5> QED BY <5>1, AgeStill
      <4>5. Evaluated(q, u)' = Evaluated(q, u)
        BY <1>1 DEF Evaluated
      <4> QED BY <1>1, <1>4, <3>2, <4>1, <4>2, <4>4, <4>5 DEF JudgePath
    <3>3. CASE u \notin todo[q] /\ pc[q] \in {"stopEdit", "stopReinit"} /\ u = cur[q]
      <4>1. Deciding(u, record)
        BY <3>1, <3>3 DEF JudgePath
      <4> QED BY <1>1, <1>2, <1>4, <3>3, <4>1, DecidingAges DEF JudgePath
    <3>4. CASE u \notin todo[q] /\ ~ (pc[q] \in {"stopEdit", "stopReinit"} /\ u = cur[q])
      <4>1. Decided(u, record)
        BY <3>1, <3>4 DEF JudgePath
      <4> QED BY <1>1, <1>2, <1>4, <3>4, <4>1, DecidedAges DEF JudgePath
    <3> QED BY <3>2, <3>3, <3>4
  <2>4. ASSUME job[q] \in Commands
        PROVE  CommandPath(q, u)'
    <3>1. CommandPath(q, u)
      BY <1>0, <1>8, <2>4 DEF OwnPath, PathOf
    <3>2. AgeOf(Shut(store[u])) = Shut(AgeOf(store[u]))
      BY <1>2 DEF AgeOf, Shut, Later, UserState
    <3> QED BY <1>1, <1>3, <1>4, <1>7, <3>1, <3>2 DEF CommandPath
  <2> QED BY <2>1, <2>2, <2>3, <2>4
<1>9. \A q \in Procs : PathOf(q)'
  BY <1>1, <1>8 DEF PathOf
<1>10. ASSUME NEW q \in Procs PROVE PendingOf(q)' /\ OwnerOf(q)' /\ ListOf(q)'
  <2>1. pending'[q] = Later(pending[q]) /\ pc' = pc /\ job' = job /\ cur' = cur
    BY DEF Tick
  <2>4. ListOf(q)'
    BY <1>0, <1>1 DEF OwnPath, ListOf
  <2>2. CASE job[q] \in Cycles /\ pc[q] \in {"stopEdit", "stopReinit"}
    <3>1. pending[q] \in Rule!TimesLeft(cur[q]) /\ cur[q] \in Users
      BY <1>0, <2>2 DEF OwnPath, PendingOf, TypeInv, CurOK, AtUser
    <3>2. Later(pending[q]) \in Rule!TimesLeft(cur[q])
      BY <3>1, TimesLeftType
    <3> QED BY <1>0, <2>1, <2>2, <2>4, <3>2 DEF OwnPath, PendingOf, OwnerOf
  <2>3. CASE ~ (job[q] \in Cycles /\ pc[q] \in {"stopEdit", "stopReinit"})
    BY <1>0, <2>1, <2>3, <2>4 DEF OwnPath, PendingOf, OwnerOf, Later
  <2> QED BY <2>2, <2>3
<1> QED BY <1>6, <1>9, <1>10 DEF PathInv, OwnPath

LEMMA PathInit == Init => PathInv
  BY FreeAssumption, NoReadingListed
     DEF Init, PathInv, OwnPath, Lasting, NoState, Fresh, PathOf, PendingOf, OwnerOf, ListOf,
         Holding, AtUser, Commands

LEMMA PathNext ==
  ASSUME StopInv, PathInv, [Next]_vars
  PROVE  PathInv'
<1> SUFFICES ASSUME ~ stale' PROVE PathInv'
  BY DEF PathInv
<1>0. (\A u \in Users : Lasting(store[u])) /\ \A q \in Procs : OwnPath(q)
  BY StaleStays DEF PathInv
<1>1. CASE UNCHANGED vars \/ OscamRestart
  <2>1. UNCHANGED <<store, lock, pc, job, cur, body, mem, todo, pending>>
    BY <1>1 DEF vars, OscamRestart, locals
  <2> QED BY <1>0, <2>1 DEF PathInv, OwnPath, PathOf, PendingOf, OwnerOf, ListOf, LiftPath,
             JudgePath, CommandPath, Decided, Deciding, Base, Expired, Stopped, Evaluated
<1>3. CASE Tick
  BY <1>3, PathTick
<1>4. ASSUME NEW p \in Procs, Start(p) \/ Work(p) \/ Fault(p)
      PROVE  PathInv'
  <2>1. PathBy(p)
    BY <1>0 DEF PathBy
  <2>2. PathBy(p)'
    <3>1. CASE Start(p) \/ LockCycle(p) \/ LockDisable(p) \/ LockEnable(p) \/ LockReset(p)
      BY <2>1, <3>1, PathLock
    <3>2. CASE ReenableNext(p) \/ ReenableEnd(p) \/ EvaluateEnd(p)
      BY <2>1, <3>2, PathLoops
    <3>3. CASE Observe(p) \/ DecideStop(p)
      BY <2>1, <3>3, PathEvaluate
    <3>4. CASE StopEdit(p) \/ ReinstateEdit(p)
      BY <2>1, <3>4, PathEdit
    <3>5. CASE StopReinit(p) \/ ReinstateReinit(p)
      BY <2>1, <3>5, PathStop, PathReinstate
    <3>6. CASE Fault(p) \/ AccountMissing(p)
      BY <2>1, <3>6, PathAbort
    <3>7. CASE Save(p)
      BY <2>1, <3>7, PathSave
    <3>8. CASE SyncLoad(p) \/ SyncSave(p)
      BY <2>1, <3>8, PathSync
    <3> QED BY <1>4, <3>1, <3>2, <3>3, <3>4, <3>5, <3>6, <3>7, <3>8 DEF Work
  <2>4. ASSUME NEW q \in Procs \ {p} PROVE OwnPath(q)'
    <3>1. /\ pc'[q] = pc[q] /\ job'[q] = job[q] /\ cur'[q] = cur[q]
          /\ body'[q] = body[q] /\ mem'[q] = mem[q] /\ todo'[q] = todo[q]
      BY <1>4, StepsAside DEF Aside, StopInv, AccountInv
    <3>2. pending'[q] = pending[q]
      BY <1>4, PendingAside DEF StopInv, AccountInv
    <3>3. PendingOf(q)' /\ OwnerOf(q)' /\ ListOf(q)'
      BY <1>0, <3>1, <3>2 DEF OwnPath, PendingOf, OwnerOf, ListOf
    <3>4. CASE lock' = q
      <4>1. lock = q /\ lock # p
        BY <1>4, <3>4, LockMoves, FreeAssumption
      <4>2. store' = store
        BY <1>4, <4>1, Outsider DEF StopInv, AccountInv
      <4> QED BY <1>0, <3>1, <3>3, <4>1, <4>2 DEF OwnPath, PathOf, LiftPath, JudgePath,
                 CommandPath, Decided, Deciding, Base, Expired, Stopped, Evaluated
    <3>5. CASE lock' # q
      BY <3>3, <3>5 DEF OwnPath, PathOf
    <3> QED BY <3>4, <3>5
  <2> QED BY <2>2, <2>4 DEF PathInv, PathBy
<1> QED BY <1>1, <1>3, <1>4 DEF Next

-----------------------------------------------------------------------------
(* What one step does to state.json.                                         *)

(* A save's new record is a step of the rule.                                *)
LEMMA DecidedSteps ==
  ASSUME TypeInv, NEW u \in Users, Lasting(store[u]), NEW record,
         Decided(u, record) \/ record = Shut(store[u]) \/ record = Fresh
  PROVE  Rule!Step(u, store[u], record)
<1>1. CASE record = store[u] \/ record = Shut(store[u]) \/ record = Fresh
  BY <1>1, SameRule DEF Rule!Step, Rule!Disable, Rule!Clear, Shut
<1>2. ASSUME NEW b \in UserState, Base(u, b), Outcome(u, b, record)
      PROVE  Rule!Step(u, store[u], record)
  <2>1. record \in Rule!Outcomes(u, b)
    BY <1>2, OutcomeIs
  <2>2. Rule!Cycle(u, store[u], record)
    BY <1>2, <2>1, SameRule DEF Rule!Cycle, Base, Expired, Stopped
  <2> QED BY <2>2 DEF Rule!Step
<1> QED BY <1>1, <1>2 DEF Decided

LEMMA TickSteps ==
  ASSUME TypeInv, Tick, NEW u \in Users
  PROVE  Rule!Step(u, store[u], store'[u])
<1>1. store'[u] = AgeOf(store[u]) /\ store[u] \in UserState
  BY AgedIs DEF Tick, TypeInv, TypeOK
<1>2. store[u].until \in Minutes
  BY <1>1 DEF UserState
<1>3. CASE store[u].until \in {NoTime, 0}
  BY <1>1, <1>3, AgeStill DEF Rule!Step
<1>4. CASE store[u].until \notin {NoTime, 0}
  <2>1. store[u].until \in Nat /\ store[u].until > 0
    BY <1>2, <1>4 DEF Minutes
  <2>2. AgeOf(store[u]) = [store[u] EXCEPT !.until = @ - 1]
    BY <1>4 DEF AgeOf, Later
  <2> QED BY <1>1, <1>4, <2>1, <2>2 DEF Rule!Step, Rule!Minute
<1> QED BY <1>3, <1>4

(* Only a save, the passing of time and a stale sync write to state.json.    *)
LEMMA Writers ==
  ASSUME [Next]_vars, ~ stale'
  PROVE  store' = store \/ Tick \/ \E p \in Procs : Save(p)
<1>1. CASE UNCHANGED vars \/ OscamRestart
  BY <1>1 DEF vars, OscamRestart
<1>2. ASSUME NEW p \in Procs, Start(p) \/ Fault(p) \/ (Work(p) /\ ~ Save(p))
      PROVE  store' = store
  BY <1>2, SyncLeaves
     DEF Start, StartCycle, StartCommand, StartSaveInstance, Work, Fault, ReinitFails, Crash,
         LockCycle, LockDisable, LockEnable, LockReset, Acquire, ReenableNext, ReenableEnd,
         Observe, DecideStop, EvaluateEnd, StopEdit, ReinstateEdit, EditAccount,
         AccountMissing, StopReinit, ReinstateReinit, shared
<1> QED BY <1>1, <1>2 DEF Next

LEMMA RuleInit == Init => Rule!Init
  BY SameRule DEF Init, Rule!Init, NoState

LEMMA RuleNext ==
  ASSUME StopInv, PathInv, StopInv', [Next]_vars, ~ stale'
  PROVE  [Rule!Next]_store
<1>1. TypeInv /\ store' \in [Users -> UserState]
  BY DEF StopInv, AccountInv, TypeInv, TypeOK
<1>2. (\A u \in Users : Lasting(store[u])) /\ \A p \in Procs : OwnPath(p)
  BY StaleStays DEF PathInv
<1>3. CASE Tick
  BY <1>1, <1>3, TickSteps, SameRule DEF Rule!Next
<1>4. ASSUME NEW p \in Procs, Save(p)
      PROVE  Rule!Next
  <2>1. PathBy(p)
    BY <1>2 DEF PathBy
  <2>2. ASSUME NEW u \in Users PROVE Rule!Step(u, store[u], store'[u])
    <3>1. /\ store' = mem[p]
          /\ \/ Decided(u, mem[p][u]) \/ mem[p][u] = Shut(store[u]) \/ mem[p][u] = Fresh
      BY <1>4, <2>1, SaveDecides
    <3> QED BY <1>1, <1>2, <3>1, DecidedSteps
  <2> QED BY <1>1, <2>2, SameRule DEF Rule!Next
<1> QED BY <1>1, <1>3, <1>4, Writers

(* The invariant the two theorems below rest on.                             *)
RuleInv == StopInv /\ PathInv

LEMMA RuleInvInit == Init => RuleInv
  BY StopInvInit, PathInit DEF RuleInv

LEMMA RuleInvNext ==
  ASSUME RuleInv, [Next]_vars
  PROVE  RuleInv'
  BY StopInvNext, PathNext DEF RuleInv

(* The jobs that read and write state.json under its lock only; the others   *)
(* end with the sync of the web UI.                                          *)
LockedJobs == {"run"} \cup Commands

NoSync == ~ stale /\ \A p \in Procs : pc[p] \notin {"sync", "syncSave"}

LEMMA NoSyncNext ==
  ASSUME Jobs \subseteq LockedJobs, TypeInv, NoSync, [Next]_vars
  PROVE  NoSync'
<1> USE DEF TypeInv, TypeOK, Goto, Return
<1>1. CASE UNCHANGED vars \/ OscamRestart \/ Tick
  BY <1>1 DEF vars, OscamRestart, Tick, locals, ghosts, NoSync
<1>2. ASSUME NEW p \in Procs, Start(p) \/ Work(p) \/ Fault(p)
      PROVE  stale' = stale /\ pc'[p] \notin {"sync", "syncSave"}
  <2>1. CASE Start(p)
    BY <2>1 DEF Start, StartCycle, StartCommand, StartSaveInstance, LockedJobs, Commands,
                ghosts
  <2>2. CASE LockCycle(p) \/ LockDisable(p) \/ LockEnable(p) \/ LockReset(p)
    BY <2>2 DEF LockCycle, LockDisable, LockEnable, LockReset, Acquire
  <2>3. CASE ReenableNext(p) \/ ReenableEnd(p) \/ EvaluateEnd(p)
    BY <2>3 DEF ReenableNext, ReenableEnd, EvaluateEnd, ghosts
  <2>4. CASE Observe(p) \/ DecideStop(p)
    BY <2>4 DEF Observe, DecideStop
  <2>5. CASE StopEdit(p) \/ ReinstateEdit(p) \/ StopReinit(p) \/ ReinstateReinit(p)
    BY <2>5 DEF StopEdit, ReinstateEdit, EditAccount, StopReinit, ReinstateReinit, ghosts
  <2>6. CASE Fault(p) \/ AccountMissing(p)
    BY <2>6 DEF Fault, ReinitFails, Crash, AccountMissing, Abort
  <2>7. CASE Save(p)
    BY <2>7 DEF Save, LockedJobs, Commands
  <2>8. CASE SyncLoad(p) \/ SyncSave(p)
    BY <2>8 DEF SyncLoad, SyncSave, NoSync
  <2> QED BY <1>2, <2>1, <2>2, <2>3, <2>4, <2>5, <2>6, <2>7, <2>8 DEF Work
<1>3. ASSUME NEW p \in Procs, Start(p) \/ Work(p) \/ Fault(p)
      PROVE  NoSync'
  BY <1>2, <1>3, StepsAside DEF Aside, NoSync
<1> QED BY <1>1, <1>3 DEF Next

(* ReshareControl implements Monitoring with state.json as its records, for  *)
(* any number of users, sessions and failures, as long as every job keeps to *)
(* the lock: every change of a record is the evaluation of one response, one *)
(* expiry, one operator command or a minute.                                 *)
THEOREM RuleIsFollowed ==
  ASSUME Jobs \subseteq LockedJobs
  PROVE  Spec => FollowsRule
<1>1. RuleInv /\ NoSync /\ [Next]_vars => RuleInv' /\ NoSync'
  BY RuleInvNext, NoSyncNext DEF RuleInv, StopInv, AccountInv
<1>2. RuleInv /\ RuleInv' /\ NoSync' /\ [Next]_vars => [Rule!Next]_store
  BY RuleNext DEF RuleInv, NoSync
<1>3. Init => RuleInv /\ NoSync
  BY RuleInvInit DEF Init, NoSync
<1> QED BY RuleInit, <1>1, <1>2, <1>3, PTL DEF Spec, FollowsRule, Rule!Spec

(* A stop without an end is lifted only by the save of an operator's enable  *)
(* or reset of that user, with any jobs and whatever fails, until a sync of  *)
(* the web UI writes back a copy that was stale.  That sync can lift it: it  *)
(* is the step this theorem excludes, by the condition of the property.      *)
THEOREM EndlessStopSticks == Spec => IndefiniteStopSticks
<1> DEFINE Sticks ==
      ~ stale' =>
        \A u \in Users :
           Stopped(store, u) /\ ~ Temporary(store, u) /\ ~ Stopped(store', u) =>
               \E p \in Sessions :
                   pc[p] = "save" /\ job[p] \in {"enable", "reset"} /\ cur[p] = u
<1>1. RuleInv /\ [Next]_vars => RuleInv'
  BY RuleInvNext
<1>2. RuleInv /\ [Next]_vars => [Sticks]_vars
  <2> SUFFICES ASSUME RuleInv, [Next]_vars, ~ stale',
                      NEW u \in Users, Stopped(store, u), ~ Temporary(store, u),
                      ~ Stopped(store', u)
               PROVE  \E p \in Sessions :
                         pc[p] = "save" /\ job[p] \in {"enable", "reset"} /\ cur[p] = u
    OBVIOUS
  <2>1. TypeInv /\ store[u].until = NoTime
    BY DEF RuleInv, StopInv, AccountInv, Temporary
  <2>2. ~ Tick /\ store' # store
    BY <2>1, TickKeeps DEF Stopped
  <2>3. PICK p \in Procs : Save(p)
    BY <2>1, <2>2, Writers
  <2>4. PathBy(p)
    BY StaleStays DEF RuleInv, PathInv, PathBy
  <2>5. ~ Decided(u, mem[p][u]) /\ mem[p][u] # Shut(store[u])
    <3>1. store' = mem[p]
      BY <2>3, <2>4, SaveDecides DEF RuleInv
    <3>2. mem[p][u].status # "stopped" /\ store[u].status = "stopped"
      BY <3>1 DEF Stopped
    <3>3. Shut(store[u]).status = "stopped"
      BY <2>1 DEF Shut, TypeInv, TypeOK, UserState
    <3>4. \A b : ~ Base(u, b)
      BY <2>1, <3>2, NoTimeAssumption DEF Base, Expired, Stopped
    <3> QED BY <3>2, <3>3, <3>4 DEF Decided
  <2>6. pc[p] = "save" /\ p \in Sessions /\ job[p] \in {"enable", "reset"} /\ cur[p] = u
    BY <2>3, <2>4, <2>5, SaveDecides DEF RuleInv, Save
  <2> QED BY <2>6
<1> QED BY RuleInvInit, <1>1, <1>2, PTL DEF Spec, IndefiniteStopSticks

=============================================================================
