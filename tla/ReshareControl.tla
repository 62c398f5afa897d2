--------------------------- MODULE ReshareControl ---------------------------
(***************************************************************************)
(* One OSCam instance under control: the monitoring cycle (poller.py), the *)
(* operator commands of the CLI and of the web UI (cli.py, webapp.py), the *)
(* state file and its advisory lock (state.py), the oscam.user file        *)
(* (enforce.py) and the OSCam server, which applies oscam.user when it is  *)
(* told to reinit.                                                         *)
(*                                                                         *)
(* A process is the systemd timer's `run-all` (Timer) or a session: a CLI  *)
(* call or a web request thread.  Sessions may overlap with each other and *)
(* with the timer.  Every access a process makes to a shared resource is   *)
(* an action of its own, so that others can run in between.                *)
(***************************************************************************)
EXTENDS Strike, Sequences

CONSTANTS
    Users,         \* the user names of the WebIF and of the operators
    Accounts,      \* the users with an [account] block in oscam.user
    Sessions,      \* CLI calls and web request threads
    Timer,         \* the systemd oneshot service
    Jobs,          \* the jobs the processes run: a subset of AllJobs
    Action,        \* the policy of each user
    StopDuration,  \* the effective stop_duration_min of each user
    Entries,       \* bound: the readings one response has of each user
    MaxStrikes,    \* bound: no "over" reading is served from here on
    MaxFaults,     \* bound: failed reinits and crashes
    MaxRequests,   \* bound: jobs the sessions start
    Free,          \* the lock's value when nobody holds it
    NoUser         \* a process that is not working on one user

Cycles   == {"run", "run_instance"}
Commands == {"disable", "enable", "reset"}
AllJobs  == Cycles \cup Commands \cup {"save_instance"}
Procs    == Sessions \cup {Timer}

ASSUME JobsAssumption == Jobs \subseteq AllJobs
ASSUME AccountsAssumption == Accounts \subseteq Users
ASSUME TimerAssumption == Timer \notin Sessions
ASSUME FreeAssumption == Free \notin Procs
ASSUME NoUserAssumption == NoUser \notin Users
ASSUME PolicyAssumption ==
    Action \in [Users -> Actions] /\ StopDuration \in [Users -> Nat]
ASSUME EntriesAssumption == Entries \in [Users -> Nat]
ASSUME BoundsAssumption ==
    MaxStrikes \in Nat /\ MaxFaults \in Nat /\ MaxRequests \in Nat

VARIABLES
    store,      \* state.json: the record of each user
    lock,       \* the flock on the state directory: its holder, or Free
    disabled,   \* oscam.user: the disabled flag of each account
    applied,    \* OSCam: the flag it read at its last reinit or restart
    audit,      \* audit log: the last stop or reinstate recorded as "ok"
    pc,         \* where each process is
    job,        \* what it is doing
    cur,        \* the user it is working on
    body,       \* the readings of the response that a cycle has still to
                \* evaluate, in the order of each user's entries
    mem,        \* the state a process has loaded and updates in memory
    todo,       \* the users its loop has still to visit
    pending,    \* the stopped_until a stop in progress will record
    faults,     \* failures so far
    requests,   \* session jobs so far
    lost,       \* history: a critical section ended, without its save,
                \* after it had begun to stop or to reinstate an account
    stale,      \* history: a sync has written back a state.json that
                \* another process had changed in the meantime
    over,       \* history: each user's "over" readings since a reading at or
                \* below the limit, or the end of a stop, was last saved
    broken,     \* history: the users of which the critical section has met
                \* such a reading or end that is not saved yet,
    tail,       \* history: and their "over" readings since then
    alerts      \* history: alerts sent since the alert flag was last reset

shared == <<store, lock, disabled, applied, audit>>
locals == <<pc, job, cur, body, mem, todo, pending>>
limits == <<faults, requests>>
streaks == <<over, broken, tail>>
ghosts == <<lost, stale, over, broken, tail, alerts>>
vars   == <<store, lock, disabled, applied, audit,
            pc, job, cur, body, mem, todo, pending,
            faults, requests, lost, stale, over, broken, tail, alerts>>

NoReading == [u \in Users |-> <<>>]
NoState   == [u \in Users |-> Fresh]
NoStreak  == [u \in Users |-> 0]

Init ==
    /\ store = NoState
    /\ lock = Free
    /\ disabled = [u \in Users |-> FALSE]
    /\ applied = [u \in Users |-> FALSE]
    /\ audit = [u \in Users |-> "none"]
    /\ pc = [p \in Procs |-> "idle"]
    /\ job = [p \in Procs |-> "none"]
    /\ cur = [p \in Procs |-> NoUser]
    /\ body = [p \in Procs |-> NoReading]
    /\ mem = [p \in Procs |-> NoState]
    /\ todo = [p \in Procs |-> {}]
    /\ pending = [p \in Procs |-> NoTime]
    /\ faults = 0
    /\ requests = 0
    /\ lost = FALSE
    /\ stale = FALSE
    /\ over = NoStreak
    /\ broken = {}
    /\ tail = NoStreak
    /\ alerts = [u \in Users |-> 0]

-----------------------------------------------------------------------------
(* Helpers.                                                                 *)

(* The process goes on at `label`, nothing else of its own changes.         *)
Goto(p, label) == pc' = [pc EXCEPT ![p] = label]

(* The process has returned: its local variables are gone.                  *)
Return(p) ==
    /\ Goto(p, "idle")
    /\ job' = [job EXCEPT ![p] = "none"]
    /\ cur' = [cur EXCEPT ![p] = NoUser]
    /\ body' = [body EXCEPT ![p] = NoReading]
    /\ mem' = [mem EXCEPT ![p] = NoState]
    /\ todo' = [todo EXCEPT ![p] = {}]
    /\ pending' = [pending EXCEPT ![p] = NoTime]

Stopped(state, u)   == state[u].status = "stopped"
Temporary(state, u) == Stopped(state, u) /\ state[u].until # NoTime

(* Mutant: a stop without an end counts as expired.                         *)
ExpiredOrEndless(state, u) == Stopped(state, u) /\ state[u].until \in {0, NoTime}

Expired(state, u) == Stopped(state, u) /\ state[u].until = 0

(* p has stopped or reinstated an account and state.json does not say so.   *)
Unsaved(p) ==
    /\ lock = p
    /\ \/ pc[p] \in {"stopReinit", "reinstateReinit"}
       \/ \E u \in Users : Stopped(mem[p], u) # Stopped(store, u)

(* The history of the streaks: u's is broken, what the critical section     *)
(* has seen of it counts once it is saved, and is forgotten otherwise.      *)
Break(u) ==
    /\ broken' = broken \cup {u}
    /\ tail' = [tail EXCEPT ![u] = 0]
    /\ UNCHANGED over

Forget == broken' = {} /\ tail' = NoStreak

Streak(u) == IF u \in broken THEN tail[u] ELSE over[u]

(* An exception or the death of the process: what it had in memory is lost, *)
(* and the lock is released if it held it.                                  *)
Abort(p) ==
    /\ Return(p)
    /\ lock' = IF lock = p THEN Free ELSE lock
    /\ lost' = (lost \/ Unsaved(p))
    /\ IF lock = p THEN Forget ELSE UNCHANGED <<broken, tail>>

(* One more session job, within the bound; the timer's are not counted.     *)
CountRequest(p) ==
    /\ p \in Sessions => requests < MaxRequests
    /\ requests' = IF p \in Sessions THEN requests + 1 ELSE requests

(* A history counter that stops at the value the properties ask about.      *)
CountTo(limit, n) == IF n < limit THEN n + 1 ELSE n

(* Mutant: no duration means an immediate end.                              *)
StoppedUntilNow(u) == StopDuration[u]

(* _stopped_until: a duration of 0 means until enabled by hand.             *)
StoppedUntil(u) == IF StopDuration[u] = 0 THEN NoTime ELSE StopDuration[u]

(* What the WebIF may answer: the readings of each user, one for each entry *)
(* that lists it with a number.  OSCam reports none of an account it has    *)
(* disabled, and a failed fetch is a response without any.                  *)
Listings(n) == UNION {[1 .. k -> {"over", "under"}] : k \in 0 .. n}

Responses ==
    {b \in [Users -> UNION {Listings(Entries[u]) : u \in Users}] :
        \A u \in Users :
            /\ b[u] \in Listings(IF applied[u] THEN 0 ELSE Entries[u])
            /\ store[u].strikes >= MaxStrikes =>
                   \A i \in DOMAIN b[u] : b[u][i] = "under"}

-----------------------------------------------------------------------------
(* Starting a job.                                                          *)

(* run_cycle fetches the readings before it takes the lock.                 *)
StartCycle(p) ==
    /\ pc[p] = "idle"
    /\ CountRequest(p)
    /\ \E j \in Jobs \cap (IF p = Timer THEN {"run"} ELSE Cycles) :
           job' = [job EXCEPT ![p] = j]
    /\ \E b \in Responses : body' = [body EXCEPT ![p] = b]
    /\ Goto(p, "lock")
    /\ UNCHANGED <<shared, cur, mem, todo, pending, faults, ghosts>>

(* An operator asks for one user to be disabled, enabled or reset.          *)
StartCommand(p) ==
    /\ pc[p] = "idle"
    /\ p \in Sessions
    /\ CountRequest(p)
    /\ \E j \in Jobs \cap Commands : job' = [job EXCEPT ![p] = j]
    /\ \E u \in Users : cur' = [cur EXCEPT ![p] = u]
    /\ Goto(p, "lock")
    /\ UNCHANGED <<shared, body, mem, todo, pending, faults, ghosts>>

(* The web UI saves an instance, which ends with the account sync.          *)
StartSaveInstance(p) ==
    /\ pc[p] = "idle"
    /\ p \in Sessions
    /\ CountRequest(p)
    /\ "save_instance" \in Jobs
    /\ job' = [job EXCEPT ![p] = "save_instance"]
    /\ Goto(p, "sync")
    /\ UNCHANGED <<shared, cur, body, mem, todo, pending, faults, ghosts>>

-----------------------------------------------------------------------------
(* Entering the critical section: take the lock, load state.json.           *)

(* Mutant: the lock does not exclude.                                       *)
AcquireShared(p) ==
    /\ pc[p] = "lock"
    /\ lock' = p
    /\ UNCHANGED <<store, disabled, applied, audit, job, cur, body, pending,
                   limits, lost, stale, alerts>>

Acquire(p) ==
    /\ pc[p] = "lock"
    /\ lock = Free
    /\ lock' = p
    /\ UNCHANGED <<store, disabled, applied, audit, job, cur, body, pending,
                   limits, lost, stale, alerts>>

(* A cycle first looks for the temporary stops that have expired.           *)
LockCycle(p) ==
    /\ Acquire(p)
    /\ job[p] \in Cycles
    /\ mem' = [mem EXCEPT ![p] = store]
    /\ todo' = [todo EXCEPT ![p] = {u \in Users : Expired(store, u)}]
    /\ Goto(p, "reenable")
    /\ UNCHANGED streaks

LockDisable(p) ==
    /\ Acquire(p)
    /\ job[p] = "disable"
    /\ mem' = [mem EXCEPT ![p] = store]
    /\ Goto(p, "stopEdit")
    /\ UNCHANGED <<todo, streaks>>

LockEnable(p) ==
    /\ Acquire(p)
    /\ job[p] = "enable"
    /\ mem' = [mem EXCEPT ![p] = store]
    /\ Goto(p, "reinstateEdit")
    /\ UNCHANGED <<todo, streaks>>

(* Mutant: Reset flag leaves the strikes where they are.                    *)
LockResetKeepsStrikes(p) ==
    /\ Acquire(p)
    /\ job[p] = "reset"
    /\ mem' = [mem EXCEPT ![p] = [store EXCEPT ![cur[p]].status = "ok",
                                              ![cur[p]].until = NoTime]]
    /\ Goto(p, "save")
    /\ Break(cur[p])
    /\ UNCHANGED todo

(* Reset flag: the record is cleared, the account is not touched.           *)
LockReset(p) ==
    /\ Acquire(p)
    /\ job[p] = "reset"
    /\ mem' = [mem EXCEPT ![p] = [store EXCEPT ![cur[p]] = Fresh]]
    /\ Goto(p, "save")
    /\ Break(cur[p])
    /\ UNCHANGED todo

-----------------------------------------------------------------------------
(* The loops of a cycle.                                                    *)

(* _reenable_expired_stops picks the next expired stop.                     *)
ReenableNext(p) ==
    /\ pc[p] = "reenable"
    /\ \E u \in todo[p] :
           /\ cur' = [cur EXCEPT ![p] = u]
           /\ todo' = [todo EXCEPT ![p] = todo[p] \ {u}]
    /\ Goto(p, "reinstateEdit")
    /\ UNCHANGED <<shared, job, body, mem, pending, limits, ghosts>>

(* All expired stops lifted: every user that is not stopped is evaluated.   *)
ReenableEnd(p) ==
    /\ pc[p] = "reenable"
    /\ todo[p] = {}
    /\ todo' = [todo EXCEPT ![p] = {u \in Users : ~ Stopped(mem[p], u)}]
    /\ Goto(p, "evaluate")
    /\ UNCHANGED <<shared, job, cur, body, mem, pending, limits, ghosts>>

(* The next reading of a user; none are left if its entries have no number, *)
(* if the response does not list it or if there is no response.             *)
NextReading(p, u) == IF body[p][u] = <<>> THEN "none" ELSE Head(body[p][u])

Rest(list) == IF list = <<>> THEN list ELSE Tail(list)

(* The history of u's streak after this reading.                            *)
Count(u, reading) ==
    CASE reading = "over" ->
           /\ over' = [over EXCEPT ![u] = CountTo(StrikeCount, @)]
           /\ tail' = IF u \in broken
                      THEN [tail EXCEPT ![u] = CountTo(StrikeCount, @)]
                      ELSE tail
           /\ UNCHANGED broken
      [] reading = "under" -> Break(u)
      [] reading = "none"  -> UNCHANGED streaks

(* A reading that stops nobody: record it and alert if the limit is         *)
(* crossed.  The user's further entries are still to come.                  *)
Observe(p) ==
    /\ pc[p] = "evaluate"
    /\ \E u \in todo[p] :
         LET reading == NextReading(p, u)
             after   == NextState(reading, mem[p][u])
             crossed == CrossedThreshold(mem[p][u], after)
         IN  /\ ~ ShouldStop(reading, mem[p][u], Action[u])
             /\ mem' = [mem EXCEPT ![p][u] = after]
             /\ body' = [body EXCEPT ![p][u] = Rest(@)]
             /\ todo' = IF Len(body[p][u]) > 1 THEN todo
                        ELSE [todo EXCEPT ![p] = @ \ {u}]
             /\ Count(u, reading)
             /\ alerts' =
                  IF reading = "under" THEN [alerts EXCEPT ![u] = 0]
                  ELSE IF ShouldNotify(Action[u], crossed, FALSE)
                  THEN [alerts EXCEPT ![u] = CountTo(2, alerts[u])]
                  ELSE alerts
    /\ UNCHANGED <<shared, pc, job, cur, pending, limits, lost, stale>>

(* A reading that stops the user: go and disable its account.  Its further  *)
(* entries are skipped.                                                     *)
DecideStop(p) ==
    /\ pc[p] = "evaluate"
    /\ \E u \in todo[p] :
         LET reading == NextReading(p, u)
         IN  /\ ShouldStop(reading, mem[p][u], Action[u])
             /\ cur' = [cur EXCEPT ![p] = u]
             /\ mem' = [mem EXCEPT ![p][u] = NextState(reading, mem[p][u])]
             /\ pending' = [pending EXCEPT ![p] = StoppedUntil(u)]
             /\ body' = [body EXCEPT ![p][u] = <<>>]
             /\ todo' = [todo EXCEPT ![p] = @ \ {u}]
             /\ Count(u, reading)
    /\ Goto(p, "stopEdit")
    /\ UNCHANGED <<shared, job, limits, lost, stale, alerts>>

EvaluateEnd(p) ==
    /\ pc[p] = "evaluate"
    /\ todo[p] = {}
    /\ Goto(p, "save")
    /\ UNCHANGED <<shared, job, cur, body, mem, todo, pending, limits, ghosts>>

-----------------------------------------------------------------------------
(* stop_account and reinstate_account: edit oscam.user, reinit OSCam,       *)
(* record the outcome.                                                      *)

EditAccount(p, from, to, flag) ==
    /\ pc[p] = from
    /\ cur[p] \in Accounts
    /\ disabled' = [disabled EXCEPT ![cur[p]] = flag]
    /\ Goto(p, to)
    /\ UNCHANGED <<store, lock, applied, audit,
                   job, cur, body, mem, todo, pending, limits, ghosts>>

StopEdit(p) == EditAccount(p, "stopEdit", "stopReinit", TRUE)

(* Mutant: the flag is written the wrong way round.                         *)
ReinstateEditDisables(p) == EditAccount(p, "reinstateEdit", "reinstateReinit", TRUE)

ReinstateEdit(p) == EditAccount(p, "reinstateEdit", "reinstateReinit", FALSE)

(* set_account_disabled raises when oscam.user has no such account.         *)
AccountMissing(p) ==
    /\ pc[p] \in {"stopEdit", "reinstateEdit"}
    /\ cur[p] \notin Accounts
    /\ Abort(p)
    /\ UNCHANGED <<store, disabled, applied, audit, limits, stale, over, alerts>>

(* Mutant: OSCam is not told.                                               *)
NoReinit == UNCHANGED applied

(* The WebIF's reinit request: OSCam reads oscam.user again.                *)
Reinit == applied' = disabled

(* OSCam has re-read oscam.user: the user is stopped, audited and, in a     *)
(* cycle, alerted about.                                                    *)
StopReinit(p) ==
    /\ pc[p] = "stopReinit"
    /\ Reinit
    /\ audit' = [audit EXCEPT ![cur[p]] = "stop"]
    /\ mem' = [mem EXCEPT ![p][cur[p]] =
                  [@ EXCEPT !.status = "stopped", !.until = pending[p]]]
    /\ alerts' =
         IF job[p] \in Cycles /\ ShouldNotify(Action[cur[p]], FALSE, TRUE)
         THEN [alerts EXCEPT ![cur[p]] = CountTo(2, alerts[cur[p]])]
         ELSE alerts
    /\ Goto(p, IF job[p] \in Cycles THEN "evaluate" ELSE "save")
    /\ pending' = [pending EXCEPT ![p] = NoTime]
    /\ UNCHANGED <<store, lock, disabled, job, cur, body, todo,
                   limits, lost, stale, streaks>>

(* OSCam has re-read oscam.user: the user starts afresh.                    *)
ReinstateReinit(p) ==
    /\ pc[p] = "reinstateReinit"
    /\ Reinit
    /\ audit' = [audit EXCEPT ![cur[p]] = "reinstate"]
    /\ mem' = [mem EXCEPT ![p][cur[p]] = Fresh]
    /\ Break(cur[p])
    /\ alerts' = [alerts EXCEPT ![cur[p]] = 0]
    /\ Goto(p, IF job[p] \in Cycles THEN "reenable" ELSE "save")
    /\ UNCHANGED <<store, lock, disabled, job, cur, body, todo, pending,
                   limits, lost, stale>>

(* The reinit request fails: OSCam has re-read the file, or it has not.     *)
ReinitFails(p) ==
    /\ pc[p] \in {"stopReinit", "reinstateReinit"}
    /\ faults < MaxFaults
    /\ faults' = faults + 1
    /\ applied' \in {applied, disabled}
    /\ Abort(p)
    /\ UNCHANGED <<store, disabled, audit, requests, stale, over, alerts>>

-----------------------------------------------------------------------------
(* Leaving the critical section, and the account sync of the web UI.        *)

(* state.json is replaced atomically, then the lock is released.            *)
Save(p) ==
    /\ pc[p] = "save"
    /\ store' = mem[p]
    /\ lock' = Free
    /\ over' = [u \in Users |-> Streak(u)]
    /\ Forget
    /\ alerts' = IF job[p] = "reset" THEN [alerts EXCEPT ![cur[p]] = 0]
                 ELSE alerts
    /\ IF job[p] = "run_instance"
       THEN /\ Goto(p, "sync")
            /\ cur' = [cur EXCEPT ![p] = NoUser]
            /\ body' = [body EXCEPT ![p] = NoReading]
            /\ mem' = [mem EXCEPT ![p] = NoState]
            /\ UNCHANGED <<job, todo, pending>>
       ELSE Return(p)
    /\ UNCHANGED <<disabled, applied, audit, limits, lost, stale>>

(* _sync_local_account_users loads state.json without the lock ...          *)
SyncLoad(p) ==
    /\ pc[p] = "sync"
    /\ IF Accounts = {}   \* no readable oscam.user: nothing to sync
       THEN Return(p)
       ELSE /\ mem' = [mem EXCEPT ![p] = store]
            /\ Goto(p, "syncSave")
            /\ UNCHANGED <<job, cur, body, todo, pending>>
    /\ UNCHANGED <<shared, limits, ghosts>>

(* ... adds a fresh record for each new account, and writes it back.        *)
SyncSave(p) ==
    /\ pc[p] = "syncSave"
    /\ store' = mem[p]
    /\ stale' = (stale \/ mem[p] # store)
    /\ Return(p)
    /\ UNCHANGED <<lock, disabled, applied, audit, limits, lost, streaks, alerts>>

-----------------------------------------------------------------------------
(* The environment.                                                         *)

Crash(p) ==
    /\ pc[p] # "idle"
    /\ faults < MaxFaults
    /\ faults' = faults + 1
    /\ Abort(p)
    /\ UNCHANGED <<store, disabled, applied, audit, requests, stale, over,
                   alerts>>

OscamRestart ==
    /\ applied' = disabled
    /\ UNCHANGED <<store, lock, disabled, audit, locals, limits, ghosts>>

(* A minute passes: every stop has one minute less to run.                  *)
Later(t) == IF t = NoTime \/ t = 0 THEN t ELSE t - 1
Aged(state) == [u \in Users |-> [state[u] EXCEPT !.until = Later(@)]]

Tick ==
    /\ store' = Aged(store)
    /\ mem' = [p \in Procs |-> Aged(mem[p])]
    /\ pending' = [p \in Procs |-> Later(pending[p])]
    /\ UNCHANGED <<lock, disabled, applied, audit,
                   pc, job, cur, body, todo, limits, ghosts>>

-----------------------------------------------------------------------------

Start(p) == StartCycle(p) \/ StartCommand(p) \/ StartSaveInstance(p)

(* What a process does of itself once it has a job.                         *)
Work(p) ==
    \/ LockCycle(p) \/ LockDisable(p) \/ LockEnable(p) \/ LockReset(p)
    \/ ReenableNext(p) \/ ReenableEnd(p)
    \/ Observe(p) \/ DecideStop(p) \/ EvaluateEnd(p)
    \/ StopEdit(p) \/ ReinstateEdit(p) \/ AccountMissing(p)
    \/ StopReinit(p) \/ ReinstateReinit(p)
    \/ Save(p) \/ SyncLoad(p) \/ SyncSave(p)

Fault(p) == ReinitFails(p) \/ Crash(p)

Next ==
    \/ \E p \in Procs : Start(p) \/ Work(p) \/ Fault(p)
    \/ OscamRestart
    \/ Tick

Spec == Init /\ [][Next]_vars

(* Time passes, systemd keeps starting the timer's cycle, and a process     *)
(* that can take a step in its job eventually does.  Nobody is obliged to   *)
(* start a session, and nothing fails by obligation.                        *)
Fairness ==
    /\ WF_vars(Tick)
    /\ WF_vars(StartCycle(Timer))
    /\ \A p \in Procs : WF_vars(Work(p))

FairSpec == Spec /\ Fairness

-----------------------------------------------------------------------------
(* Properties.                                                              *)

Labels == {"idle", "lock", "reenable", "evaluate", "stopEdit", "stopReinit",
           "reinstateEdit", "reinstateReinit", "save", "sync", "syncSave"}

(* Every variable has its type.                                             *)
TypeOK ==
    /\ store \in [Users -> UserState]
    /\ lock \in Procs \cup {Free}
    /\ disabled \in [Users -> BOOLEAN]
    /\ applied \in [Users -> BOOLEAN]
    /\ audit \in [Users -> {"none", "stop", "reinstate"}]
    /\ pc \in [Procs -> Labels]
    /\ job \in [Procs -> Jobs \cup {"none"}]
    /\ cur \in [Procs -> Users \cup {NoUser}]
    /\ body \in [Procs -> [Users -> Seq({"over", "under"})]]
    /\ mem \in [Procs -> [Users -> UserState]]
    /\ todo \in [Procs -> SUBSET Users]
    /\ pending \in [Procs -> Minutes]
    /\ faults \in Nat
    /\ requests \in Nat
    /\ lost \in BOOLEAN
    /\ stale \in BOOLEAN
    /\ over \in [Users -> Nat]
    /\ broken \subseteq Users
    /\ tail \in [Users -> Nat]
    /\ alerts \in [Users -> Nat]

(* Whenever the lock is free, oscam.user, the flag OSCam works with and the *)
(* audit log agree on every account: the edit, the reinit and the audit     *)
(* record of enforce.py are never half done, unless one of them failed.     *)
AccountAudited ==
    lock = Free /\ ~ lost =>
        \A u \in Users :
            /\ applied[u] = disabled[u]
            /\ audit[u] = "stop" <=> disabled[u]

(* Whenever the lock is free, a user is stopped in state.json exactly when  *)
(* its account is disabled: no cycle and no command saves a record that     *)
(* another one's stop or reinstatement has made out of date.                *)
RecordMatchesAccount ==
    lock = Free /\ ~ lost => \A u \in Users : Stopped(store, u) <=> disabled[u]

(* The same with the syncs of the web UI running: what goes wrong between   *)
(* state.json and the accounts goes wrong only when a sync overwrites, with *)
(* the copy it loaded without the lock, what another process has saved.     *)
RecordMatchesUnlessStale == ~ stale => RecordMatchesAccount

(* Whatever failed earlier, a cycle, a disable or an enable that is about   *)
(* to save a change of a user's stop has made that change in oscam.user and *)
(* in OSCam (state.json is saved last, only when enforce.py succeeded).     *)
SavedAsDone ==
    \A p \in Procs, u \in Users :
        /\ pc[p] = "save"
        /\ job[p] # "reset"
        /\ Stopped(mem[p], u) # Stopped(store, u)
        => disabled[u] = Stopped(mem[p], u) /\ applied[u] = disabled[u]

(* A user whose last strike_count readings, or more, were over the limit is *)
(* flagged or stopped in state.json by the time the lock is free, unless a  *)
(* stale copy has been written over the record.                             *)
Detected ==
    lock = Free /\ ~ stale =>
        \A u \in Users : over[u] = StrikeCount => store[u].status # "ok"

(* A cycle disables an account only after strike_count "over" readings of   *)
(* that user have been evaluated, with no reading at or below the limit, no *)
(* reset and no reinstatement in between, whatever failed or died: the      *)
(* streak is kept across cycles by state.json.  The readings need not come  *)
(* from as many cycles (FlaggedAfterCycles of PollCycle).                   *)
StopEarned ==
    ~ stale =>
        \A p \in Procs :
            job[p] \in Cycles /\ pc[p] = "stopEdit" => Streak(cur[p]) = StrikeCount

(* Between two resets of the alert flag a user's operator is alerted at     *)
(* most once (notify.py and crossed_threshold in poller.py), unless a stale *)
(* copy has been written over the record of the streak.                     *)
AlertedOnce == ~ stale => \A u \in Users : alerts[u] <= 1

(* A stop without an end (a manual one, or a policy with duration 0) is     *)
(* lifted only by an operator's enable or reset: no cycle takes it back,    *)
(* and no sync either, except with a stale copy (webapp.py loads and saves  *)
(* state.json without the lock there; RecordMatchesAccount tells of it).    *)
IndefiniteStopSticks ==
    [][~ stale' =>
         \A u \in Users :
            Stopped(store, u) /\ ~ Temporary(store, u) /\ ~ Stopped(store', u) =>
                \E p \in Sessions :
                    pc[p] = "save" /\ job[p] \in {"enable", "reset"} /\ cur[p] = u
      ]_vars

(* A recorded temporary stop ends: OSCam gets the account back, unless an   *)
(* operator makes the stop indefinite (_reenable_expired_stops, retried by  *)
(* every cycle until it succeeds).                                          *)
TemporaryStopEnds ==
    \A u \in Users :
        Temporary(store, u) ~> (~ applied[u] \/ (Stopped(store, u) /\ ~ Temporary(store, u)))

(* An account that is disabled in OSCam is given back, whether state.json   *)
(* knows of the stop yet or not, unless the stop is endless or a failure    *)
(* has separated the record from the account.                               *)
LiftedUnlessLost ==
    \A u \in Users :
        applied[u] ~> (~ applied[u] \/ lost \/ (Stopped(store, u) /\ ~ Temporary(store, u)))

(* An account that a cycle has taken away from OSCam's clients for a        *)
(* limited time is given back, recorded or not.                             *)
StopIsLifted ==
    \A u \in Users : (StopDuration[u] # 0 /\ applied[u]) ~> ~ applied[u]

(* Monitoring, with state.json as its records: every save, by whatever      *)
(* process and whatever failed before, changes each record by one step of   *)
(* the rule.  Two cycles, or a cycle and an operator, never mix.            *)
Rule == INSTANCE Monitoring WITH records <- store

FollowsRule == Rule!Spec

=============================================================================
