----------------------------- MODULE Instances -----------------------------
(***************************************************************************)
(* Several OSCam instances under control: run-all visits them one after    *)
(* the other (cli.py) while an operator adds and deletes instances and     *)
(* disables and enables accounts (webapp.py, cli.py).  Each instance has   *)
(* its own state.json and lock (state.py); its account file (enforce.py)   *)
(* is that of its base path, which instances may share.                    *)
(*                                                                         *)
(* When a user is stopped, and for how long, is what ReshareControl is     *)
(* about: here a cycle stops any users it likes, for a limited time, and a *)
(* command without an end.                                                 *)
(***************************************************************************)
EXTENDS AccountFile

CONSTANTS
    Ids,           \* instance ids
    Initial,       \* the instances that config.json may list at the beginning
    Paths,         \* base paths
    Layouts,       \* the base paths that instances may have
    Content,       \* the lines of each account file at the beginning
    Sessions,      \* CLI calls and web request threads
    Timer,         \* the systemd oneshot service that runs run-all
    Watched,       \* the users that cycles may stop (the others are ignored)
    Commanded,     \* the users operators disable and enable
    MaxRequests,   \* bound: jobs the sessions start
    Free,          \* the lock's value when nobody holds it
    NoId           \* a process that is not working on an instance

Procs == Sessions \cup {Timer}

ASSUME InitialAssumption ==
    \A initial \in Initial : initial \in Seq(Ids) /\ IsInjective(initial)
ASSUME LayoutsAssumption == Layouts \subseteq [Ids -> Paths]
ASSUME ContentAssumption == Content \in [Paths -> Text]
ASSUME TimerAssumption == Timer \notin Sessions
ASSUME FreeAssumption == Free \notin Procs
ASSUME NoIdAssumption == NoId \notin Ids
ASSUME UsersAssumption == Watched \subseteq Users /\ Commanded \subseteq Users
ASSUME MaxRequestsAssumption == MaxRequests \in Nat

(* A stop for a limited time is "timed" until it has "expired".             *)
Statuses == {"ok", "timed", "expired", "endless"}

VARIABLES
    instances,  \* config.json: the ids in their order
    base,       \* the base path of each instance; it does not change
    files,      \* the account file at each base path
    records,    \* the state.json of each instance; it survives a deletion
    lock,       \* the flock of each instance's state directory
    pc,         \* where each process is
    list,       \* the instances it has loaded (run-all: still to visit)
    at,         \* the instance it is working on
    mem,        \* the records it has loaded
    todo,       \* the users whose accounts it has still to edit
    flag,       \* the flag it gives them
    cur,        \* the user whose account it edits
    copy,       \* the lines it has read
    edited,     \* history: the users whose accounts it has edited
    requests    \* session jobs so far

shared == <<instances, files, records, lock>>
locals == <<pc, list, at, mem, todo, flag, cur, copy, edited>>
vars   == <<instances, base, files, records, lock,
            pc, list, at, mem, todo, flag, cur, copy, edited, requests>>

NoRecords == [u \in Users |-> "ok"]

Configured(id) == id \in Range(instances)

(* A state directory may be left of an instance that was deleted, with a    *)
(* stop whose lifting failed at its reinit, or with none.                   *)
LeftOver ==
    {left \in [Ids -> [Users -> {"ok", "expired"}]] :
        \A id \in Ids, u \in Users :
            left[id][u] = "expired" => ~ Configured(id) /\ u \in Watched}

Init ==
    /\ instances \in Initial
    /\ base \in Layouts
    /\ files = Content
    /\ records \in LeftOver
    /\ lock = [id \in Ids |-> Free]
    /\ pc = [p \in Procs |-> "idle"]
    /\ list = [p \in Procs |-> <<>>]
    /\ at = [p \in Procs |-> NoId]
    /\ mem = [p \in Procs |-> NoRecords]
    /\ todo = [p \in Procs |-> {}]
    /\ flag = [p \in Procs |-> "0"]
    /\ cur = [p \in Procs |-> NoUser]
    /\ copy = [p \in Procs |-> <<>>]
    /\ edited = [p \in Procs |-> {}]
    /\ requests = 0

-----------------------------------------------------------------------------
(* Helpers.                                                                 *)

Goto(p, label) == pc' = [pc EXCEPT ![p] = label]

(* The cycle or the command is over: only what run-all has still to visit   *)
(* is left of it.                                                           *)
Leave(p) ==
    /\ at' = [at EXCEPT ![p] = NoId]
    /\ mem' = [mem EXCEPT ![p] = NoRecords]
    /\ todo' = [todo EXCEPT ![p] = {}]
    /\ flag' = [flag EXCEPT ![p] = "0"]
    /\ cur' = [cur EXCEPT ![p] = NoUser]
    /\ copy' = [copy EXCEPT ![p] = <<>>]
    /\ edited' = [edited EXCEPT ![p] = {}]

Holds(p) == at[p] \in Ids /\ lock[at[p]] = p

(* Mutant: an exception leaves the lock file locked.                        *)
AbortLocked(p) ==
    /\ Goto(p, "idle")
    /\ list' = [list EXCEPT ![p] = <<>>]
    /\ Leave(p)
    /\ UNCHANGED <<lock, base, requests>>

(* An exception or the death of the process: nothing is saved, the lock is  *)
(* released, and run-all does not visit the instances that are left.        *)
Abort(p) ==
    /\ Goto(p, "idle")
    /\ list' = [list EXCEPT ![p] = <<>>]
    /\ Leave(p)
    /\ lock' = IF Holds(p) THEN [lock EXCEPT ![at[p]] = Free] ELSE lock
    /\ UNCHANGED <<base, requests>>

(* Mutant: one lock for two.                                                *)
TakeShared(p, id) == lock' = [lock EXCEPT ![id] = p]

Take(p, id) ==
    /\ lock[id] = Free
    /\ lock' = [lock EXCEPT ![id] = p]

(* Mutant: the comparison with the present is the wrong way round.          *)
DueTooSoon(id) == {u \in Users : records[id][u] = "timed"}

(* The users whose stop a cycle of this instance lifts.                     *)
Due(id) == {u \in Users : records[id][u] = "expired"}

CountRequest(p) ==
    /\ p \in Sessions
    /\ pc[p] = "idle"
    /\ requests < MaxRequests
    /\ requests' = requests + 1

-----------------------------------------------------------------------------
(* run-all.                                                                 *)

(* The timer starts the service, which loads the configuration once.        *)
RunAll ==
    /\ pc[Timer] = "idle"
    /\ list' = [list EXCEPT ![Timer] = instances]
    /\ Goto(Timer, "next")
    /\ UNCHANGED <<shared, base, at, mem, todo, flag, cur, copy, edited, requests>>

RunAllEnd ==
    /\ pc[Timer] = "next"
    /\ list[Timer] = <<>>
    /\ Goto(Timer, "idle")
    /\ UNCHANGED <<shared, base, list, at, mem, todo, flag, cur, copy, edited, requests>>

-----------------------------------------------------------------------------
(* A cycle or a command in its critical section.                            *)

(* An operator has one account of a configured instance disabled, enabled.  *)
StartCommand(p) ==
    /\ CountRequest(p)
    /\ \E id \in Range(instances) : at' = [at EXCEPT ![p] = id]
    /\ \E u \in Commanded : todo' = [todo EXCEPT ![p] = {u}]
    /\ \E f \in Flags : flag' = [flag EXCEPT ![p] = f]
    /\ Goto(p, "lock")
    /\ UNCHANGED <<shared, base, list, mem, cur, copy, edited>>

(* Mutant: the last instance is not visited.                                *)
BeginCycleButLast ==
    /\ pc[Timer] = "next"
    /\ Len(list[Timer]) > 1
    /\ LET id == Head(list[Timer])
       IN  /\ Take(Timer, id)
           /\ at' = [at EXCEPT ![Timer] = id]
           /\ mem' = [mem EXCEPT ![Timer] = records[id]]
           /\ todo' = [todo EXCEPT ![Timer] = Due(id)]
    /\ list' = [list EXCEPT ![Timer] = Tail(@)]
    /\ Goto(Timer, "work")
    /\ UNCHANGED <<instances, base, files, records, flag, cur, copy, edited, requests>>

(* The cycle of the next instance, once its lock is free, loads its records *)
(* and begins with the stops that have expired.  The fetch before it reads  *)
(* nothing that is modelled here.                                           *)
BeginCycle ==
    /\ pc[Timer] = "next"
    /\ list[Timer] # <<>>
    /\ LET id == Head(list[Timer])
       IN  /\ Take(Timer, id)
           /\ at' = [at EXCEPT ![Timer] = id]
           /\ mem' = [mem EXCEPT ![Timer] = records[id]]
           /\ todo' = [todo EXCEPT ![Timer] = Due(id)]
    /\ list' = [list EXCEPT ![Timer] = Tail(@)]
    /\ Goto(Timer, "work")
    /\ UNCHANGED <<instances, base, files, records, flag, cur, copy, edited, requests>>

(* A command loads the records of its instance.                             *)
BeginCommand(p) ==
    /\ pc[p] = "lock"
    /\ Take(p, at[p])
    /\ mem' = [mem EXCEPT ![p] = records[at[p]]]
    /\ Goto(p, "work")
    /\ UNCHANGED <<instances, base, files, records, list, at, todo, flag, cur, copy,
                   edited, requests>>

(* With the expired stops lifted, a cycle evaluates the users that are not  *)
(* stopped, and stops some of them.                                         *)
Evaluate ==
    /\ pc[Timer] = "work"
    /\ todo[Timer] = {}
    /\ flag[Timer] = "0"
    /\ flag' = [flag EXCEPT ![Timer] = "1"]
    /\ \E users \in SUBSET {u \in Watched : mem[Timer][u] = "ok"} :
           todo' = [todo EXCEPT ![Timer] = users]
    /\ UNCHANGED <<shared, base, pc, list, at, mem, cur, copy, edited, requests>>

(* set_account_disabled reads the account file ...                          *)
ReadFile(p) ==
    /\ pc[p] = "work"
    /\ \E u \in todo[p] :
          /\ HasAccount(files[base[at[p]]], u)
          /\ cur' = [cur EXCEPT ![p] = u]
          /\ todo' = [todo EXCEPT ![p] = @ \ {u}]
    /\ copy' = [copy EXCEPT ![p] = files[base[at[p]]]]
    /\ Goto(p, "write")
    /\ UNCHANGED <<shared, base, list, at, mem, flag, edited, requests>>

(* ... which may have no such account ...                                   *)
AccountMissing(p) ==
    /\ pc[p] = "work"
    /\ \E u \in todo[p] : ~ HasAccount(files[base[at[p]]], u)
    /\ Abort(p)
    /\ UNCHANGED <<instances, files, records>>

(* ... and replaces it by the lines it has read and changed.                *)
Replace(p) ==
    files' = [files EXCEPT ![base[at[p]]] = Written(@, copy[p], cur[p], flag[p])]

(* The account is edited and OSCam told; the record follows in memory.      *)
WriteFile(p) ==
    /\ pc[p] = "write"
    /\ Replace(p)
    /\ mem' = [mem EXCEPT ![p][cur[p]] =
                 IF flag[p] = "0" THEN "ok" ELSE IF p = Timer THEN "timed" ELSE "endless"]
    /\ edited' = [edited EXCEPT ![p] = @ \cup {cur[p]}]
    /\ cur' = [cur EXCEPT ![p] = NoUser]
    /\ copy' = [copy EXCEPT ![p] = <<>>]
    /\ Goto(p, "work")
    /\ UNCHANGED <<instances, base, records, lock, list, at, todo, flag, requests>>

(* OSCam does not answer to the reinit.                                     *)
ReinitFails(p) ==
    /\ pc[p] = "write"
    /\ Replace(p)
    /\ Abort(p)
    /\ UNCHANGED <<instances, records>>

(* All accounts edited: the records are saved and the lock is released.     *)
Save(p) ==
    /\ pc[p] = "work"
    /\ todo[p] = {}
    /\ p = Timer => flag[p] = "1"
    /\ records' = [records EXCEPT ![at[p]] = mem[p]]
    /\ lock' = [lock EXCEPT ![at[p]] = Free]
    /\ Goto(p, IF p = Timer THEN "next" ELSE "idle")
    /\ Leave(p)
    /\ UNCHANGED <<instances, base, files, list, requests>>

-----------------------------------------------------------------------------
(* The operator edits the configuration in the panel.                       *)

(* An instance is saved: a new one comes last, an old one keeps its place.  *)
StartSaveInstance(p) ==
    /\ CountRequest(p)
    /\ \E id \in Ids :
          /\ list' = [list EXCEPT ![p] =
                        IF Configured(id) THEN instances ELSE Append(instances, id)]
          /\ at' = [at EXCEPT ![p] = id]
    /\ Goto(p, "sync")
    /\ UNCHANGED <<shared, base, mem, todo, flag, cur, copy, edited>>

(* The account sync loads state.json without the lock ...                   *)
SyncLoad(p) ==
    /\ pc[p] = "sync"
    /\ mem' = [mem EXCEPT ![p] = records[at[p]]]
    /\ Goto(p, "syncSave")
    /\ UNCHANGED <<shared, base, list, at, todo, flag, cur, copy, edited, requests>>

(* ... and writes it back with a fresh record for each new account.         *)
SyncSave(p) ==
    /\ pc[p] = "syncSave"
    /\ records' = [records EXCEPT ![at[p]] = mem[p]]
    /\ Goto(p, "saveConfig")
    /\ UNCHANGED <<instances, base, files, lock, list, at, mem, todo, flag, cur,
                   copy, edited, requests>>

(* Deleting one leaves the others in their order (remove_instance).         *)
StartDeleteInstance(p) ==
    /\ CountRequest(p)
    /\ \E id \in Ids :
          /\ at' = [at EXCEPT ![p] = id]
          /\ IF Configured(id)
             THEN \E i \in DOMAIN instances :
                     /\ instances[i] = id
                     /\ list' = [list EXCEPT ![p] = RemoveAt(instances, i)]
             ELSE list' = [list EXCEPT ![p] = instances]
    /\ Goto(p, "saveConfig")
    /\ UNCHANGED <<shared, base, mem, todo, flag, cur, copy, edited>>

SaveConfig(p) ==
    /\ pc[p] = "saveConfig"
    /\ instances' = list[p]
    /\ list' = [list EXCEPT ![p] = <<>>]
    /\ Leave(p)
    /\ Goto(p, "idle")
    /\ UNCHANGED <<base, files, records, lock, requests>>

-----------------------------------------------------------------------------
(* The environment.                                                         *)

(* Any exception, or the death of the process: the fetch of the responses   *)
(* never raises, but an unreadable file, a full disk or a signal may come   *)
(* at any time.                                                             *)
Fail(p) ==
    /\ pc[p] # "idle"
    /\ Abort(p)
    /\ UNCHANGED <<instances, files, records>>

Aged(state, u) == IF state[u] = "timed" THEN [state EXCEPT ![u] = "expired"] ELSE state

(* The time of a stop has run out, wherever it is recorded.                 *)
Expire(id, u) ==
    /\ \/ records[id][u] = "timed"
       \/ \E p \in Procs : at[p] = id /\ mem[p][u] = "timed"
    /\ records' = [records EXCEPT ![id] = Aged(@, u)]
    /\ mem' = [p \in Procs |-> IF at[p] = id THEN Aged(mem[p], u) ELSE mem[p]]
    /\ UNCHANGED <<instances, base, files, lock, pc, list, at, todo, flag, cur,
                   copy, edited, requests>>

-----------------------------------------------------------------------------

Start(p) == StartCommand(p) \/ StartSaveInstance(p) \/ StartDeleteInstance(p)

Work(p) ==
    \/ BeginCommand(p) \/ ReadFile(p) \/ AccountMissing(p) \/ WriteFile(p) \/ Save(p)
    \/ SyncLoad(p) \/ SyncSave(p) \/ SaveConfig(p)

Loop == RunAll \/ BeginCycle \/ Evaluate \/ RunAllEnd

Next ==
    \/ Loop
    \/ \E p \in Procs : Start(p) \/ Work(p) \/ ReinitFails(p) \/ Fail(p)
    \/ \E id \in Ids, u \in Users : Expire(id, u)

Spec == Init /\ [][Next]_vars

(* The timer starts run-all again and again, and a process that can take a  *)
(* step in its job eventually does.  Nothing has to fail, and no operator   *)
(* has to do anything.                                                      *)
Fairness ==
    /\ WF_vars(Loop \/ Work(Timer))
    /\ \A p \in Sessions : WF_vars(Work(p))

FairSpec == Spec /\ Fairness

-----------------------------------------------------------------------------
(* Properties.                                                              *)

Labels == {"idle", "next", "lock", "work", "write", "sync", "syncSave", "saveConfig"}

(* Every variable has its type; in particular every account file can be     *)
(* read back as the lines that were written (the newline that               *)
(* _set_disabled_in_block adds to an unfinished last line).                 *)
TypeOK ==
    /\ Range(instances) \subseteq Ids /\ IsInjective(instances)
    /\ base \in [Ids -> Paths]
    /\ files \in [Paths -> Text]
    /\ records \in [Ids -> [Users -> Statuses]]
    /\ lock \in [Ids -> Procs \cup {Free}]
    /\ pc \in [Procs -> Labels]
    /\ \A p \in Procs : Range(list[p]) \subseteq Ids
    /\ at \in [Procs -> Ids \cup {NoId}]
    /\ mem \in [Procs -> [Users -> Statuses]]
    /\ todo \in [Procs -> SUBSET Users]
    /\ flag \in [Procs -> Flags]
    /\ cur \in [Procs -> Users \cup {NoUser}]
    /\ copy \in [Procs -> Text]
    /\ edited \in [Procs -> SUBSET Users]
    /\ requests \in Nat

(* No two instances have this account file.                                 *)
Sole(path) == \A a, b \in Ids : base[a] = path /\ base[b] = path => a = b

(* An edit sets the flag of exactly one account (set_account_disabled),     *)
(* provided that the file is that of one instance: the lock that keeps two  *)
(* edits apart is the instance's.                                           *)
OnlyTarget ==
    [][\A path \in Paths :
         files'[path] # files[path] /\ Sole(path) =>
            \E p \in Procs :
               /\ pc[p] = "write"
               /\ \A u \in AccountUsers(files[path]) :
                     Flag(files'[path], u) =
                        IF u = cur[p] THEN flag[p] ELSE Flag(files[path], u)
      ]_vars

(* However the edits of several instances overwrite each other, nothing but *)
(* flags changes in an account file (_set_disabled_in_block).               *)
LinesKept ==
    [][\A path \in Paths : OtherLines(files'[path]) = OtherLines(files[path])]_vars

(* Whatever failed before, on this instance or on another, the records that *)
(* a cycle or a command is about to save agree with the account file of its *)
(* instance on every account that it has edited.                            *)
SavedAsFiled ==
    \A p \in Procs : \A u \in edited[p] :
        Sole(base[at[p]]) =>
            Flag(files[base[at[p]]], u) = IF mem[p][u] = "ok" THEN "0" ELSE "1"

(* run-all saves a cycle of this instance.                                  *)
Monitors(id) == Save(Timer) /\ at[Timer] = id

(* run-all fails at this instance, or at one before it in config.json, or   *)
(* on its way there.                                                        *)
FailsUpTo(id) ==
    /\ pc[Timer] # "idle" /\ pc'[Timer] = "idle" /\ ~ RunAllEnd
    /\ \E i, j \in DOMAIN instances :
          /\ i <= j
          /\ instances[j] = id
          /\ instances[i] = IF at[Timer] # NoId THEN at[Timer]
                            ELSE IF list[Timer] # <<>> THEN Head(list[Timer]) ELSE NoId

(* An instance that stays configured is monitored again and again, unless   *)
(* it or one before it in config.json fails again and again: the ones after *)
(* it, other processes and earlier failures do not matter (command_run_all, *)
(* which lets the first exception end the loop).                            *)
MonitoredUnlessFailing ==
    \A id \in Ids :
        <>[]Configured(id) =>
            []<><<Monitors(id)>>_vars \/ []<><<FailsUpTo(id)>>_vars

(* run-all lifts the stop of this user in the account file, and OSCam is    *)
(* told.                                                                    *)
Lifts(id, u) ==
    /\ WriteFile(Timer)
    /\ at[Timer] = id /\ cur[Timer] = u /\ flag[Timer] = "0"

(* A stop that has expired does not stay for ever in the records of an      *)
(* instance that is configured, were it deleted and saved again in between, *)
(* unless it is lifted and earned again and again, or the instance or one   *)
(* before it fails again and again (_reenable_expired_stops, and the state  *)
(* directory that survives _delete_instance).                               *)
StopEnds ==
    \A id \in Ids, u \in Watched :
        <>[](Configured(id) /\ records[id][u] = "expired") =>
            []<><<Lifts(id, u)>>_vars \/ []<><<FailsUpTo(id)>>_vars

=============================================================================
