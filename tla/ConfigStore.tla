---------------------------- MODULE ConfigStore ----------------------------
(***************************************************************************)
(* config.json and those who edit it: the request threads of the web panel *)
(* (webapp.py), the CLI's exempt-user and unexempt-user (cli.py) and the   *)
(* enrollment (vpn_enroll.py).  Each of them loads the whole file, changes *)
(* its copy and replaces the whole file; there is no lock.  Between the    *)
(* two lie a monitoring cycle ("Sync now") or minutes of installation (the *)
(* enrollment).                                                            *)
(*                                                                         *)
(* An instance is its auto_stop switch, its exempt users and its policies, *)
(* of which the action is kept.  The other settings are replaced together  *)
(* with the switch.  `vpn` is the set of stages the enrollment has saved:  *)
(* agent id, allocation, enrolled.                                         *)
(***************************************************************************)
EXTENDS Integers

CONSTANTS
    Ids,          \* the instance ids, as sanitize_instance_id returns them
    Users,        \* the user names
    Accounts,     \* the users in oscam.user; none if it cannot be read
    Sessions,     \* request threads and CLI calls
    Ops,          \* the operations they run: a subset of AllOps
    MaxRequests,  \* bound: the requests of a behaviour
    Gone,         \* an id without an instance
    Unset,        \* a user without a policy entry
    Nothing       \* a session without a request

AllOps == {"save_instance", "delete", "run_instance", "exempt", "unexempt",
           "policy", "enroll"}

ASSUME OpsAssumption == Ops \subseteq AllOps
ASSUME AccountsAssumption == Accounts \subseteq Users
ASSUME MaxRequestsAssumption == MaxRequests \in Nat

VARIABLES
    file,      \* config.json
    pc,        \* where each session is
    request,   \* what it has been asked to do
    mem,       \* the configuration it has loaded and changes
    answer,    \* what its last request has come to
    requests,  \* requests so far
    asked,     \* history: policies and exemptions operators have asked for
    trusted    \* history: users whose last completed request is an exemption

vars == <<file, pc, request, mem, answer, requests, asked, trusted>>

Edits == INSTANCE ConfigEdits WITH config <- file

(* Gone is no instance, Unset is no action, Nothing is no request.         *)
ASSUME GoneAssumption == Gone \notin Edits!Instance
ASSUME UnsetAssumption == Unset \notin Edits!Actions
ASSUME NothingAssumption == Nothing \notin Edits!Request

NoPolicies == [u \in Users |-> Unset]

(* A new installation has no instances; one that comes from the older       *)
(* single-instance format has one, possibly with exempt users.              *)
InitialFile ==
    {[instances |-> [id \in Ids |-> IF id \in old THEN legacy ELSE Gone], vpn |-> {}] :
        old \in {s \in SUBSET Ids : \A a, b \in s : a = b},
        legacy \in [autoStop : BOOLEAN, exempt : SUBSET Users, policy : {NoPolicies}]}

EmptyConfig == [instances |-> [id \in Ids |-> Gone], vpn |-> {}]

ExemptIn(config, id) ==
    IF config.instances[id] = Gone THEN {} ELSE config.instances[id].exempt

Init ==
    /\ file \in InitialFile
    /\ pc = [p \in Sessions |-> "idle"]
    /\ request = [p \in Sessions |-> Nothing]
    /\ mem = [p \in Sessions |-> EmptyConfig]
    /\ answer = [p \in Sessions |-> "none"]
    /\ requests = 0
    /\ trusted = [id \in Ids |-> ExemptIn(file, id)]
    /\ asked = {e \in Ids \X Users \X {"exempt"} : e[2] \in ExemptIn(file, e[1])}

-----------------------------------------------------------------------------
(* What the cycle makes of a configuration.                                 *)

(* policy_for: the exempt list counts only for users without an entry.      *)
PolicyFor(instance, u) ==
    IF instance.policy[u] # Unset THEN instance.policy[u]
    ELSE IF u \in instance.exempt THEN "ignore" ELSE "global"

EffectiveAutoStop(instance, u) ==
    \/ PolicyFor(instance, u) = "stop"
    \/ PolicyFor(instance, u) = "global" /\ instance.autoStop

-----------------------------------------------------------------------------
(* Loading and saving.                                                      *)

(* The response, or the end of the CLI call.                                *)
Return(p, outcome) ==
    /\ answer' = [answer EXCEPT ![p] = outcome]
    /\ pc' = [pc EXCEPT ![p] = "idle"]
    /\ request' = [request EXCEPT ![p] = Nothing]
    /\ mem' = [mem EXCEPT ![p] = EmptyConfig]

Asking(r) ==
    CASE r.op = "policy" -> {<<r.id, r.user, r.action>>}
      [] r.op = "exempt" -> {<<r.id, r.user, "exempt">>}
      [] OTHER -> {}

Load(p) ==
    /\ pc[p] = "idle"
    /\ requests < MaxRequests
    /\ requests' = requests + 1
    /\ \E r \in Edits!Request :
           /\ r.op \in Ops
           /\ request' = [request EXCEPT ![p] = r]
           /\ asked' = asked \cup Asking(r)
    /\ mem' = [mem EXCEPT ![p] = file]
    /\ answer' = [answer EXCEPT ![p] = "none"]
    /\ pc' = [pc EXCEPT ![p] = "loaded"]
    /\ UNCHANGED <<file, trusted>>

(* p is about to save the change that a request of this kind makes.         *)
Serves(p, ops) == pc[p] = "loaded" /\ request[p].op \in ops

Found(p) == mem[p].instances[request[p].id] # Gone

(* The file becomes p's copy with `instance` in place, and p has returned.  *)
SaveWith(p, instance) ==
    /\ file' = [mem[p] EXCEPT !.instances[request[p].id] = instance]
    /\ Return(p, "ok")
    /\ UNCHANGED <<requests, asked>>

Loaded(p) == mem[p].instances[request[p].id]

(* Mutant: the default entry replaces the one there is.                     *)
EnsureAlways(policy, users) ==
    [u \in Users |-> IF u \in users THEN "global" ELSE policy[u]]

(* Mutant: the default entry stops.                                         *)
EnsureStop(policy, users) ==
    [u \in Users |-> IF u \in users /\ policy[u] = Unset THEN "stop" ELSE policy[u]]

(* ensure_user_policy for each of these users.                              *)
Ensure(policy, users) ==
    [u \in Users |-> IF u \in users /\ policy[u] = Unset THEN "global" ELSE policy[u]]

-----------------------------------------------------------------------------
(* The operations.                                                          *)

(* The instance is built anew from the form, with the old policies.         *)
SaveInstance(p) ==
    /\ Serves(p, {"save_instance"})
    /\ LET policy == IF Found(p) THEN Loaded(p).policy ELSE NoPolicies
       IN  SaveWith(p, [autoStop |-> request[p].autoStop,
                        exempt |-> {},
                        policy |-> Ensure(policy, Accounts)])
    /\ trusted' = IF Found(p) THEN trusted
                  ELSE [trusted EXCEPT ![request[p].id] = {}]

DeleteInstance(p) ==
    /\ Serves(p, {"delete"})
    /\ SaveWith(p, Gone)
    /\ trusted' = [trusted EXCEPT ![request[p].id] = {}]

(* Sync now: the users of the cycle's result and of oscam.user get an entry.*)
RunInstance(p) ==
    /\ Serves(p, {"run_instance"})
    /\ Found(p)
    /\ SaveWith(p, [Loaded(p) EXCEPT
                      !.policy = Ensure(@, request[p].seen \cup Accounts)])
    /\ UNCHANGED trusted

(* The operator has been told that the user is, or is not, exempt now.      *)
TrustAs(id, u, exempt) ==
    trusted' = [trusted EXCEPT ![id] = IF exempt THEN @ \cup {u} ELSE @ \ {u}]

(* The panel saves in any case, the CLI only what has changed.              *)
AddExempt(p) ==
    /\ Serves(p, {"exempt"})
    /\ Found(p)
    /\ request[p].cli => request[p].user \notin Loaded(p).exempt
    /\ SaveWith(p, [Loaded(p) EXCEPT !.exempt = @ \cup {request[p].user}])
    /\ TrustAs(request[p].id, request[p].user, TRUE)

RemoveExempt(p) ==
    /\ Serves(p, {"unexempt"})
    /\ Found(p)
    /\ request[p].cli => request[p].user \in Loaded(p).exempt
    /\ SaveWith(p, [Loaded(p) EXCEPT !.exempt = @ \ {request[p].user}])
    /\ TrustAs(request[p].id, request[p].user, FALSE)

SavedPolicy(instance, u, action) ==
    [instance EXCEPT !.policy[u] = action, !.exempt = @ \ {u}]

SaveUserPolicy(p) ==
    /\ Serves(p, {"policy"})
    /\ Found(p)
    /\ SaveWith(p, SavedPolicy(Loaded(p), request[p].user, request[p].action))
    /\ TrustAs(request[p].id, request[p].user, FALSE)

(* The instance is unknown: get_instance raises.                            *)
UnknownInstance(p) ==
    /\ Serves(p, {"run_instance", "exempt", "unexempt", "policy"})
    /\ ~ Found(p)
    /\ Return(p, "refused")
    /\ UNCHANGED <<file, requests, asked, trusted>>

(* The CLI finds the user exempt, or not exempt, as asked.                  *)
NothingToSave(p) ==
    /\ Serves(p, {"exempt", "unexempt"})
    /\ Found(p)
    /\ request[p].cli
    /\ (request[p].op = "exempt") <=> (request[p].user \in Loaded(p).exempt)
    /\ TrustAs(request[p].id, request[p].user, request[p].op = "exempt")
    /\ Return(p, "ok")
    /\ UNCHANGED <<file, requests, asked>>

-----------------------------------------------------------------------------
(* The enrollment saves the configuration it loaded at its start up to      *)
(* three times.                                                             *)

(* Mutant: the section is written anew, with this stage only.               *)
PersistAnew(p, stage) ==
    /\ file' = [mem[p] EXCEPT !.vpn = {stage}]
    /\ UNCHANGED <<requests, asked, trusted>>

Persist(p, stage) ==
    /\ file' = [mem[p] EXCEPT !.vpn = @ \cup {stage}]
    /\ UNCHANGED <<requests, asked, trusted>>

Proceed(p, label) ==
    /\ pc' = [pc EXCEPT ![p] = label]
    /\ mem' = [mem EXCEPT ![p] = file']
    /\ UNCHANGED <<request, answer>>

PersistAgent(p) ==
    /\ Serves(p, {"enroll"})
    /\ Persist(p, "agent")
    /\ Proceed(p, "allocate")

PersistAllocation(p) ==
    /\ pc[p] = "allocate"
    /\ "allocation" \notin mem[p].vpn
    /\ Persist(p, "allocation")
    /\ Proceed(p, "register")

ReuseAllocation(p) ==
    /\ pc[p] = "allocate"
    /\ "allocation" \in mem[p].vpn
    /\ pc' = [pc EXCEPT ![p] = "register"]
    /\ UNCHANGED <<file, request, mem, answer, requests, asked, trusted>>

PersistEnrolled(p) ==
    /\ pc[p] = "register"
    /\ Persist(p, "enrolled")
    /\ Return(p, "ok")

(* An exception or the death of the process.                                *)
Abort(p) ==
    /\ pc[p] # "idle"
    /\ Return(p, "failed")
    /\ UNCHANGED <<file, requests, asked, trusted>>

-----------------------------------------------------------------------------

Session(p) ==
    \/ Load(p)
    \/ SaveInstance(p) \/ DeleteInstance(p) \/ RunInstance(p)
    \/ AddExempt(p) \/ RemoveExempt(p) \/ SaveUserPolicy(p)
    \/ UnknownInstance(p) \/ NothingToSave(p)
    \/ PersistAgent(p) \/ PersistAllocation(p) \/ ReuseAllocation(p)
    \/ PersistEnrolled(p)
    \/ Abort(p)

Next == \E p \in Sessions : Session(p)

Spec == Init /\ [][Next]_vars

-----------------------------------------------------------------------------
(* Properties.                                                              *)

(* Every variable has its type.                                             *)
TypeOK ==
    /\ file \in Edits!Config
    /\ pc \in [Sessions -> {"idle", "loaded", "allocate", "register"}]
    /\ request \in [Sessions -> Edits!Request \cup {Nothing}]
    /\ mem \in [Sessions -> Edits!Config]
    /\ answer \in [Sessions -> {"none", "ok", "refused", "failed"}]
    /\ requests \in Nat
    /\ asked \subseteq Ids \X Users \X (Edits!Actions \cup {"exempt"})
    /\ trusted \in [Ids -> SUBSET Users]

(* However many sessions overwrite each other, no version of config.json    *)
(* holds a policy other than the default, or an exemption, that no operator *)
(* has ever asked for: a user is never put under a stop policy by accident. *)
OnlyAsked ==
    \A id \in Ids, u \in Users :
        file.instances[id] # Gone =>
            LET instance == file.instances[id]
            IN  /\ instance.policy[u] \notin {Unset, "global"} =>
                       <<id, u, instance.policy[u]>> \in asked
                /\ u \in instance.exempt => <<id, u, "exempt">> \in asked

(* With one session at a time config.json implements ConfigEdits: a request *)
(* that is answered "ok" has made its own change, of its own instance, user *)
(* and value, and no other; one that is refused or fails, also by the death *)
(* of the session between load_app_config and save_app_config, has changed  *)
(* nothing; an enrollment that dies keeps the stages it has saved.          *)
EditsAreSerial == Edits!Spec

(* The policy saved for a user changes only when somebody saves another one *)
(* for that user, or when a session saves that has loaded the instance      *)
(* before its latest change: no sync, no save of the instance and no edit   *)
(* of another user changes a policy it has seen.                            *)
PolicySticks ==
    [][\A id \in Ids, u \in Users :
         /\ file.instances[id] # Gone /\ file'.instances[id] # Gone
         /\ file.instances[id].policy[u] # Unset
         /\ file'.instances[id].policy[u] # file.instances[id].policy[u]
         => \E p \in Sessions :
                /\ pc'[p] # pc[p]
                /\ \/ /\ Serves(p, {"policy"})
                      /\ request[p].id = id /\ request[p].user = u
                   \/ mem[p].instances[id] # file.instances[id]
      ]_vars

(* No cycle that reads this file would stop a user whom the operator has    *)
(* exempted and not given a policy since.                                   *)
ExemptNeverStopped ==
    \A id \in Ids, u \in Users :
        file.instances[id] # Gone /\ u \in trusted[id] =>
            ~ EffectiveAutoStop(file.instances[id], u)

=============================================================================
