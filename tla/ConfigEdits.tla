---------------------------- MODULE ConfigEdits ----------------------------
(***************************************************************************)
(* What an operator may expect of config.json when requests come one at a  *)
(* time: a request that is answered "ok" has made the change it names and  *)
(* no other, one that is refused or fails has changed nothing, and only an *)
(* enrollment may stop half-way, at a stage it has completed.              *)
(*                                                                         *)
(* One change is not what an operator would expect: saving the settings of *)
(* an instance drops its exempt users, which are not in the form (webapp.py*)
(* 275-313).  It is stated here as the code makes it.                      *)
(***************************************************************************)
EXTENDS Integers

CONSTANTS
    Ids,       \* the instance ids
    Users,     \* the user names
    Accounts,  \* the users in oscam.user
    Sessions,  \* those who ask
    Gone,      \* an instance that is not configured
    Unset,     \* a user without a policy entry
    Nothing    \* a session that has asked for nothing

Actions  == {"global", "notify", "stop", "ignore"}
Policies == [Users -> Actions \cup {Unset}]
Instance == [autoStop : BOOLEAN, exempt : SUBSET Users, policy : Policies]

(* The stages of an enrollment that have been saved.                        *)
Enrolled == {"agent", "allocation", "enrolled"}
Stages   == {{}, {"agent"}, {"agent", "allocation"}, Enrolled}

Config == [instances : [Ids -> Instance \cup {Gone}], vpn : Stages]

Request ==
    [op : {"save_instance"}, id : Ids, autoStop : BOOLEAN]
    \cup [op : {"delete"}, id : Ids]
    \cup [op : {"run_instance"}, id : Ids, seen : SUBSET Users]
    \cup [op : {"exempt", "unexempt"}, id : Ids, user : Users, cli : BOOLEAN]
    \cup [op : {"policy"}, id : Ids, user : Users, action : Actions]
    \cup [op : {"enroll"}]

VARIABLES
    config,   \* config.json
    request,  \* what each session has asked for
    answer    \* what it has been told of its last request

Asked(p, ops) == request[p] # Nothing /\ request[p].op \in ops

Answer(p, outcome) ==
    /\ request' = [request EXCEPT ![p] = Nothing]
    /\ answer' = [answer EXCEPT ![p] = outcome]

Configured(id) == config.instances[id] # Gone

(* The instance of p's request becomes this one, and p is told so.          *)
Make(p, instance) ==
    /\ config' = [config EXCEPT !.instances[request[p].id] = instance]
    /\ Answer(p, "ok")

Old(p) == config.instances[request[p].id]

(* The entries of the users that have one stay; these users get a default.  *)
WithDefaults(policy, users) ==
    [u \in Users |->
        IF policy[u] # Unset THEN policy[u]
        ELSE IF u \in users THEN "global" ELSE Unset]

-----------------------------------------------------------------------------

Ask(p) ==
    /\ request[p] = Nothing
    /\ \E r \in Request : request' = [request EXCEPT ![p] = r]
    /\ answer' = [answer EXCEPT ![p] = "none"]
    /\ UNCHANGED config

(* The settings of an instance are replaced; its policies stay.             *)
Configure(p) ==
    /\ Asked(p, {"save_instance"})
    /\ \E policy \in Policies :
           /\ Configured(request[p].id) =>
                  policy = WithDefaults(Old(p).policy, Accounts)
           /\ ~ Configured(request[p].id) =>
                  policy = WithDefaults([u \in Users |-> Unset], Accounts)
           /\ Make(p, [autoStop |-> request[p].autoStop, exempt |-> {},
                       policy |-> policy])

Remove(p) == Asked(p, {"delete"}) /\ Make(p, Gone)

(* A sync has met users.                                                    *)
Discover(p) ==
    /\ Asked(p, {"run_instance"})
    /\ Configured(request[p].id)
    /\ Make(p, [Old(p) EXCEPT
                  !.policy = WithDefaults(@, request[p].seen \cup Accounts)])

Exempt(p) ==
    /\ Asked(p, {"exempt"})
    /\ Configured(request[p].id)
    /\ Make(p, [Old(p) EXCEPT !.exempt = @ \cup {request[p].user}])

Unexempt(p) ==
    /\ Asked(p, {"unexempt"})
    /\ Configured(request[p].id)
    /\ Make(p, [Old(p) EXCEPT !.exempt = @ \ {request[p].user}])

(* A policy set by hand also ends the exemption of its user.                *)
SetPolicy(p) ==
    /\ Asked(p, {"policy"})
    /\ Configured(request[p].id)
    /\ Make(p, [Old(p) EXCEPT !.policy[request[p].user] = request[p].action,
                              !.exempt = @ \ {request[p].user}])

(* The enrollment completes its next stage, or the last one.                *)
Advance(p) ==
    /\ Asked(p, {"enroll"})
    /\ \E stage \in {"agent", "allocation"} :
           /\ config.vpn \cup {stage} \in Stages
           /\ config' = [config EXCEPT !.vpn = @ \cup {stage}]
    /\ UNCHANGED <<request, answer>>

Complete(p) ==
    /\ Asked(p, {"enroll"})
    /\ {"agent", "allocation"} \subseteq config.vpn
    /\ config' = [config EXCEPT !.vpn = Enrolled]
    /\ Answer(p, "ok")

Refuse(p) ==
    /\ Asked(p, {"run_instance", "exempt", "unexempt", "policy"})
    /\ ~ Configured(request[p].id)
    /\ Answer(p, "refused")
    /\ UNCHANGED config

Fail(p) ==
    /\ request[p] # Nothing
    /\ Answer(p, "failed")
    /\ UNCHANGED config

-----------------------------------------------------------------------------

Init ==
    /\ config \in Config /\ config.vpn = {}
    /\ request = [p \in Sessions |-> Nothing]
    /\ answer = [p \in Sessions |-> "none"]

Next ==
    \E p \in Sessions :
        \/ Ask(p)
        \/ Configure(p) \/ Remove(p) \/ Discover(p)
        \/ Exempt(p) \/ Unexempt(p) \/ SetPolicy(p)
        \/ Advance(p) \/ Complete(p)
        \/ Refuse(p) \/ Fail(p)

Spec == Init /\ [][Next]_<<config, request, answer>>

=============================================================================
