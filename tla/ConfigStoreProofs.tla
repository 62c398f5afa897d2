------------------------- MODULE ConfigStoreProofs -------------------------
(***************************************************************************)
(* Proofs about ConfigStore, for any sets of ids, users, accounts and      *)
(* sessions and any bound on the requests.  The first two theorems hold    *)
(* for sessions that overlap; the refinement is about one session at a     *)
(* time, which is what its assumption says.                                *)
(***************************************************************************)
EXTENDS ConfigStore, TLAPS

(* A session that has left "idle" works on a request; one that enrolls has  *)
(* the stages it has been through in its copy.                              *)
Working ==
    \A p \in Sessions :
        /\ pc[p] # "idle" => request[p] \in Edits!Request
        /\ pc[p] \in {"allocate", "register"} =>
               "agent" \in mem[p].vpn /\ request[p].op = "enroll"
        /\ pc[p] = "register" => "allocation" \in mem[p].vpn

TypeInv == TypeOK /\ Working

(* An instance, a configuration, holds only what is in `known`.             *)
SoundInstance(id, instance, known) ==
    \A u \in Users :
        /\ instance.policy[u] \notin {Unset, "global"} =>
               <<id, u, instance.policy[u]>> \in known
        /\ u \in instance.exempt => <<id, u, "exempt">> \in known

Sound(config, known) ==
    \A id \in Ids : config.instances[id] # Gone =>
        SoundInstance(id, config.instances[id], known)

(* The copies of all sessions are sound too: any of them may be saved.      *)
AskedInv ==
    /\ Sound(file, asked)
    /\ \A p \in Sessions :
           /\ Sound(mem[p], asked)
           /\ pc[p] = "loaded" => Asking(request[p]) \subseteq asked

(* What a lone session has loaded is what is in the file.                   *)
UpToDate ==
    \A p \in Sessions :
        IF pc[p] = "idle" THEN request[p] = Nothing ELSE mem[p] = file

-----------------------------------------------------------------------------
(* The requests and what their operations make of an instance.              *)

LEMMA RequestFields ==
    ASSUME NEW r \in Edits!Request
    PROVE  /\ r.op \in AllOps
           /\ r.op # "enroll" => r.id \in Ids
           /\ r.op = "save_instance" => r.autoStop \in BOOLEAN
           /\ r.op = "run_instance" => r.seen \subseteq Users
           /\ r.op \in {"exempt", "unexempt", "policy"} => r.user \in Users
           /\ r.op = "policy" => r.action \in Edits!Actions
BY DEF Edits!Request, AllOps

LEMMA EnsureType ==
    ASSUME NEW policy \in Edits!Policies, NEW users
    PROVE  /\ Ensure(policy, users) \in Edits!Policies
           /\ Ensure(policy, users) = Edits!WithDefaults(policy, users)
BY DEF Ensure, Edits!Policies, Edits!Actions, Edits!WithDefaults

LEMMA NoPoliciesType == NoPolicies \in Edits!Policies
BY DEF NoPolicies, Edits!Policies

LEMMA EmptyConfigType == EmptyConfig \in Edits!Config
BY DEF EmptyConfig, Edits!Config, Edits!Stages

(* Replacing one instance of a configuration gives a configuration.         *)
LEMMA ReplaceType ==
    ASSUME NEW config \in Edits!Config, NEW id \in Ids,
           NEW instance \in Edits!Instance \cup {Gone}
    PROVE  /\ [config EXCEPT !.instances[id] = instance] \in Edits!Config
           /\ [config EXCEPT !.instances[id] = instance].vpn = config.vpn
           /\ [config EXCEPT !.instances[id] = instance].instances[id] = instance
           /\ \A other \in Ids : other # id =>
                [config EXCEPT !.instances[id] = instance].instances[other]
                  = config.instances[other]
BY DEF Edits!Config

(* What the operations save in the place of the instance they have loaded.  *)
LEMMA InstanceTypes ==
    ASSUME NEW instance \in Edits!Instance, NEW users, NEW u \in Users,
           NEW action \in Edits!Actions
    PROVE  /\ [instance EXCEPT !.policy = Ensure(@, users)] \in Edits!Instance
           /\ [instance EXCEPT !.exempt = @ \cup {u}] \in Edits!Instance
           /\ [instance EXCEPT !.exempt = @ \ {u}] \in Edits!Instance
           /\ SavedPolicy(instance, u, action) \in Edits!Instance
BY EnsureType DEF Edits!Instance, Edits!Policies, SavedPolicy

-----------------------------------------------------------------------------
(* Type correctness.                                                        *)

(* Everything but the trust of the operators has its type.                  *)
FileTyped ==
    /\ file \in Edits!Config
    /\ pc \in [Sessions -> {"idle", "loaded", "allocate", "register"}]
    /\ request \in [Sessions -> Edits!Request \cup {Nothing}]
    /\ mem \in [Sessions -> Edits!Config]
    /\ answer \in [Sessions -> {"none", "ok", "refused", "failed"}]
    /\ requests \in Nat
    /\ asked \subseteq Ids \X Users \X (Edits!Actions \cup {"exempt"})
    /\ Working

LEMMA ReturnTyped ==
    ASSUME TypeInv, NEW p \in Sessions,
           NEW outcome \in {"ok", "refused", "failed"}, Return(p, outcome)
    PROVE  /\ pc' \in [Sessions -> {"idle", "loaded", "allocate", "register"}]
           /\ request' \in [Sessions -> Edits!Request \cup {Nothing}]
           /\ mem' \in [Sessions -> Edits!Config]
           /\ answer' \in [Sessions -> {"none", "ok", "refused", "failed"}]
           /\ Working'
BY EmptyConfigType DEF TypeInv, TypeOK, Working, Return

LEMMA SaveTyped ==
    ASSUME TypeInv, NEW p \in Sessions, Serves(p, AllOps \ {"enroll"}),
           NEW instance \in Edits!Instance \cup {Gone}, SaveWith(p, instance)
    PROVE  FileTyped'
<1>1. request[p] \in Edits!Request /\ request[p].id \in Ids /\ mem[p] \in Edits!Config
  BY RequestFields DEF TypeInv, TypeOK, Working, Serves
<1>2. file' \in Edits!Config
  BY <1>1, ReplaceType DEF SaveWith
<1> QED
  BY <1>2, ReturnTyped DEF SaveWith, FileTyped, TypeInv, TypeOK

LEMMA LoadedType ==
    ASSUME TypeInv, NEW p \in Sessions, Serves(p, AllOps \ {"enroll"}), Found(p)
    PROVE  Loaded(p) \in Edits!Instance
<1>1. request[p] \in Edits!Request /\ request[p].id \in Ids /\ mem[p] \in Edits!Config
  BY RequestFields DEF TypeInv, TypeOK, Working, Serves
<1> QED
  BY <1>1 DEF Found, Loaded, Edits!Config

LEMMA TrustTyped ==
    ASSUME TypeInv, NEW id \in Ids, NEW u \in Users, NEW exempt, TrustAs(id, u, exempt)
    PROVE  trusted' \in [Ids -> SUBSET Users]
BY DEF TypeInv, TypeOK, TrustAs

(* The stages a session may add to those it has been through.               *)
Following(vpn) ==
    {"agent"} \cup {s \in {"allocation"} : "agent" \in vpn}
              \cup {s \in {"enrolled"} : {"agent", "allocation"} \subseteq vpn}

(* A saved stage of the enrollment changes nothing but the stages.          *)
LEMMA PersistEffect ==
    ASSUME TypeInv, NEW p \in Sessions, NEW stage \in Following(mem[p].vpn),
           Persist(p, stage)
    PROVE  /\ file' \in Edits!Config
           /\ file'.instances = mem[p].instances
           /\ file'.vpn = mem[p].vpn \cup {stage}
<1>1. mem[p] \in Edits!Config
  BY DEF TypeInv, TypeOK
<1>2. file' = [mem[p] EXCEPT !.vpn = @ \cup {stage}]
  BY DEF Persist
<1>3. mem[p].vpn \cup {stage} \in Edits!Stages
  BY <1>1 DEF Edits!Config, Edits!Stages, Edits!Enrolled, Following
<1> QED
  BY <1>1, <1>2, <1>3 DEF Edits!Config

(* The stages the three steps of the enrollment save may follow.            *)
LEMMA StagesFollow ==
    ASSUME TypeInv, NEW p \in Sessions
    PROVE  /\ PersistAgent(p) =>
                  Persist(p, "agent") /\ "agent" \in Following(mem[p].vpn)
           /\ PersistAllocation(p) =>
                  Persist(p, "allocation") /\ "allocation" \in Following(mem[p].vpn)
           /\ PersistEnrolled(p) =>
                  Persist(p, "enrolled") /\ "enrolled" \in Following(mem[p].vpn)
BY DEF TypeInv, Working, PersistAgent, PersistAllocation, PersistEnrolled, Following

LEMMA TypeStep == TypeInv /\ [Next]_vars => TypeInv'
<1> SUFFICES ASSUME TypeInv, [Next]_vars PROVE TypeInv'
  OBVIOUS
<1>a. trusted \in [Ids -> SUBSET Users]
  BY DEF TypeInv, TypeOK
<1>b. FileTyped' /\ trusted' \in [Ids -> SUBSET Users] => TypeInv'
  BY DEF FileTyped, TypeInv, TypeOK
<1>1. ASSUME NEW p \in Sessions, Load(p) PROVE TypeInv'
  <2>1. PICK r \in Edits!Request : /\ request' = [request EXCEPT ![p] = r]
                                   /\ asked' = asked \cup Asking(r)
    BY <1>1 DEF Load
  <2>2. Asking(r) \subseteq Ids \X Users \X (Edits!Actions \cup {"exempt"})
    BY RequestFields DEF Asking
  <2> QED
    BY <1>1, <2>1, <2>2 DEF Load, TypeInv, TypeOK, Working
<1>2. ASSUME NEW p \in Sessions, SaveInstance(p) PROVE TypeInv'
  <2> DEFINE policy == IF Found(p) THEN Loaded(p).policy ELSE NoPolicies
  <2> DEFINE instance == [autoStop |-> request[p].autoStop, exempt |-> {},
                          policy |-> Ensure(policy, Accounts)]
  <2>1. Serves(p, AllOps \ {"enroll"})
    BY <1>2 DEF SaveInstance, Serves, AllOps
  <2>2. request[p].id \in Ids /\ request[p].autoStop \in BOOLEAN
    BY <1>2, RequestFields DEF SaveInstance, Serves, TypeInv, Working
  <2>3. policy \in Edits!Policies
    BY <2>1, LoadedType, NoPoliciesType DEF Edits!Instance
  <2>4. instance \in Edits!Instance
    BY <2>2, <2>3, EnsureType DEF Edits!Instance
  <2>5. SaveWith(p, instance)
    BY <1>2 DEF SaveInstance
  <2>6. FileTyped'
    BY <2>1, <2>4, <2>5, SaveTyped
  <2>7. trusted' \in [Ids -> SUBSET Users]
    BY <1>2, <1>a, <2>2 DEF SaveInstance
  <2> QED
    BY <2>6, <2>7, <1>b
<1>3. ASSUME NEW p \in Sessions, DeleteInstance(p) PROVE TypeInv'
  <2>1. Serves(p, AllOps \ {"enroll"}) /\ request[p].id \in Ids
    BY <1>3, RequestFields DEF DeleteInstance, Serves, AllOps, TypeInv, Working
  <2>2. FileTyped'
    BY <1>3, <2>1, SaveTyped DEF DeleteInstance
  <2> QED
    BY <1>3, <1>a, <1>b, <2>1, <2>2 DEF DeleteInstance
<1>4. ASSUME NEW p \in Sessions, RunInstance(p) PROVE TypeInv'
  <2>1. Serves(p, AllOps \ {"enroll"})
    BY <1>4 DEF RunInstance, Serves, AllOps
  <2>2. Loaded(p) \in Edits!Instance
    BY <1>4, <2>1, LoadedType DEF RunInstance
  <2>3. [Loaded(p) EXCEPT !.policy = Ensure(@, request[p].seen \cup Accounts)]
           \in Edits!Instance
    BY <2>2, EnsureType DEF Edits!Instance
  <2>4. FileTyped'
    BY <1>4, <2>1, <2>3, SaveTyped DEF RunInstance
  <2> QED
    BY <1>4, <1>a, <1>b, <2>4 DEF RunInstance
<1>5. ASSUME NEW p \in Sessions, AddExempt(p) PROVE TypeInv'
  <2>1. /\ Serves(p, AllOps \ {"enroll"})
        /\ request[p].id \in Ids /\ request[p].user \in Users
    BY <1>5, RequestFields DEF AddExempt, Serves, AllOps, TypeInv, Working
  <2>2. Loaded(p) \in Edits!Instance
    BY <1>5, <2>1, LoadedType DEF AddExempt
  <2>3. [Loaded(p) EXCEPT !.exempt = @ \cup {request[p].user}] \in Edits!Instance
    BY <2>1, <2>2 DEF Edits!Instance
  <2>4. FileTyped'
    BY <1>5, <2>1, <2>3, SaveTyped DEF AddExempt
  <2> QED
    BY <1>5, <1>b, <2>1, <2>4, TrustTyped DEF AddExempt
<1>6. ASSUME NEW p \in Sessions, RemoveExempt(p) PROVE TypeInv'
  <2>1. /\ Serves(p, AllOps \ {"enroll"})
        /\ request[p].id \in Ids /\ request[p].user \in Users
    BY <1>6, RequestFields DEF RemoveExempt, Serves, AllOps, TypeInv, Working
  <2>2. Loaded(p) \in Edits!Instance
    BY <1>6, <2>1, LoadedType DEF RemoveExempt
  <2>3. [Loaded(p) EXCEPT !.exempt = @ \ {request[p].user}] \in Edits!Instance
    BY <2>1, <2>2 DEF Edits!Instance
  <2>4. FileTyped'
    BY <1>6, <2>1, <2>3, SaveTyped DEF RemoveExempt
  <2> QED
    BY <1>6, <1>b, <2>1, <2>4, TrustTyped DEF RemoveExempt
<1>7. ASSUME NEW p \in Sessions, SaveUserPolicy(p) PROVE TypeInv'
  <2>1. /\ Serves(p, AllOps \ {"enroll"})
        /\ request[p].id \in Ids /\ request[p].user \in Users
        /\ request[p].action \in Edits!Actions
    BY <1>7, RequestFields DEF SaveUserPolicy, Serves, AllOps, TypeInv, Working
  <2>2. Loaded(p) \in Edits!Instance
    BY <1>7, <2>1, LoadedType DEF SaveUserPolicy
  <2>3. SavedPolicy(Loaded(p), request[p].user, request[p].action) \in Edits!Instance
    BY <2>1, <2>2, InstanceTypes
  <2>4. FileTyped'
    BY <1>7, <2>1, <2>3, SaveTyped DEF SaveUserPolicy
  <2> QED
    BY <1>7, <1>b, <2>1, <2>4, TrustTyped DEF SaveUserPolicy
<1>8. ASSUME NEW p \in Sessions, UnknownInstance(p) \/ Abort(p) PROVE TypeInv'
  BY <1>8, ReturnTyped DEF UnknownInstance, Abort, TypeInv, TypeOK
<1>9. ASSUME NEW p \in Sessions, NothingToSave(p) PROVE TypeInv'
  <2>1. request[p].id \in Ids /\ request[p].user \in Users
    BY <1>9, RequestFields DEF NothingToSave, Serves, TypeInv, Working
  <2> QED
    BY <1>9, <2>1, ReturnTyped, TrustTyped DEF NothingToSave, TypeInv, TypeOK
<1>10. ASSUME NEW p \in Sessions, PersistAgent(p) \/ PersistAllocation(p) PROVE TypeInv'
  <2>1. /\ file' \in Edits!Config
        /\ UNCHANGED <<requests, asked, trusted>>
        /\ request[p] \in Edits!Request /\ request[p].op = "enroll"
        /\ \/ Proceed(p, "allocate") /\ "agent" \in file'.vpn
           \/ Proceed(p, "register") /\ {"agent", "allocation"} \subseteq file'.vpn
    <3>1. CASE PersistAgent(p)
      <4>1. file' \in Edits!Config /\ file'.vpn = mem[p].vpn \cup {"agent"}
        BY <3>1, StagesFollow, PersistEffect
      <4> QED
        BY <3>1, <4>1 DEF PersistAgent, Persist, Serves, TypeInv, Working
    <3>2. CASE PersistAllocation(p)
      <4>1. file' \in Edits!Config /\ file'.vpn = mem[p].vpn \cup {"allocation"}
        BY <3>2, StagesFollow, PersistEffect
      <4> QED
        BY <3>2, <4>1 DEF PersistAllocation, Persist, TypeInv, Working
    <3> QED
      BY <1>10, <3>1, <3>2
  <2> QED
    BY <2>1 DEF Proceed, TypeInv, TypeOK, Working
<1>11. ASSUME NEW p \in Sessions, ReuseAllocation(p) PROVE TypeInv'
  BY <1>11 DEF ReuseAllocation, TypeInv, TypeOK, Working
<1>12. ASSUME NEW p \in Sessions, PersistEnrolled(p) PROVE TypeInv'
  <2>1. file' \in Edits!Config
    BY <1>12, StagesFollow, PersistEffect
  <2> QED
    BY <1>12, <2>1, ReturnTyped DEF PersistEnrolled, Persist, TypeInv, TypeOK
<1>13. ASSUME UNCHANGED vars PROVE TypeInv'
  BY <1>13 DEF vars, TypeInv, TypeOK, Working
<1> QED
  BY <1>1, <1>2, <1>3, <1>4, <1>5, <1>6, <1>7, <1>8, <1>9, <1>10, <1>11, <1>12, <1>13
  DEF Next, Session

LEMMA InitTyped == Init => TypeInv
<1> SUFFICES ASSUME Init PROVE TypeInv
  OBVIOUS
<1>1. file \in Edits!Config
  BY NoPoliciesType DEF Init, InitialFile, Edits!Config, Edits!Instance, Edits!Stages
<1>2. \A id \in Ids : ExemptIn(file, id) \subseteq Users
  BY <1>1 DEF ExemptIn, Edits!Config, Edits!Instance
<1> QED
  BY <1>1, <1>2, EmptyConfigType DEF Init, TypeInv, TypeOK, Working

(* Every variable has its type, for sessions that overlap in any way.       *)
THEOREM TypeCorrect == Spec => []TypeOK
<1>1. Spec => []TypeInv
  BY InitTyped, TypeStep, PTL DEF Spec
<1> QED
  BY <1>1, PTL DEF TypeInv

-----------------------------------------------------------------------------
(* Overlapping sessions never invent a policy.                              *)

LEMMA SoundGrows ==
    ASSUME NEW config, NEW known, NEW more, known \subseteq more, Sound(config, known)
    PROVE  Sound(config, more)
BY DEF Sound, SoundInstance

LEMMA SoundEmpty == ASSUME NEW known PROVE Sound(EmptyConfig, known)
BY DEF Sound, EmptyConfig

(* A sound instance may take the place of any other in a sound              *)
(* configuration.                                                           *)
LEMMA SoundReplace ==
    ASSUME NEW config \in Edits!Config, NEW id \in Ids,
           NEW instance \in Edits!Instance \cup {Gone},
           NEW known, Sound(config, known),
           instance # Gone => SoundInstance(id, instance, known)
    PROVE  Sound([config EXCEPT !.instances[id] = instance], known)
BY ReplaceType DEF Sound

LEMMA SoundEnsure ==
    ASSUME NEW id \in Ids, NEW policy \in Edits!Policies, NEW users, NEW known,
           \A u \in Users : policy[u] \notin {Unset, "global"} =>
                               <<id, u, policy[u]>> \in known
    PROVE  \A u \in Users : Ensure(policy, users)[u] \notin {Unset, "global"} =>
                               <<id, u, Ensure(policy, users)[u]>> \in known
BY DEF Ensure

(* What a save does to AskedInv is a matter of the instance it saves.       *)
LEMMA SaveKeepsAsked ==
    ASSUME TypeInv, AskedInv, NEW p \in Sessions, Serves(p, AllOps \ {"enroll"}),
           NEW instance \in Edits!Instance \cup {Gone}, SaveWith(p, instance),
           instance # Gone => SoundInstance(request[p].id, instance, asked)
    PROVE  AskedInv'
<1>1. request[p].id \in Ids /\ mem[p] \in Edits!Config
  BY RequestFields DEF TypeInv, TypeOK, Working, Serves
<1>2. Sound(file', asked)
  BY <1>1, SoundReplace DEF SaveWith, AskedInv
<1>3. /\ pc \in [Sessions -> {"idle", "loaded", "allocate", "register"}]
      /\ request \in [Sessions -> Edits!Request \cup {Nothing}]
      /\ mem \in [Sessions -> Edits!Config]
  BY DEF TypeInv, TypeOK
<1>4. /\ asked' = asked
      /\ pc' = [pc EXCEPT ![p] = "idle"]
      /\ request' = [request EXCEPT ![p] = Nothing]
      /\ mem' = [mem EXCEPT ![p] = EmptyConfig]
  BY DEF SaveWith, Return
<1>5. ASSUME NEW q \in Sessions
      PROVE  /\ Sound(mem'[q], asked)
             /\ pc'[q] = "loaded" => Asking(request'[q]) \subseteq asked
  BY <1>3, <1>4, SoundEmpty DEF AskedInv
<1> QED
  BY <1>2, <1>4, <1>5 DEF AskedInv

LEMMA ReturnKeepsAsked ==
    ASSUME TypeInv, AskedInv, NEW p \in Sessions, NEW outcome, Return(p, outcome),
           asked' = asked, Sound(file', asked)
    PROVE  AskedInv'
<1>1. ASSUME NEW q \in Sessions
      PROVE  /\ Sound(mem'[q], asked)
             /\ pc'[q] = "loaded" => Asking(request'[q]) \subseteq asked
  BY SoundEmpty DEF TypeInv, TypeOK, AskedInv, Return
<1> QED
  BY <1>1 DEF AskedInv

LEMMA PersistKeepsAsked ==
    ASSUME TypeInv, AskedInv, NEW p \in Sessions,
           NEW stage \in Following(mem[p].vpn), Persist(p, stage)
    PROVE  asked' = asked /\ Sound(file', asked)
BY PersistEffect DEF AskedInv, Persist, Sound

LEMMA LoadedSound ==
    ASSUME TypeInv, AskedInv, NEW p \in Sessions, Serves(p, AllOps \ {"enroll"}), Found(p)
    PROVE  /\ Loaded(p) \in Edits!Instance
           /\ request[p].id \in Ids
           /\ SoundInstance(request[p].id, Loaded(p), asked)
<1>1. request[p].id \in Ids
  BY RequestFields DEF TypeInv, Working, Serves
<1> QED
  BY <1>1, LoadedType DEF AskedInv, Sound, Found, Loaded

LEMMA AskedStep == TypeInv /\ AskedInv /\ [Next]_vars => AskedInv'
<1> SUFFICES ASSUME TypeInv, AskedInv, [Next]_vars PROVE AskedInv'
  OBVIOUS
<1>1. ASSUME NEW p \in Sessions, Load(p) PROVE AskedInv'
  <2>1. PICK r \in Edits!Request : /\ request' = [request EXCEPT ![p] = r]
                                   /\ asked' = asked \cup Asking(r)
    BY <1>1 DEF Load
  <2>2. /\ pc' = [pc EXCEPT ![p] = "loaded"]
        /\ mem' = [mem EXCEPT ![p] = file]
        /\ file' = file
    BY <1>1 DEF Load
  <2>3. Sound(file', asked')
    BY <2>1, <2>2, SoundGrows DEF AskedInv
  <2>4. ASSUME NEW q \in Sessions
        PROVE  /\ Sound(mem'[q], asked')
               /\ pc'[q] = "loaded" => Asking(request'[q]) \subseteq asked'
    <3>1. CASE q = p
      BY <2>1, <2>2, <2>3, <3>1 DEF TypeInv, TypeOK
    <3>2. CASE q # p
      <4>1. Sound(mem[q], asked')
        BY <2>1, SoundGrows DEF AskedInv
      <4> QED
        BY <2>1, <2>2, <3>2, <4>1 DEF AskedInv, TypeInv, TypeOK
    <3> QED
      BY <3>1, <3>2
  <2> QED
    BY <2>3, <2>4 DEF AskedInv
<1>2. ASSUME NEW p \in Sessions, SaveInstance(p) PROVE AskedInv'
  <2> DEFINE policy == IF Found(p) THEN Loaded(p).policy ELSE NoPolicies
  <2> DEFINE instance == [autoStop |-> request[p].autoStop, exempt |-> {},
                          policy |-> Ensure(policy, Accounts)]
  <2>1. Serves(p, AllOps \ {"enroll"})
    BY <1>2 DEF SaveInstance, Serves, AllOps
  <2>2. request[p].id \in Ids /\ request[p].autoStop \in BOOLEAN
    BY <1>2, RequestFields DEF SaveInstance, Serves, TypeInv, Working
  <2>3. /\ policy \in Edits!Policies
        /\ \A u \in Users : policy[u] \notin {Unset, "global"} =>
                               <<request[p].id, u, policy[u]>> \in asked
    <3>1. CASE Found(p)
      BY <2>1, <3>1, LoadedSound DEF Edits!Instance, SoundInstance
    <3>2. CASE ~ Found(p)
      BY <3>2, NoPoliciesType DEF NoPolicies
    <3> QED
      BY <3>1, <3>2
  <2>4. instance \in Edits!Instance
    BY <2>2, <2>3, EnsureType DEF Edits!Instance
  <2>5. SoundInstance(request[p].id, instance, asked)
    BY <2>2, <2>3, SoundEnsure DEF SoundInstance
  <2> QED
    BY <1>2, <2>1, <2>4, <2>5, SaveKeepsAsked DEF SaveInstance
<1>3. ASSUME NEW p \in Sessions, DeleteInstance(p) PROVE AskedInv'
  <2>1. Serves(p, AllOps \ {"enroll"})
    BY <1>3 DEF DeleteInstance, Serves, AllOps
  <2> QED
    BY <1>3, <2>1, SaveKeepsAsked DEF DeleteInstance
<1>4. ASSUME NEW p \in Sessions, RunInstance(p) PROVE AskedInv'
  <2> DEFINE instance == [Loaded(p) EXCEPT
                            !.policy = Ensure(@, request[p].seen \cup Accounts)]
  <2>1. Serves(p, AllOps \ {"enroll"}) /\ Found(p)
    BY <1>4 DEF RunInstance, Serves, AllOps
  <2>2. /\ Loaded(p) \in Edits!Instance
        /\ request[p].id \in Ids
        /\ SoundInstance(request[p].id, Loaded(p), asked)
    BY <2>1, LoadedSound
  <2>3. /\ instance \in Edits!Instance
        /\ instance.policy = Ensure(Loaded(p).policy, request[p].seen \cup Accounts)
        /\ instance.exempt = Loaded(p).exempt
    BY <2>2, EnsureType DEF Edits!Instance
  <2>4. SoundInstance(request[p].id, instance, asked)
    BY <2>2, <2>3, SoundEnsure DEF SoundInstance, Edits!Instance
  <2> QED
    BY <1>4, <2>1, <2>3, <2>4, SaveKeepsAsked DEF RunInstance
<1>5. ASSUME NEW p \in Sessions, AddExempt(p) PROVE AskedInv'
  <2> DEFINE instance == [Loaded(p) EXCEPT !.exempt = @ \cup {request[p].user}]
  <2>1. Serves(p, AllOps \ {"enroll"}) /\ Found(p)
    BY <1>5 DEF AddExempt, Serves, AllOps
  <2>2. /\ Loaded(p) \in Edits!Instance
        /\ SoundInstance(request[p].id, Loaded(p), asked)
    BY <2>1, LoadedSound
  <2>3. request[p].user \in Users
    BY <1>5, RequestFields DEF AddExempt, Serves, TypeInv, Working
  <2>4. <<request[p].id, request[p].user, "exempt">> \in asked
    BY <1>5 DEF AddExempt, Serves, AskedInv, Asking
  <2>5. /\ instance \in Edits!Instance
        /\ instance.policy = Loaded(p).policy
        /\ instance.exempt = Loaded(p).exempt \cup {request[p].user}
    BY <2>2, <2>3 DEF Edits!Instance
  <2>6. SoundInstance(request[p].id, instance, asked)
    BY <2>2, <2>4, <2>5 DEF SoundInstance
  <2> QED
    BY <1>5, <2>1, <2>5, <2>6, SaveKeepsAsked DEF AddExempt
<1>6. ASSUME NEW p \in Sessions, RemoveExempt(p) PROVE AskedInv'
  <2> DEFINE instance == [Loaded(p) EXCEPT !.exempt = @ \ {request[p].user}]
  <2>1. Serves(p, AllOps \ {"enroll"}) /\ Found(p)
    BY <1>6 DEF RemoveExempt, Serves, AllOps
  <2>2. /\ Loaded(p) \in Edits!Instance
        /\ SoundInstance(request[p].id, Loaded(p), asked)
    BY <2>1, LoadedSound
  <2>3. /\ instance \in Edits!Instance
        /\ instance.policy = Loaded(p).policy
        /\ instance.exempt = Loaded(p).exempt \ {request[p].user}
    BY <2>2 DEF Edits!Instance
  <2>4. SoundInstance(request[p].id, instance, asked)
    BY <2>2, <2>3 DEF SoundInstance
  <2> QED
    BY <1>6, <2>1, <2>3, <2>4, SaveKeepsAsked DEF RemoveExempt
<1>7. ASSUME NEW p \in Sessions, SaveUserPolicy(p) PROVE AskedInv'
  <2> DEFINE instance == SavedPolicy(Loaded(p), request[p].user, request[p].action)
  <2>1. Serves(p, AllOps \ {"enroll"}) /\ Found(p)
    BY <1>7 DEF SaveUserPolicy, Serves, AllOps
  <2>2. /\ Loaded(p) \in Edits!Instance
        /\ SoundInstance(request[p].id, Loaded(p), asked)
    BY <2>1, LoadedSound
  <2>3. request[p].user \in Users /\ request[p].action \in Edits!Actions
    BY <1>7, RequestFields DEF SaveUserPolicy, Serves, TypeInv, Working
  <2>4. <<request[p].id, request[p].user, request[p].action>> \in asked
    BY <1>7 DEF SaveUserPolicy, Serves, AskedInv, Asking
  <2>5. /\ instance \in Edits!Instance
        /\ instance.policy = [Loaded(p).policy EXCEPT ![request[p].user] = request[p].action]
        /\ instance.exempt = Loaded(p).exempt \ {request[p].user}
    BY <2>2, <2>3 DEF SavedPolicy, Edits!Instance, Edits!Policies
  <2>6. SoundInstance(request[p].id, instance, asked)
    BY <2>2, <2>3, <2>4, <2>5 DEF SoundInstance, Edits!Instance, Edits!Policies
  <2> QED
    BY <1>7, <2>1, <2>5, <2>6, SaveKeepsAsked DEF SaveUserPolicy
<1>8. ASSUME NEW p \in Sessions, UnknownInstance(p) \/ NothingToSave(p) \/ Abort(p)
      PROVE  AskedInv'
  BY <1>8, ReturnKeepsAsked DEF UnknownInstance, NothingToSave, Abort, AskedInv
<1>9. ASSUME NEW p \in Sessions, PersistAgent(p) \/ PersistAllocation(p) PROVE AskedInv'
  <2>1. asked' = asked /\ Sound(file', asked)
    BY <1>9, StagesFollow, PersistKeepsAsked
  <2>2. \E label \in {"allocate", "register"} : Proceed(p, label)
    BY <1>9 DEF PersistAgent, PersistAllocation
  <2>3. ASSUME NEW q \in Sessions
        PROVE  /\ Sound(mem'[q], asked)
               /\ pc'[q] = "loaded" => Asking(request'[q]) \subseteq asked
    BY <2>1, <2>2 DEF Proceed, AskedInv, TypeInv, TypeOK
  <2> QED
    BY <2>1, <2>3 DEF AskedInv
<1>10. ASSUME NEW p \in Sessions, ReuseAllocation(p) PROVE AskedInv'
  BY <1>10 DEF ReuseAllocation, AskedInv, TypeInv, TypeOK
<1>11. ASSUME NEW p \in Sessions, PersistEnrolled(p) PROVE AskedInv'
  <2>1. asked' = asked /\ Sound(file', asked)
    BY <1>11, StagesFollow, PersistKeepsAsked
  <2> QED
    BY <1>11, <2>1, ReturnKeepsAsked DEF PersistEnrolled
<1>12. ASSUME UNCHANGED vars PROVE AskedInv'
  BY <1>12 DEF vars, AskedInv
<1> QED
  BY <1>1, <1>2, <1>3, <1>4, <1>5, <1>6, <1>7, <1>8, <1>9, <1>10, <1>11, <1>12
  DEF Next, Session

LEMMA InitAsked == Init => AskedInv
<1> SUFFICES ASSUME Init PROVE AskedInv
  OBVIOUS
<1>1. ASSUME NEW id \in Ids, file.instances[id] # Gone
      PROVE  SoundInstance(id, file.instances[id], asked)
  <2>1. file.instances[id].policy = NoPolicies
    BY <1>1 DEF Init, InitialFile
  <2>2. ASSUME NEW u \in Users, u \in file.instances[id].exempt
        PROVE  <<id, u, "exempt">> \in asked
    BY <1>1, <2>2 DEF Init, ExemptIn
  <2> QED
    BY <2>1, <2>2 DEF SoundInstance, NoPolicies
<1> QED
  BY <1>1, SoundEmpty DEF Init, AskedInv, Sound

(* Overlapping sessions never leave a policy or an exemption in the file    *)
(* that nobody has asked for.                                               *)
THEOREM PoliciesAreAsked == Spec => []OnlyAsked
<1>1. Init => TypeInv /\ AskedInv
  BY InitTyped, InitAsked
<1>2. TypeInv /\ AskedInv /\ [Next]_vars => (TypeInv /\ AskedInv)'
  BY TypeStep, AskedStep
<1>3. AskedInv => OnlyAsked
  BY DEF AskedInv, Sound, SoundInstance, OnlyAsked
<1> QED
  BY <1>1, <1>2, <1>3, PTL DEF Spec

-----------------------------------------------------------------------------
(* A saved policy is lost only to a copy that was out of date.              *)

(* The policy of u in the instance id has been there and changes.           *)
Changes(id, u) ==
    /\ file.instances[id] # Gone /\ file'.instances[id] # Gone
    /\ file.instances[id].policy[u] # Unset
    /\ file'.instances[id].policy[u] # file.instances[id].policy[u]

(* A session may change it: it was asked to, or its copy is out of date.    *)
Explains(p, id, u) ==
    /\ pc'[p] # pc[p]
    /\ \/ /\ Serves(p, {"policy"})
          /\ request[p].id = id /\ request[p].user = u
       \/ mem[p].instances[id] # file.instances[id]

(* A save is explained if its instance keeps the policies it has seen.      *)
LEMMA SaveExplained ==
    ASSUME TypeInv, NEW p \in Sessions, Serves(p, AllOps \ {"enroll"}),
           NEW instance \in Edits!Instance \cup {Gone}, SaveWith(p, instance),
           NEW id \in Ids, NEW u \in Users, Changes(id, u),
           request[p].id = id /\ Found(p) =>
               \/ instance.policy[u] = Loaded(p).policy[u]
               \/ Loaded(p).policy[u] = Unset
               \/ Serves(p, {"policy"}) /\ request[p].user = u
    PROVE  Explains(p, id, u)
<1>1. request[p].id \in Ids /\ mem[p] \in Edits!Config
  BY RequestFields DEF TypeInv, TypeOK, Working, Serves
<1>2. pc'[p] # pc[p]
  BY DEF TypeInv, TypeOK, SaveWith, Return, Serves
<1>3. CASE mem[p].instances[id] = file.instances[id]
  <2>1. /\ file'.instances[request[p].id] = instance
        /\ request[p].id # id => file'.instances[id] = mem[p].instances[id]
    BY <1>1, ReplaceType DEF SaveWith
  <2>2. request[p].id = id
    BY <1>3, <2>1 DEF Changes
  <2>3. Found(p) /\ Loaded(p) = file.instances[id]
    BY <1>3, <2>2 DEF Changes, Found, Loaded
  <2>4. Serves(p, {"policy"}) /\ request[p].user = u
    BY <2>1, <2>2, <2>3 DEF Changes
  <2> QED
    BY <1>2, <2>2, <2>4 DEF Explains
<1> QED
  BY <1>2, <1>3 DEF Explains

LEMMA PersistExplained ==
    ASSUME TypeInv, NEW p \in Sessions, NEW stage \in Following(mem[p].vpn),
           Persist(p, stage), pc'[p] # pc[p],
           NEW id \in Ids, NEW u \in Users, Changes(id, u)
    PROVE  Explains(p, id, u)
BY PersistEffect DEF Changes, Explains

LEMMA EnsureKeeps ==
    ASSUME NEW policy \in Edits!Policies, NEW users, NEW u \in Users
    PROVE  Ensure(policy, users)[u] = policy[u] \/ policy[u] = Unset
BY DEF Ensure

LEMMA ChangeExplained ==
    ASSUME TypeInv, [Next]_vars, NEW id \in Ids, NEW u \in Users, Changes(id, u)
    PROVE  \E p \in Sessions : Explains(p, id, u)
<1>1. ASSUME NEW p \in Sessions, SaveInstance(p) PROVE Explains(p, id, u)
  <2> DEFINE policy == IF Found(p) THEN Loaded(p).policy ELSE NoPolicies
  <2> DEFINE instance == [autoStop |-> request[p].autoStop, exempt |-> {},
                          policy |-> Ensure(policy, Accounts)]
  <2>1. Serves(p, AllOps \ {"enroll"})
    BY <1>1 DEF SaveInstance, Serves, AllOps
  <2>2. request[p].autoStop \in BOOLEAN
    BY <1>1, RequestFields DEF SaveInstance, Serves, TypeInv, Working
  <2>3. policy \in Edits!Policies
    BY <2>1, LoadedType, NoPoliciesType DEF Edits!Instance
  <2>4. instance \in Edits!Instance
    BY <2>2, <2>3, EnsureType DEF Edits!Instance
  <2>5. Ensure(policy, Accounts)[u] = policy[u] \/ policy[u] = Unset
    BY <2>3, EnsureKeeps
  <2> QED
    BY <1>1, <2>1, <2>4, <2>5, SaveExplained DEF SaveInstance
<1>2. ASSUME NEW p \in Sessions, DeleteInstance(p) PROVE Explains(p, id, u)
  <2>1. Serves(p, AllOps \ {"enroll"}) /\ request[p].id \in Ids
    BY <1>2, RequestFields DEF DeleteInstance, Serves, AllOps, TypeInv, Working
  <2>2. mem[p] \in Edits!Config
    BY DEF TypeInv, TypeOK
  <2>3. file' = [mem[p] EXCEPT !.instances[request[p].id] = Gone]
    BY <1>2 DEF DeleteInstance, SaveWith
  <2>4. file'.instances[request[p].id] = Gone
    BY <2>1, <2>2, <2>3 DEF Edits!Config
  <2> QED
    BY <1>2, <2>1, <2>4, SaveExplained DEF DeleteInstance, Changes
<1>3. ASSUME NEW p \in Sessions, RunInstance(p) PROVE Explains(p, id, u)
  <2> DEFINE users == request[p].seen \cup Accounts
  <2> DEFINE instance == [Loaded(p) EXCEPT !.policy = Ensure(@, users)]
  <2>1. Serves(p, AllOps \ {"enroll"}) /\ Found(p)
    BY <1>3 DEF RunInstance, Serves, AllOps
  <2>2. Loaded(p) \in Edits!Instance /\ Loaded(p).policy \in Edits!Policies
    BY <2>1, LoadedType DEF Edits!Instance
  <2>3. instance \in Edits!Instance /\ instance.policy = Ensure(Loaded(p).policy, users)
    BY <2>2, EnsureType DEF Edits!Instance
  <2>4. Ensure(Loaded(p).policy, users)[u] = Loaded(p).policy[u] \/ Loaded(p).policy[u] = Unset
    BY <2>2, EnsureKeeps
  <2> QED
    BY <1>3, <2>1, <2>3, <2>4, SaveExplained DEF RunInstance
<1>4. ASSUME NEW p \in Sessions, AddExempt(p) \/ RemoveExempt(p) PROVE Explains(p, id, u)
  <2>1. Serves(p, AllOps \ {"enroll"}) /\ Found(p) /\ request[p].user \in Users
    BY <1>4, RequestFields DEF AddExempt, RemoveExempt, Serves, AllOps, TypeInv, Working
  <2>2. PICK users \in {Loaded(p).exempt \cup {request[p].user},
                        Loaded(p).exempt \ {request[p].user}} :
            SaveWith(p, [Loaded(p) EXCEPT !.exempt = users])
    BY <1>4 DEF AddExempt, RemoveExempt
  <2>3. /\ [Loaded(p) EXCEPT !.exempt = users] \in Edits!Instance
        /\ [Loaded(p) EXCEPT !.exempt = users].policy = Loaded(p).policy
    BY <2>1, <2>2, LoadedType DEF Edits!Instance
  <2> QED
    BY <2>1, <2>2, <2>3, SaveExplained
<1>5. ASSUME NEW p \in Sessions, SaveUserPolicy(p) PROVE Explains(p, id, u)
  <2> DEFINE instance == SavedPolicy(Loaded(p), request[p].user, request[p].action)
  <2>1. /\ Serves(p, AllOps \ {"enroll"}) /\ Serves(p, {"policy"}) /\ Found(p)
        /\ request[p].user \in Users /\ request[p].action \in Edits!Actions
    BY <1>5, RequestFields DEF SaveUserPolicy, Serves, AllOps, TypeInv, Working
  <2>2. Loaded(p) \in Edits!Instance
    BY <2>1, LoadedType
  <2>3. instance \in Edits!Instance
    BY <2>1, <2>2, InstanceTypes
  <2>4. instance.policy[u] = Loaded(p).policy[u] \/ request[p].user = u
    BY <2>1, <2>2 DEF SavedPolicy, Edits!Instance, Edits!Policies
  <2> QED
    BY <1>5, <2>1, <2>3, <2>4, SaveExplained DEF SaveUserPolicy
<1>6. ASSUME NEW p \in Sessions, PersistAgent(p) \/ PersistAllocation(p) \/ PersistEnrolled(p)
      PROVE  Explains(p, id, u)
  <2>1. \E stage \in Following(mem[p].vpn) : Persist(p, stage)
    BY <1>6, StagesFollow
  <2>2. pc'[p] # pc[p]
    BY <1>6 DEF PersistAgent, PersistAllocation, PersistEnrolled, Serves, Proceed,
                Return, TypeInv, TypeOK
  <2> QED
    BY <2>1, <2>2, PersistExplained
<1>7. ASSUME NEW p \in Sessions,
             \/ Load(p) \/ UnknownInstance(p) \/ NothingToSave(p)
             \/ ReuseAllocation(p) \/ Abort(p)
      PROVE  FALSE
  BY <1>7 DEF Changes, Load, UnknownInstance, NothingToSave, ReuseAllocation, Abort
<1>8. ASSUME UNCHANGED vars PROVE FALSE
  BY <1>8 DEF vars, Changes
<1> QED
  BY <1>1, <1>2, <1>3, <1>4, <1>5, <1>6, <1>7, <1>8 DEF Next, Session

(* However sessions overlap, a policy that was saved for a user changes     *)
(* only on request, or by a session whose copy of the instance is older.    *)
THEOREM PoliciesStick == Spec => PolicySticks
<1> DEFINE Body == \A id \in Ids, u \in Users :
                     Changes(id, u) => \E p \in Sessions : Explains(p, id, u)
<1>1. TypeInv /\ [Next]_vars => Body
  BY ChangeExplained
<1>2. Spec => [][Body]_vars
  BY <1>1, InitTyped, TypeStep, PTL DEF Spec
<1> QED
  BY <1>2 DEF PolicySticks, Changes, Explains

-----------------------------------------------------------------------------
(* One session at a time implements ConfigEdits.                            *)

OneSession == \A p, q \in Sessions : p = q

LEMMA UpToDateStep ==
    ASSUME OneSession, TypeInv, UpToDate, [Next]_vars
    PROVE  UpToDate'
<1>t. /\ pc \in [Sessions -> {"idle", "loaded", "allocate", "register"}]
      /\ request \in [Sessions -> Edits!Request \cup {Nothing}]
      /\ mem \in [Sessions -> Edits!Config]
  BY DEF TypeInv, TypeOK
<1>1. ASSUME NEW p \in Sessions, NEW outcome, Return(p, outcome) PROVE UpToDate'
  BY <1>t, <1>1 DEF Return, UpToDate, OneSession
<1>2. ASSUME NEW p \in Sessions, Load(p) PROVE UpToDate'
  BY <1>t, <1>2 DEF Load, UpToDate, OneSession
<1>3. ASSUME NEW p \in Sessions, PersistAgent(p) \/ PersistAllocation(p) PROVE UpToDate'
  <2>1. PICK label \in {"allocate", "register"} : Proceed(p, label)
    BY <1>3 DEF PersistAgent, PersistAllocation
  <2> QED
    BY <1>t, <2>1 DEF Proceed, UpToDate, OneSession
<1>4. ASSUME NEW p \in Sessions, ReuseAllocation(p) PROVE UpToDate'
  BY <1>4, <1>t DEF ReuseAllocation, UpToDate, OneSession
<1>5. CASE UNCHANGED vars
  BY <1>5 DEF vars, UpToDate
<1> QED
  BY <1>1, <1>2, <1>3, <1>4, <1>5
  DEF Next, Session, SaveInstance, DeleteInstance, RunInstance, AddExempt,
      RemoveExempt, SaveUserPolicy, SaveWith, UnknownInstance, NothingToSave,
      PersistEnrolled, Abort

(* The request a session serves is the one it has asked.                    *)
LEMMA ServedIsAsked ==
    ASSUME TypeInv, UpToDate, NEW p \in Sessions, pc[p] # "idle"
    PROVE  /\ request[p] \in Edits!Request /\ request[p] # Nothing
           /\ mem[p] = file
           /\ request[p].op # "enroll" =>
                  /\ request[p].id \in Ids
                  /\ Found(p) <=> Edits!Configured(request[p].id)
                  /\ Loaded(p) = Edits!Old(p)
BY RequestFields, NothingAssumption
DEF TypeInv, Working, UpToDate, Found, Loaded, Edits!Configured, Edits!Old

(* A save by a session whose copy is up to date changes one instance.       *)
LEMMA SaveIsMade ==
    ASSUME TypeInv, UpToDate, NEW p \in Sessions, pc[p] # "idle",
           NEW instance, SaveWith(p, instance)
    PROVE  Edits!Make(p, instance)
<1>1. mem[p] = file
  BY ServedIsAsked
<1> QED
  BY <1>1 DEF SaveWith, Return, Edits!Make, Edits!Answer

LEMMA StepIsEdit ==
    ASSUME TypeInv, UpToDate, [Next]_vars
    PROVE  [Edits!Next]_<<file, request, answer>>
<1>1. ASSUME NEW p \in Sessions, Load(p) PROVE Edits!Ask(p)
  BY <1>1 DEF Load, Edits!Ask, UpToDate
<1>2. ASSUME NEW p \in Sessions, SaveInstance(p) PROVE Edits!Configure(p)
  <2> DEFINE old == IF Found(p) THEN Loaded(p).policy ELSE NoPolicies
  <2> DEFINE policy == Ensure(old, Accounts)
  <2>1. Serves(p, AllOps \ {"enroll"}) /\ Serves(p, {"save_instance"})
    BY <1>2 DEF SaveInstance, Serves, AllOps
  <2>2. /\ request[p] # Nothing
        /\ Found(p) <=> Edits!Configured(request[p].id)
        /\ Loaded(p) = Edits!Old(p)
    BY <2>1, ServedIsAsked DEF Serves
  <2>3. old \in Edits!Policies
    BY <2>1, LoadedType, NoPoliciesType DEF Edits!Instance
  <2>4. policy \in Edits!Policies /\ policy = Edits!WithDefaults(old, Accounts)
    BY <2>3, EnsureType
  <2>5. Edits!Make(p, [autoStop |-> request[p].autoStop, exempt |-> {},
                       policy |-> policy])
    BY <1>2, <2>1, SaveIsMade DEF SaveInstance, Serves
  <2>6. /\ Edits!Configured(request[p].id) =>
             policy = Edits!WithDefaults(Edits!Old(p).policy, Accounts)
        /\ ~ Edits!Configured(request[p].id) =>
             policy = Edits!WithDefaults([u \in Users |-> Unset], Accounts)
    BY <2>2, <2>4 DEF NoPolicies
  <2>7. Edits!Asked(p, {"save_instance"})
    BY <2>1, <2>2 DEF Serves, Edits!Asked
  <2> QED
    BY <2>4, <2>5, <2>6, <2>7 DEF Edits!Configure
<1>3. ASSUME NEW p \in Sessions, DeleteInstance(p) PROVE Edits!Remove(p)
  <2>1. pc[p] # "idle" /\ request[p].op = "delete"
    BY <1>3 DEF DeleteInstance, Serves
  <2>2. Edits!Make(p, Gone)
    BY <1>3, <2>1, SaveIsMade DEF DeleteInstance
  <2> QED
    BY <2>1, <2>2, ServedIsAsked DEF Edits!Remove, Edits!Asked
<1>4. ASSUME NEW p \in Sessions, RunInstance(p) PROVE Edits!Discover(p)
  <2> DEFINE users == request[p].seen \cup Accounts
  <2>1. /\ Serves(p, AllOps \ {"enroll"}) /\ Found(p)
        /\ pc[p] # "idle" /\ request[p].op = "run_instance"
    BY <1>4 DEF RunInstance, Serves, AllOps
  <2>2. Loaded(p).policy \in Edits!Policies
    BY <2>1, LoadedType DEF Edits!Instance
  <2>3. Ensure(Loaded(p).policy, users) = Edits!WithDefaults(Loaded(p).policy, users)
    BY <2>2, EnsureType
  <2>4. Edits!Make(p, [Loaded(p) EXCEPT !.policy = Ensure(@, users)])
    BY <1>4, <2>1, SaveIsMade DEF RunInstance
  <2>5. [Loaded(p) EXCEPT !.policy = Ensure(@, users)]
          = [Loaded(p) EXCEPT !.policy = Edits!WithDefaults(@, users)]
    BY <2>3
  <2>6. /\ Edits!Asked(p, {"run_instance"})
        /\ Edits!Configured(request[p].id)
        /\ Loaded(p) = Edits!Old(p)
    BY <2>1, ServedIsAsked DEF Edits!Asked
  <2> QED
    BY <2>4, <2>5, <2>6 DEF Edits!Discover
<1>5. ASSUME NEW p \in Sessions, AddExempt(p) PROVE Edits!Exempt(p)
  <2>1. pc[p] # "idle" /\ request[p].op = "exempt" /\ Found(p)
    BY <1>5 DEF AddExempt, Serves
  <2>2. Edits!Make(p, [Loaded(p) EXCEPT !.exempt = @ \cup {request[p].user}])
    BY <1>5, <2>1, SaveIsMade DEF AddExempt
  <2> QED
    BY <2>1, <2>2, ServedIsAsked DEF Edits!Exempt, Edits!Asked
<1>6. ASSUME NEW p \in Sessions, RemoveExempt(p) PROVE Edits!Unexempt(p)
  <2>1. pc[p] # "idle" /\ request[p].op = "unexempt" /\ Found(p)
    BY <1>6 DEF RemoveExempt, Serves
  <2>2. Edits!Make(p, [Loaded(p) EXCEPT !.exempt = @ \ {request[p].user}])
    BY <1>6, <2>1, SaveIsMade DEF RemoveExempt
  <2> QED
    BY <2>1, <2>2, ServedIsAsked DEF Edits!Unexempt, Edits!Asked
<1>7. ASSUME NEW p \in Sessions, SaveUserPolicy(p) PROVE Edits!SetPolicy(p)
  <2>1. pc[p] # "idle" /\ request[p].op = "policy" /\ Found(p)
    BY <1>7 DEF SaveUserPolicy, Serves
  <2>2. Edits!Make(p, SavedPolicy(Loaded(p), request[p].user, request[p].action))
    BY <1>7, <2>1, SaveIsMade DEF SaveUserPolicy
  <2> QED
    BY <2>1, <2>2, ServedIsAsked DEF Edits!SetPolicy, Edits!Asked, SavedPolicy
<1>8. ASSUME NEW p \in Sessions, UnknownInstance(p) PROVE Edits!Refuse(p)
  <2>1. /\ pc[p] # "idle" /\ ~ Found(p)
        /\ request[p].op \in {"run_instance", "exempt", "unexempt", "policy"}
    BY <1>8 DEF UnknownInstance, Serves
  <2> QED
    BY <1>8, <2>1, ServedIsAsked
    DEF UnknownInstance, Return, Edits!Refuse, Edits!Asked, Edits!Answer
<1>9. ASSUME NEW p \in Sessions, NothingToSave(p)
      PROVE  Edits!Exempt(p) \/ Edits!Unexempt(p)
  <2>1. /\ Serves(p, AllOps \ {"enroll"}) /\ Found(p)
        /\ pc[p] # "idle" /\ request[p].op \in {"exempt", "unexempt"}
        /\ (request[p].op = "exempt") <=> (request[p].user \in Loaded(p).exempt)
    BY <1>9 DEF NothingToSave, Serves, AllOps
  <2>2. /\ Edits!Asked(p, {request[p].op})
        /\ request[p].id \in Ids
        /\ Edits!Configured(request[p].id)
        /\ Loaded(p) = Edits!Old(p)
    BY <2>1, ServedIsAsked DEF Edits!Asked
  <2>3. Edits!Old(p) \in Edits!Instance /\ file \in Edits!Config
    BY <2>1, <2>2, LoadedType DEF TypeInv, TypeOK
  <2>4. file = [file EXCEPT !.instances[request[p].id] = Edits!Old(p)]
    BY <2>2, <2>3 DEF Edits!Old, Edits!Config
  <2>5. file' = file /\ Edits!Answer(p, "ok")
    BY <1>9 DEF NothingToSave, Return, Edits!Answer
  <2>6. Edits!Make(p, Edits!Old(p))
    BY <2>4, <2>5 DEF Edits!Make
  <2>7. CASE request[p].op = "exempt"
    <3>1. [Edits!Old(p) EXCEPT !.exempt = @ \cup {request[p].user}] = Edits!Old(p)
      BY <2>1, <2>2, <2>3, <2>7 DEF Edits!Instance
    <3> QED
      BY <2>2, <2>6, <2>7, <3>1 DEF Edits!Exempt
  <2>8. CASE request[p].op = "unexempt"
    <3>1. [Edits!Old(p) EXCEPT !.exempt = @ \ {request[p].user}] = Edits!Old(p)
      BY <2>1, <2>2, <2>3, <2>8 DEF Edits!Instance
    <3> QED
      BY <2>2, <2>6, <2>8, <3>1 DEF Edits!Unexempt
  <2> QED
    BY <2>1, <2>7, <2>8
<1>10. ASSUME NEW p \in Sessions, NEW stage \in {"agent", "allocation"},
              Persist(p, stage), stage \in Following(mem[p].vpn),
              \E label : Proceed(p, label), pc[p] # "idle", request[p].op = "enroll"
       PROVE  Edits!Advance(p)
  <2>1. mem[p] = file /\ Edits!Asked(p, {"enroll"}) /\ UNCHANGED <<request, answer>>
    BY <1>10, ServedIsAsked DEF Edits!Asked, Proceed
  <2>2. file' \in Edits!Config /\ file'.vpn = file.vpn \cup {stage}
    BY <1>10, <2>1, PersistEffect
  <2>3. file' = [file EXCEPT !.vpn = @ \cup {stage}]
    BY <1>10, <2>1 DEF Persist
  <2>4. file.vpn \cup {stage} \in Edits!Stages
    BY <2>2 DEF Edits!Config
  <2> QED
    BY <2>1, <2>3, <2>4 DEF Edits!Advance
<1>11. ASSUME NEW p \in Sessions, PersistAgent(p) \/ PersistAllocation(p)
       PROVE  Edits!Advance(p)
  <2>1. pc[p] # "idle" /\ request[p].op = "enroll" /\ \E label : Proceed(p, label)
    BY <1>11 DEF PersistAgent, PersistAllocation, Serves, TypeInv, Working
  <2> QED
    BY <1>10, <1>11, <2>1, StagesFollow
<1>12. ASSUME NEW p \in Sessions, PersistEnrolled(p) PROVE Edits!Complete(p)
  <2>1. /\ pc[p] = "register" /\ request[p].op = "enroll"
        /\ {"agent", "allocation"} \subseteq mem[p].vpn
    BY <1>12 DEF PersistEnrolled, TypeInv, Working
  <2>2. mem[p] = file /\ Edits!Asked(p, {"enroll"}) /\ file \in Edits!Config
    BY <2>1, ServedIsAsked DEF Edits!Asked, TypeInv, TypeOK
  <2>3. file.vpn \cup {"enrolled"} = Edits!Enrolled
    BY <2>1, <2>2 DEF Edits!Config, Edits!Stages, Edits!Enrolled
  <2>4. file' = [file EXCEPT !.vpn = Edits!Enrolled]
    BY <1>12, <2>2, <2>3 DEF PersistEnrolled, Persist
  <2> QED
    BY <1>12, <2>1, <2>2, <2>4
    DEF PersistEnrolled, Return, Edits!Complete, Edits!Answer
<1>13. ASSUME NEW p \in Sessions, Abort(p) PROVE Edits!Fail(p)
  BY <1>13, ServedIsAsked DEF Abort, Return, Edits!Fail, Edits!Answer
<1>14. ASSUME NEW p \in Sessions, ReuseAllocation(p) \/ UNCHANGED vars
       PROVE  UNCHANGED <<file, request, answer>>
  BY <1>14 DEF ReuseAllocation, vars
<1>15. CASE UNCHANGED vars
  BY <1>15 DEF vars
<1>16. ASSUME NEW p \in Sessions, Session(p)
       PROVE  Edits!Next \/ UNCHANGED <<file, request, answer>>
  BY <1>1, <1>2, <1>3, <1>4, <1>5, <1>6, <1>7, <1>8, <1>9, <1>11, <1>12, <1>13, <1>14, <1>16
  DEF Session, Edits!Next
<1> QED
  BY <1>15, <1>16 DEF Next

(* If sessions never overlap, every history of config.json and of the       *)
(* answers is one of ConfigEdits: a request changes what it names or, if it *)
(* is refused or dies, nothing.                                             *)
THEOREM Serialized ==
    ASSUME OneSession
    PROVE  Spec => EditsAreSerial
<1>1. Init => TypeInv /\ UpToDate
  BY InitTyped DEF Init, UpToDate
<1>2. TypeInv /\ UpToDate /\ [Next]_vars => (TypeInv /\ UpToDate)'
  BY TypeStep, UpToDateStep
<1>3. Init => Edits!Init
  <2>1. Init => file \in Edits!Config
    BY InitTyped DEF TypeInv, TypeOK
  <2>2. Init => file.vpn = {}
    BY DEF Init, InitialFile
  <2> QED
    BY <2>1, <2>2 DEF Init, Edits!Init
<1>4. TypeInv /\ UpToDate /\ [Next]_vars => [Edits!Next]_<<file, request, answer>>
  BY StepIsEdit
<1> QED
  BY <1>1, <1>2, <1>3, <1>4, PTL DEF Spec, EditsAreSerial, Edits!Spec

=============================================================================
