-------------------------- MODULE VpnEnrollProofs --------------------------
(***************************************************************************)
(* The properties of VpnEnroll, proved for any agent ids, keys and leases, *)
(* any number of attempts, failures, reboots and panel requests.           *)
(***************************************************************************)
EXTENDS VpnEnroll, TLAPS

(* Where the enrollment is says what it has found or made.                  *)
PlaceInv ==
    /\ pc \notin {"idle", "agent"} => mem.agent # None
    /\ pc \notin {"idle", "agent", "allocate"} => mem.lease # None
    /\ pc \notin {"idle", "agent", "allocate", "lease", "privateKey"} => private # None
    /\ pc \in {"wgConf", "tunnel", "env", "checker", "register", "enrolled"} => public # None
    /\ pc \in {"tunnel", "env", "checker", "register", "enrolled"} => wgConf # None
    /\ pc \in {"env", "checker", "register", "enrolled"} => tunnel # None
    /\ pc \in {"checker", "register", "enrolled"} => env # None
    /\ pc \in {"register", "enrolled"} => checker # None
    /\ tunnel # None => wgConf # None
    /\ checker # None => env # None

(* The copy of the enrollment is config.json, but for the lease it is about *)
(* to save.                                                                 *)
MemInv ==
    ~ undone =>
        /\ pc \notin {"idle", "lease"} => mem = config
        /\ pc = "lease" => config = [agent |-> mem.agent, lease |-> None,
                                     status |-> mem.status]

(* A recorded lease has been granted to the recorded agent.                 *)
GrantInv ==
    ~ undone =>
        /\ config.lease # None => /\ config.agent # None
                                  /\ config.lease \in granted[config.agent]
        /\ pc = "lease" => mem.lease \in granted[mem.agent]
        /\ stored => config.lease # None

(* A completed enrollment has everything EnrolledMeansReady speaks of.      *)
ReadyInv ==
    ~ undone =>
        /\ pc = "enrolled" => registered[mem.agent] = private
        /\ config.status = "enrolled" =>
               /\ config.lease # None /\ private # None
               /\ registered[config.agent] = private
               /\ tunnel # None /\ checker # None

-----------------------------------------------------------------------------
(* Type correctness.                                                        *)

TypeInv == TypeOK /\ PlaceInv

LEMMA NotSetTyped == NotSet \in Vpn
BY DEF NotSet, Vpn

LEMMA InitTyped == Init => TypeInv
<1> SUFFICES ASSUME Init PROVE TypeInv
  OBVIOUS
<1>1. TypeOK
  BY NotSetTyped DEF Init, TypeOK, Labels
<1>2. PlaceInv
  BY DEF Init, PlaceInv
<1> QED
  BY <1>1, <1>2 DEF TypeInv

LEMMA TypeStep == TypeInv /\ [Next]_vars => TypeInv'
<1> SUFFICES ASSUME TypeInv, [Next]_vars PROVE TypeInv'
  OBVIOUS
<1> USE NoneAssumption, BoundsAssumption
<1> USE DEF TypeInv, TypeOK, Labels, Goto, files, services, server, bounds, history, process
<1>1. CASE Load
  BY <1>1 DEF Load, PlaceInv
<1>2. CASE PersistAgent
  <2> USE <1>2 DEF PersistAgent, SaveAgent, SaveConfig
  <2>1. mem' \in Vpn /\ mem'.agent # None /\ drawn' \subseteq Agents \cup Keys
    <3>1. CASE mem.agent # None
      BY <3>1
    <3>2. CASE mem.agent = None
      <4>1. PICK a \in Agents : mem' = [mem EXCEPT !.agent = a] /\ drawn' = drawn \cup {a}
        BY <3>2
      <4> QED
        BY <4>1 DEF Vpn
    <3> QED
      BY <3>1, <3>2
  <2>2. TypeOK'
    BY <2>1
  <2>3. PlaceInv'
    BY <2>1 DEF PlaceInv
  <2> QED
    BY <2>2, <2>3
<1>3. CASE Allocate
  <2> USE <1>3 DEF Allocate
  <2>1. PICK l \in Grantable : Grant(l) /\ mem' = [mem EXCEPT !.lease = l]
    OBVIOUS
  <2>2. l \in Leases /\ l # None
    BY <2>1 DEF Grantable
  <2>3. mem' \in Vpn /\ mem'.agent = mem.agent /\ mem'.lease = l
    BY <2>1, <2>2 DEF Vpn
  <2>4. granted' \in [Agents -> SUBSET Leases]
    BY <2>1, <2>2 DEF Grant
  <2>5. TypeOK'
    BY <2>3, <2>4
  <2>6. PlaceInv'
    BY <2>2, <2>3 DEF PlaceInv
  <2> QED
    BY <2>5, <2>6
<1>4. CASE AllocateFails
  <2> USE <1>4 DEF AllocateFails
  <2>1. granted' \in [Agents -> SUBSET Leases]
    BY DEF Grantable, Grant
  <2>2. TypeOK'
    BY <2>1, NotSetTyped DEF Return
  <2>3. PlaceInv'
    BY DEF Return, PlaceInv
  <2> QED
    BY <2>2, <2>3
<1>5. CASE PersistLease
  BY <1>5 DEF PersistLease, SaveConfig, PlaceInv
<1>6. CASE ReuseLease
  BY <1>6 DEF ReuseLease, NeedsLease, PlaceInv
<1>7. CASE WritePrivateKey
  BY <1>7 DEF WritePrivateKey, NeedsKey, PlaceInv
<1>8. CASE WritePublicKey
  BY <1>8 DEF WritePublicKey, PlaceInv
<1>9. CASE WriteWgConf
  <2>1. wgConf' \in WgConf
    BY <1>9 DEF WriteWgConf, Vpn, WgConf, PlaceInv
  <2> QED
    BY <1>9, <2>1 DEF WriteWgConf, PlaceInv
<1>10. CASE StartTunnel
  BY <1>10 DEF StartTunnel, PlaceInv
<1>11. CASE WriteEnv
  <2>1. mem.lease \in Leases \cup {None} /\ mem.lease # None
    BY <1>11 DEF WriteEnv, Vpn, PlaceInv
  <2>2. TypeOK'
    BY <1>11, <2>1 DEF WriteEnv
  <2>3. PlaceInv'
    BY <1>11, <2>1 DEF WriteEnv, PlaceInv
  <2> QED
    BY <2>2, <2>3
<1>12. CASE StartChecker
  BY <1>12 DEF StartChecker, PlaceInv
<1>13. CASE Register
  <2> USE <1>13 DEF Register
  <2>1. registered' \in [Agents -> Keys \cup {None}]
    BY DEF Registered
  <2>2. TypeOK'
    BY <2>1
  <2>3. PlaceInv'
    BY DEF PlaceInv
  <2> QED
    BY <2>2, <2>3
<1>14. CASE RegisterFails
  <2> USE <1>14 DEF RegisterFails
  <2>1. registered' \in [Agents -> Keys \cup {None}]
    BY DEF Registered
  <2>2. TypeOK'
    BY <2>1, NotSetTyped DEF Return
  <2>3. PlaceInv'
    BY DEF PlaceInv, Return
  <2> QED
    BY <2>2, <2>3
<1>15. CASE PersistEnrolled
  <2> USE <1>15 DEF PersistEnrolled, SaveConfig, Return
  <2>1. config' \in Vpn
    BY DEF Vpn
  <2>2. TypeOK'
    BY <2>1, NotSetTyped
  <2>3. PlaceInv'
    BY DEF PlaceInv
  <2> QED
    BY <2>2, <2>3
<1>16. CASE Abort
  BY <1>16, NotSetTyped DEF Abort, Return, PlaceInv
<1>17. CASE Reboot
  <2>1. TypeOK'
    BY <1>17, NotSetTyped DEF Reboot, Return
  <2>2. PlaceInv'
    BY <1>17 DEF Reboot, Return, PlaceInv
  <2> QED
    BY <2>1, <2>2
<1>18. CASE PanelLoad
  BY <1>18 DEF PanelLoad, PlaceInv
<1>19. CASE PanelSave
  BY <1>19 DEF PanelSave, SaveConfig, PlaceInv
<1>20. CASE UNCHANGED vars
  BY <1>20 DEF vars, PlaceInv
<1> QED
  BY <1>1, <1>2, <1>3, <1>4, <1>5, <1>6, <1>7, <1>8, <1>9, <1>10, <1>11, <1>12,
     <1>13, <1>14, <1>15, <1>16, <1>17, <1>18, <1>19, <1>20 DEF Next, Step

(* Every variable has its type.                                             *)
THEOREM TypeCorrect == Spec => []TypeOK
BY InitTyped, TypeStep, PTL DEF Spec, TypeInv

-----------------------------------------------------------------------------
(* One key.                                                                 *)

LEMMA KeyStep == TypeInv /\ KeyInUse /\ [Next]_vars => KeyInUse'
<1> SUFFICES ASSUME TypeInv, KeyInUse, [Next]_vars PROVE KeyInUse'
  OBVIOUS
<1> USE NoneAssumption
<1> USE DEF TypeInv, TypeOK, PlaceInv, KeyInUse, WgConf, files, services, server
<1>1. CASE WritePrivateKey
  BY <1>1 DEF WritePrivateKey, NeedsKey
<1>2. CASE WritePublicKey
  BY <1>2 DEF WritePublicKey
<1>3. CASE WriteWgConf
  BY <1>3 DEF WriteWgConf
<1>4. CASE StartTunnel
  BY <1>4 DEF StartTunnel
<1>5. CASE Register
  BY <1>5 DEF Register, Registered
<1>6. CASE RegisterFails
  BY <1>6 DEF RegisterFails, Registered
<1>7. CASE Reboot
  BY <1>7 DEF Reboot
<1>8. CASE UNCHANGED <<private, public, wgConf, tunnel, registered>>
  BY <1>8
<1>9. \/ WritePrivateKey \/ WritePublicKey \/ WriteWgConf \/ StartTunnel
      \/ Register \/ RegisterFails \/ Reboot
      \/ UNCHANGED <<private, public, wgConf, tunnel, registered>>
  BY DEF Next, Step, vars, Load, PersistAgent, Allocate,
     AllocateFails, PersistLease, ReuseLease, WriteEnv, StartChecker,
     PersistEnrolled, Abort, PanelLoad, PanelSave
<1> QED
  BY <1>1, <1>2, <1>3, <1>4, <1>5, <1>6, <1>7, <1>8, <1>9

(* All that is configured, running or registered belongs to one private     *)
(* key, even when the panel has undone what the enrollment had saved.       *)
THEOREM OneKey == Spec => []KeyInUse
<1>1. Init => KeyInUse
  BY NoneAssumption DEF Init, KeyInUse
<1> QED
  BY <1>1, InitTyped, TypeStep, KeyStep, PTL DEF Spec

-----------------------------------------------------------------------------
(* What is in config.json.  A step that leaves `undone` FALSE has not put   *)
(* back anything.                                                           *)

SavedInv == MemInv /\ GrantInv

LEMMA InitSaved == Init => SavedInv
<1> SUFFICES ASSUME Init PROVE SavedInv
  OBVIOUS
<1>1. config.lease = None /\ pc = "idle" /\ ~ stored
  BY DEF Init, NotSet
<1> QED
  BY <1>1 DEF SavedInv, MemInv, GrantInv

(* The steps that save config.json, or take what is to be saved.            *)
LEMMA SavedStep == TypeInv /\ SavedInv /\ [Next]_vars => SavedInv'
<1> SUFFICES ASSUME TypeInv, SavedInv, [Next]_vars PROVE SavedInv'
  OBVIOUS
<1>a. undone' => SavedInv'
  <2>1. undone' => MemInv'
    BY DEF MemInv
  <2>2. undone' => GrantInv'
    BY DEF GrantInv
  <2> QED
    BY <2>1, <2>2 DEF SavedInv
<1>b. SUFFICES ASSUME ~ undone' PROVE SavedInv'
  BY <1>a
<1> USE NoneAssumption
<1> USE DEF TypeInv, TypeOK, PlaceInv, SavedInv, MemInv, GrantInv, Goto
<1>0. ~ undone
  <2>1. CASE PanelSave
    BY <2>1, <1>b DEF PanelSave
  <2>2. CASE undone' = undone
    BY <2>2, <1>b
  <2>3. PanelSave \/ undone' = undone
    BY DEF Next, Step, vars, history, Load, PersistAgent, Allocate, AllocateFails,
     PersistLease, ReuseLease, WritePrivateKey, WritePublicKey, WriteWgConf,
     StartTunnel, WriteEnv, StartChecker, Register, RegisterFails,
     PersistEnrolled, Abort, Reboot, PanelLoad
  <2> QED
    BY <2>1, <2>2, <2>3
<1>1. CASE PersistAgent
  <2> USE <1>1 DEF PersistAgent, SaveAgent, SaveConfig, server
  <2>1. mem = config /\ mem \in Vpn
    BY <1>0
  <2>2. mem'.lease = mem.lease /\ (mem.lease # None => mem'.agent = mem.agent)
    BY <1>0, <2>1 DEF Vpn
  <2> QED
    BY <1>0, <2>1, <2>2
<1>2. CASE Allocate
  <2> USE <1>2 DEF Allocate, NeedsLease, history
  <2>1. mem = config /\ mem \in Vpn /\ mem.agent \in Agents
    BY <1>0 DEF Vpn
  <2>2. PICK l \in Leases : Grant(l) /\ mem' = [mem EXCEPT !.lease = l]
    BY DEF Grantable
  <2>3. mem'.lease = l /\ mem'.agent = mem.agent
    BY <2>1, <2>2 DEF Vpn
  <2>4. l \in granted'[mem.agent]
    BY <2>1, <2>2 DEF Grant
  <2>5. config = [agent |-> mem'.agent, lease |-> None, status |-> mem'.status]
    BY <2>1, <2>2 DEF Vpn
  <2>6. config.lease = None
    BY <2>1
  <2> QED
    BY <1>0, <2>3, <2>4, <2>5, <2>6
<1>3. CASE AllocateFails
  <2>1. mem = config /\ mem.lease = None
    BY <1>0, <1>3 DEF AllocateFails, NeedsLease
  <2> QED
    BY <1>0, <1>3, <2>1 DEF AllocateFails, Return, history
<1>4. CASE PersistLease
  BY <1>0, <1>4 DEF PersistLease, SaveConfig, server
<1>5. CASE PersistEnrolled
  <2> USE <1>5 DEF PersistEnrolled, SaveConfig, Return, server
  <2>1. mem = config /\ mem \in Vpn
    BY <1>0
  <2>2. config'.lease = mem.lease /\ config'.agent = mem.agent
    BY <2>1 DEF Vpn
  <2> QED
    BY <1>0, <2>1, <2>2
<1>6. CASE PanelSave
  BY <1>0, <1>6 DEF PanelSave, SaveConfig, server, process
<1>7. CASE pc' = "idle" /\ UNCHANGED <<config, granted, stored>>
  BY <1>0, <1>7
<1>8. CASE Load
  BY <1>0, <1>8 DEF Load, server, history
<1>9. CASE /\ UNCHANGED <<config, granted, stored, mem>>
           /\ pc' = pc \/ (pc \notin {"idle", "lease"} /\ pc' # "lease")
  BY <1>0, <1>9
<1>10. \/ PersistAgent \/ Allocate \/ AllocateFails \/ PersistLease
       \/ PersistEnrolled \/ PanelSave \/ Load
       \/ pc' = "idle" /\ UNCHANGED <<config, granted, stored>>
       \/ /\ UNCHANGED <<config, granted, stored, mem>>
          /\ pc' = pc \/ (pc \notin {"idle", "lease"} /\ pc' # "lease")
  BY DEF Next, Step, vars, server, history, process, Return, ReuseLease,
     WritePrivateKey, WritePublicKey, WriteWgConf, StartTunnel, WriteEnv,
     StartChecker, Register, RegisterFails, Abort, Reboot, PanelLoad
<1> QED
  BY <1>1, <1>2, <1>3, <1>4, <1>5, <1>6, <1>7, <1>8, <1>9, <1>10

(* Once an allocation has been stored no attempt asks for another, unless   *)
(* the panel has undone a save.                                             *)
THEOREM AllocatedOnce == Spec => AllocatesOnce
<1>1. TypeInv /\ SavedInv /\ [Next]_vars
          => [stored /\ ~ undone => granted' = granted]_vars
  <2> SUFFICES ASSUME SavedInv, [Next]_vars, stored, ~ undone
               PROVE granted' = granted
    OBVIOUS
  <2>1. pc = "allocate" => ~ NeedsLease
    BY DEF SavedInv, MemInv, GrantInv, NeedsLease
  <2> QED
    BY <2>1 DEF Next, Step, vars, server, Load, PersistAgent, Allocate,
       AllocateFails, PersistLease, ReuseLease, WritePrivateKey, WritePublicKey,
       WriteWgConf, StartTunnel, WriteEnv, StartChecker, Register,
       RegisterFails, PersistEnrolled, Abort, Reboot, PanelLoad, PanelSave
<1> QED
  BY <1>1, InitTyped, TypeStep, InitSaved, SavedStep, PTL DEF Spec, AllocatesOnce

-----------------------------------------------------------------------------
(* One lease and one agent.                                                 *)

(* What a step that does not undo anything may do to the recorded agent and *)
(* lease: each is set once.                                                 *)
LEMMA RecordedOnce ==
    ASSUME TypeInv, SavedInv, [Next]_vars, ~ undone'
    PROVE  /\ ~ undone
           /\ config.lease # None => config'.lease = config.lease
           /\ config.agent # None => config'.agent = config.agent
           /\ ~ PersistLease => config'.lease = config.lease
<1> USE DEF TypeInv, TypeOK, PlaceInv, SavedInv, MemInv, GrantInv
<1>1. CASE PanelSave
  BY <1>1 DEF PanelSave, SaveConfig
<1>2. CASE UNCHANGED <<config, undone>>
  BY <1>2
<1>3. CASE PersistAgent
  <2> USE <1>3 DEF PersistAgent, SaveAgent, SaveConfig
  <2>1. ~ undone /\ mem = config /\ mem \in Vpn
    OBVIOUS
  <2>2. mem'.lease = mem.lease /\ (mem.agent # None => mem'.agent = mem.agent)
    BY <2>1 DEF Vpn
  <2> QED
    BY <2>1, <2>2
<1>4. CASE PersistLease
  BY <1>4 DEF PersistLease, SaveConfig
<1>5. CASE PersistEnrolled
  <2> USE <1>5 DEF PersistEnrolled, SaveConfig
  <2>1. ~ undone /\ mem = config /\ mem \in Vpn
    OBVIOUS
  <2>2. config'.lease = mem.lease /\ config'.agent = mem.agent
    BY <2>1 DEF Vpn
  <2> QED
    BY <2>1, <2>2
<1>6. \/ PanelSave \/ UNCHANGED <<config, undone>>
      \/ PersistAgent \/ PersistLease \/ PersistEnrolled
  BY DEF Next, Step, vars, history,
     Load, Allocate, AllocateFails, ReuseLease, WritePrivateKey, WritePublicKey,
     WriteWgConf, StartTunnel, WriteEnv, StartChecker, Register, RegisterFails,
     Abort, Reboot, PanelLoad
<1> QED
  BY <1>1, <1>2, <1>3, <1>4, <1>5, <1>6

LEMMA LeaseStep ==
    TypeInv /\ SavedInv /\ LeaseInUse /\ [Next]_vars => LeaseInUse'
<1> SUFFICES ASSUME TypeInv, SavedInv, LeaseInUse, [Next]_vars PROVE LeaseInUse'
  OBVIOUS
<1>a. undone' => LeaseInUse'
  BY DEF LeaseInUse
<1>b. SUFFICES ASSUME ~ undone' PROVE LeaseInUse'
  BY <1>a
<1> USE NoneAssumption, RecordedOnce, <1>b
<1> USE DEF TypeInv, TypeOK, PlaceInv, MemInv, SavedInv, LeaseInUse, WgConf, files, services
<1>1. CASE PersistLease
  <2>1. config.lease = None
    BY <1>1 DEF PersistLease
  <2>2. wgConf = None /\ tunnel = None /\ env = None /\ checker = None
    BY <2>1
  <2> QED
    BY <1>1, <2>2 DEF PersistLease
<1>2. CASE WriteWgConf
  BY <1>2 DEF WriteWgConf
<1>3. CASE StartTunnel
  BY <1>3 DEF StartTunnel
<1>4. CASE WriteEnv
  BY <1>4 DEF WriteEnv
<1>5. CASE StartChecker
  BY <1>5 DEF StartChecker
<1>6. CASE Reboot
  BY <1>6 DEF Reboot
<1>7. CASE ~ PersistLease /\ UNCHANGED <<wgConf, tunnel, env, checker>>
  BY <1>7
<1>8. \/ PersistLease \/ WriteWgConf \/ StartTunnel \/ WriteEnv \/ StartChecker
      \/ Reboot \/ UNCHANGED <<wgConf, tunnel, env, checker>>
  BY DEF Next, Step, vars, Load, PersistAgent, Allocate, AllocateFails,
     ReuseLease, WritePrivateKey, WritePublicKey, Register, RegisterFails,
     PersistEnrolled, Abort, PanelLoad, PanelSave
<1> QED
  BY <1>1, <1>2, <1>3, <1>4, <1>5, <1>6, <1>7, <1>8

(* What is configured and what runs uses the lease that is recorded.        *)
THEOREM OneLease == Spec => []LeaseInUse
<1>1. Init => LeaseInUse
  BY DEF Init, LeaseInUse
<1> QED
  BY <1>1, InitTyped, TypeStep, InitSaved, SavedStep, LeaseStep, PTL DEF Spec

LEMMA AgentStep == TypeInv /\ SavedInv /\ OneAgent /\ [Next]_vars => OneAgent'
<1> SUFFICES ASSUME TypeInv, SavedInv, OneAgent, [Next]_vars PROVE OneAgent'
  OBVIOUS
<1>a. undone' => OneAgent'
  BY DEF OneAgent
<1>b. SUFFICES ASSUME ~ undone', NEW a \in Agents,
                      granted'[a] # {} \/ registered'[a] # None
               PROVE  a = config'.agent
  BY <1>a DEF OneAgent
<1> USE NoneAssumption, RecordedOnce, <1>b
<1> USE DEF TypeInv, TypeOK, PlaceInv, MemInv, SavedInv, OneAgent, server
<1>1. CASE /\ mem.agent = config.agent /\ config' = config
           /\ \A b \in Agents \ {mem.agent} :
                  granted'[b] = granted[b] /\ registered'[b] = registered[b]
  BY <1>1
<1>2. CASE UNCHANGED <<granted, registered>>
  BY <1>2
<1>3. CASE Allocate \/ AllocateFails
  <2>1. mem.agent = config.agent /\ config' = config
    BY <1>3 DEF Allocate, AllocateFails
  <2>2. \A b \in Agents \ {mem.agent} :
            granted'[b] = granted[b] /\ registered'[b] = registered[b]
    BY <1>3 DEF Allocate, AllocateFails, Grantable, Grant
  <2> QED
    BY <1>1, <2>1, <2>2
<1>4. CASE Register \/ RegisterFails
  <2>1. mem.agent = config.agent /\ config' = config
    BY <1>4 DEF Register, RegisterFails
  <2>2. \A b \in Agents \ {mem.agent} :
            granted'[b] = granted[b] /\ registered'[b] = registered[b]
    BY <1>4 DEF Register, RegisterFails, Registered
  <2> QED
    BY <1>1, <2>1, <2>2
<1>5. \/ Allocate \/ AllocateFails \/ Register \/ RegisterFails
      \/ UNCHANGED <<granted, registered>>
  BY DEF Next, Step, vars, Load, PersistAgent, PersistLease, ReuseLease,
     WritePrivateKey, WritePublicKey, WriteWgConf, StartTunnel, WriteEnv,
     StartChecker, PersistEnrolled, Abort, Reboot, PanelLoad, PanelSave
<1> QED
  BY <1>2, <1>3, <1>4, <1>5

(* The node is one agent to the server.                                     *)
THEOREM OneIdentity == Spec => []OneAgent
<1>1. Init => OneAgent
  BY DEF Init, OneAgent
<1> QED
  BY <1>1, InitTyped, TypeStep, InitSaved, SavedStep, AgentStep, PTL DEF Spec

-----------------------------------------------------------------------------
(* What "enrolled" means.                                                   *)

(* All that has been shown above, as one assumption of the step.            *)
Shown == TypeInv /\ SavedInv /\ KeyInUse

LEMMA ReadyStep == Shown /\ ReadyInv /\ [Next]_vars => ReadyInv'
<1> SUFFICES ASSUME Shown, ReadyInv, [Next]_vars PROVE ReadyInv'
  OBVIOUS
<1>a. undone' => ReadyInv'
  BY DEF ReadyInv
<1>b. SUFFICES ASSUME ~ undone' PROVE ReadyInv'
  BY <1>a
<1> USE NoneAssumption, RecordedOnce, <1>b
<1> USE DEF Shown, TypeInv, TypeOK, PlaceInv, MemInv, GrantInv, SavedInv, ReadyInv, Goto
(* Nothing that "enrolled" speaks of is taken back.                         *)
<1>1. /\ private # None => private' = private
      /\ tunnel # None => tunnel' # None
      /\ checker # None => checker' # None
  BY DEF Next, Step, vars, files, services, Load, PersistAgent, Allocate,
     AllocateFails, PersistLease, ReuseLease, WritePrivateKey, NeedsKey,
     WritePublicKey, WriteWgConf, StartTunnel, WriteEnv, StartChecker, Register,
     RegisterFails, PersistEnrolled, Abort, Reboot, PanelLoad, PanelSave
<1>2. \A a \in Agents : private # None /\ registered[a] = private
                             => registered'[a] = private
  <2>1. CASE Register \/ RegisterFails
    <3>1. public = private
      BY <2>1 DEF Register, RegisterFails, KeyInUse
    <3> QED
      BY <2>1, <3>1 DEF Register, RegisterFails, Registered
  <2>2. CASE UNCHANGED registered
    BY <2>2
  <2>3. Register \/ RegisterFails \/ UNCHANGED registered
    BY DEF Next, Step, vars, server, Load, PersistAgent, Allocate,
     AllocateFails, PersistLease, ReuseLease, WritePrivateKey,
     WritePublicKey, WriteWgConf, StartTunnel, WriteEnv, StartChecker,
     PersistEnrolled, Abort, Reboot, PanelLoad, PanelSave
  <2> QED
    BY <2>1, <2>2, <2>3
<1>3. pc' = "enrolled" => registered'[mem'.agent] = private'
  <2>1. CASE Register
    <3>1. public = private
      BY <2>1 DEF Register, KeyInUse
    <3>2. mem.agent \in Agents
      BY <2>1 DEF Register, Vpn
    <3> QED
      BY <2>1, <3>1, <3>2 DEF Register, Registered, files
  <2>2. CASE pc = "enrolled" /\ UNCHANGED <<mem, registered, private>>
    BY <2>2
  <2>3. pc' = "enrolled" =>
            \/ Register
            \/ pc = "enrolled" /\ UNCHANGED <<mem, registered, private>>
    <3> SUFFICES ASSUME pc' = "enrolled", ~ Register
                 PROVE  pc = "enrolled" /\ UNCHANGED <<mem, registered, private>>
      OBVIOUS
    <3>1. PanelLoad \/ PanelSave \/ UNCHANGED vars
      BY DEF Next, Step, Return, Load, PersistAgent, Allocate, AllocateFails,
         PersistLease, ReuseLease, WritePrivateKey, WritePublicKey, WriteWgConf,
         StartTunnel, WriteEnv, StartChecker, RegisterFails, PersistEnrolled,
         Abort, Reboot
    <3> QED
      BY <3>1 DEF PanelLoad, PanelSave, vars, files, server, process
  <2> QED
    BY <2>1, <2>2, <2>3
<1>4. CASE PersistEnrolled
  <2> USE <1>4 DEF PersistEnrolled, SaveConfig, files, services, server
  <2>1. mem = config /\ mem \in Vpn /\ mem.lease # None
    OBVIOUS
  <2>2. config'.lease # None /\ config'.agent = mem.agent
    BY <2>1 DEF Vpn
  <2>3. private # None /\ tunnel # None /\ checker # None
    OBVIOUS
  <2> QED
    BY <1>3, <2>2, <2>3
<1>5. CASE config'.status = config.status
  <2> HIDE DEF SavedInv, TypeInv, TypeOK, PlaceInv, MemInv
  <2>1. SUFFICES ASSUME config.status = "enrolled"
                 PROVE  /\ config'.lease # None /\ private' # None
                        /\ registered'[config'.agent] = private'
                        /\ tunnel' # None /\ checker' # None
    BY <1>3, <1>5
  <2>2. /\ config.lease # None /\ private # None
        /\ registered[config.agent] = private
        /\ tunnel # None /\ checker # None
    BY <2>1
  <2>3. config.agent \in Agents /\ config.agent # None
    BY <2>2 DEF Vpn, TypeInv, TypeOK, SavedInv
  <2>4. config'.lease = config.lease /\ config'.agent = config.agent
    BY <2>2, <2>3
  <2> QED
    BY <1>1, <1>2, <2>2, <2>3, <2>4
<1>6. PersistEnrolled \/ config'.status = config.status
  <2>1. CASE PersistAgent
    <3>1. mem = config /\ mem \in Vpn
      BY <2>1 DEF PersistAgent
    <3> QED
      BY <2>1, <3>1 DEF PersistAgent, SaveAgent, SaveConfig, Vpn
  <2>2. CASE PersistLease
    BY <2>2 DEF PersistLease, SaveConfig
  <2>3. CASE PanelSave
    BY <2>3 DEF PanelSave, SaveConfig
  <2>4. CASE UNCHANGED config
    BY <2>4
  <2>5. \/ PersistEnrolled \/ PersistAgent \/ PersistLease \/ PanelSave
        \/ UNCHANGED config
    BY DEF Next, Step, vars, Load, Allocate, AllocateFails, ReuseLease,
     WritePrivateKey, WritePublicKey, WriteWgConf, StartTunnel, WriteEnv,
     StartChecker, Register, RegisterFails, Abort, Reboot, PanelLoad
  <2> QED
    BY <2>1, <2>2, <2>3, <2>4, <2>5
<1> QED
  BY <1>4, <1>5, <1>6

(* The status "enrolled" is earned: the lease is granted, the server knows  *)
(* the key and both services run with them.                                 *)
THEOREM EnrolledIsReady == Spec => []EnrolledMeansReady
<1>1. Init => ReadyInv
  <2> SUFFICES ASSUME Init PROVE ReadyInv
    OBVIOUS
  <2>1. config.status = "" /\ pc = "idle"
    BY DEF Init, NotSet
  <2> QED
    BY <2>1 DEF ReadyInv
<1>2. Init => KeyInUse /\ LeaseInUse
  BY NoneAssumption DEF Init, KeyInUse, LeaseInUse
<1>3. Shown /\ LeaseInUse /\ ReadyInv => EnrolledMeansReady
  <2> SUFFICES ASSUME Shown, LeaseInUse, ReadyInv PROVE EnrolledMeansReady
    OBVIOUS
  <2> SUFFICES ASSUME config.status = "enrolled", ~ undone
               PROVE  /\ config.lease \in granted[config.agent]
                      /\ private # None /\ registered[config.agent] = private
                      /\ tunnel = [key |-> private, lease |-> config.lease]
                      /\ checker = config.lease
    BY DEF EnrolledMeansReady
  <2>1. /\ config.lease # None /\ private # None
        /\ registered[config.agent] = private
        /\ tunnel # None /\ checker # None
    BY DEF ReadyInv
  <2>2. config.lease \in granted[config.agent]
    BY <2>1 DEF Shown, SavedInv, GrantInv
  <2>3. tunnel \in WgConf /\ tunnel.key = private /\ tunnel.lease = config.lease
    BY <2>1 DEF Shown, TypeInv, TypeOK, KeyInUse, LeaseInUse
  <2>4. tunnel = [key |-> private, lease |-> config.lease]
    BY <2>3 DEF WgConf
  <2>5. checker = config.lease
    BY <2>1 DEF LeaseInUse
  <2> QED
    BY <2>1, <2>2, <2>4, <2>5
<1> QED
  BY <1>1, <1>2, <1>3, InitTyped, TypeStep, InitSaved, SavedStep, KeyStep,
     LeaseStep, ReadyStep, PTL DEF Spec, Shown

=============================================================================
