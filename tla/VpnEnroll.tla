----------------------------- MODULE VpnEnroll -----------------------------
(***************************************************************************)
(* The enrollment of a node (vpn_enroll.py): what it persists, in which    *)
(* order, and what a later attempt finds when an earlier one has died.     *)
(*                                                                         *)
(* One enrollment runs at a time.  It shares config.json with the web      *)
(* panel, which writes back the whole file it has loaded (webapp.py) and   *)
(* may so undo what the enrollment has saved in the meantime.              *)
(* The enrollment server is external: it grants leases and registers keys. *)
(*                                                                         *)
(* A lease stands for server_key, wg_port and wg_subnet; a public key for  *)
(* the private key it belongs to.                                          *)
(***************************************************************************)
EXTENDS Integers

CONSTANTS
    Agents,     \* the agent ids that uuid4 may return
    Keys,       \* the private keys that `wg genkey` may return
    Leases,     \* what the server may allocate
    None,       \* not set, no such file, not running
    MaxRuns,    \* bound: attempts to enroll
    MaxPanel    \* bound: panel requests

ASSUME BoundsAssumption == MaxRuns \in Nat /\ MaxPanel \in Nat

VARIABLES
    config,     \* config.json: the vpn section
    panel,      \* the vpn section that a panel request has loaded, or None
    private,    \* /etc/wireguard/privatekey
    public,     \* /etc/wireguard/publickey
    wgConf,     \* /etc/wireguard/wg0.conf
    env,        \* oscam-checker-env.env
    tunnel,     \* the wg0.conf that wg-quick@wg0 has started with
    checker,    \* the environment oscam-checker has started with
    granted,    \* server: the leases of each agent
    registered, \* server: the key of each agent
    pc,         \* where the enrollment is
    mem,        \* its copy of the vpn section
    runs,       \* attempts so far
    visits,     \* panel requests so far
    drawn,      \* history: agent ids and keys drawn (they are never repeated)
    stored,     \* history: a lease has been in config.json
    undone      \* history: the panel has put back an older vpn section

files    == <<private, public, wgConf, env>>
services == <<tunnel, checker>>
server   == <<granted, registered>>
process  == <<pc, mem>>
bounds   == <<runs, visits>>
history  == <<drawn, stored, undone>>
vars == <<config, panel, private, public, wgConf, env, tunnel, checker,
          granted, registered, pc, mem, runs, visits, drawn, stored,
          undone>>

Vpn    == [agent : Agents \cup {None}, lease : Leases \cup {None},
           status : {"", "enrolled"}]
NotSet == [agent |-> None, lease |-> None, status |-> ""]
WgConf == [key : Keys, lease : Leases]

ASSUME NoneAssumption == None \notin Agents \cup Keys \cup Leases \cup WgConf

Init ==
    /\ config = NotSet
    /\ panel = None
    /\ private = None /\ public = None /\ wgConf = None /\ env = None
    /\ tunnel = None /\ checker = None
    /\ granted = [a \in Agents |-> {}]
    /\ registered = [a \in Agents |-> None]
    /\ pc = "idle"
    /\ mem = NotSet
    /\ runs = 0 /\ visits = 0
    /\ drawn = {}
    /\ stored = FALSE /\ undone = FALSE

-----------------------------------------------------------------------------

Goto(label) == pc' = label

(* config.json is replaced atomically.                                      *)
SaveConfig(vpn) ==
    /\ config' = vpn
    /\ stored' = (stored \/ vpn.lease # None)

(* The attempt is over: it has completed, failed or died.                   *)
Return ==
    /\ Goto("idle")
    /\ mem' = NotSet

(* enroll-vpn loads the configuration ...                                   *)
Load ==
    /\ pc = "idle"
    /\ runs < MaxRuns
    /\ runs' = runs + 1
    /\ mem' = config
    /\ Goto("agent")
    /\ UNCHANGED <<config, panel, files, services, server, visits, history>>

(* Mutant: the agent id is not saved before it is used.                     *)
SaveAgentLater(vpn) == UNCHANGED <<config, stored>>

SaveAgent(vpn) == SaveConfig(vpn)

(* ... draws an agent id unless there is one, and saves it.                 *)
PersistAgent ==
    /\ pc = "agent"
    /\ IF mem.agent # None
       THEN mem' = mem /\ UNCHANGED drawn
       ELSE \E a \in Agents \ drawn :
                /\ mem' = [mem EXCEPT !.agent = a]
                /\ drawn' = drawn \cup {a}
    /\ SaveAgent(mem')
    /\ Goto("allocate")
    /\ UNCHANGED <<panel, files, services, server, bounds, undone>>

(* Mutant: every attempt allocates.                                         *)
AlwaysNeedsLease == TRUE

(* No lease is stored.  The code also allocates again if a stored field is  *)
(* empty; a granted lease is taken as complete here (_require_field refuses *)
(* a missing field, though not an empty one).                               *)
NeedsLease == mem.lease = None

(* A lease the server may grant to this agent.                              *)
Grantable == {l \in Leases : \A a \in Agents \ {mem.agent} : l \notin granted[a]}

Grant(l) == granted' = [granted EXCEPT ![mem.agent] = @ \cup {l}]

Allocate ==
    /\ pc = "allocate"
    /\ NeedsLease
    /\ \E l \in Grantable :
           /\ Grant(l)
           /\ mem' = [mem EXCEPT !.lease = l]
    /\ Goto("lease")
    /\ UNCHANGED <<config, panel, files, services, registered, bounds, history>>

(* The request is refused, or its answer is lost after the server has acted.*)
AllocateFails ==
    /\ pc = "allocate"
    /\ NeedsLease
    /\ \/ UNCHANGED granted
       \/ \E l \in Grantable : Grant(l)
    /\ Return
    /\ UNCHANGED <<config, panel, files, services, registered, bounds, history>>

PersistLease ==
    /\ pc = "lease"
    /\ SaveConfig(mem)
    /\ Goto("privateKey")
    /\ UNCHANGED <<panel, files, services, server, mem, bounds, drawn, undone>>

ReuseLease ==
    /\ pc = "allocate"
    /\ ~ NeedsLease
    /\ Goto("privateKey")
    /\ UNCHANGED <<config, panel, files, services, server, mem, bounds, history>>

-----------------------------------------------------------------------------
(* _configure_wireguard: what exists is kept.                               *)

(* Mutants: a new key each time; no key at all.                             *)
AlwaysNeedsKey == TRUE
NeverNeedsKey == FALSE

NeedsKey == private = None

WritePrivateKey ==
    /\ pc = "privateKey"
    /\ IF NeedsKey
       THEN \E k \in Keys \ drawn : private' = k /\ drawn' = drawn \cup {k}
       ELSE UNCHANGED <<private, drawn>>
    /\ Goto("publicKey")
    /\ UNCHANGED <<config, panel, public, wgConf, env, services, server, mem,
                   bounds, stored, undone>>

WritePublicKey ==
    /\ pc = "publicKey"
    /\ public' = IF public = None THEN private ELSE public
    /\ Goto("wgConf")
    /\ UNCHANGED <<config, panel, private, wgConf, env, services, server, mem,
                   bounds, history>>

WriteWgConf ==
    /\ pc = "wgConf"
    /\ wgConf' = IF wgConf = None THEN [key |-> private, lease |-> mem.lease]
                 ELSE wgConf
    /\ Goto("tunnel")
    /\ UNCHANGED <<config, panel, private, public, env, services, server, mem,
                   bounds, history>>

(* `systemctl enable --now` starts what is not running, restarts nothing.   *)
StartTunnel ==
    /\ pc = "tunnel"
    /\ tunnel' = IF tunnel = None THEN wgConf ELSE tunnel
    /\ Goto("env")
    /\ UNCHANGED <<config, panel, files, checker, server, mem, bounds, history>>

-----------------------------------------------------------------------------
(* _configure_checker: the files are always written again.                  *)

WriteEnv ==
    /\ pc = "env"
    /\ env' = mem.lease
    /\ Goto("checker")
    /\ UNCHANGED <<config, panel, private, public, wgConf, services, server, mem,
                   bounds, history>>

StartChecker ==
    /\ pc = "checker"
    /\ checker' = IF checker = None THEN env ELSE checker
    /\ Goto("register")
    /\ UNCHANGED <<config, panel, files, tunnel, server, mem, bounds, history>>

-----------------------------------------------------------------------------

Registered == registered' = [registered EXCEPT ![mem.agent] = public]

Register ==
    /\ pc = "register"
    /\ Registered
    /\ Goto("enrolled")
    /\ UNCHANGED <<config, panel, files, services, granted, mem, bounds, history>>

(* Mutant: a refusal is overlooked.                                         *)
RegisterFailsUnnoticed ==
    /\ pc = "register"
    /\ Goto("enrolled")
    /\ UNCHANGED <<config, panel, files, services, server, mem, bounds, history>>

RegisterFails ==
    /\ pc = "register"
    /\ Registered \/ UNCHANGED registered
    /\ Return
    /\ UNCHANGED <<config, panel, files, services, granted, bounds, history>>

PersistEnrolled ==
    /\ pc = "enrolled"
    /\ SaveConfig([mem EXCEPT !.status = "enrolled"])
    /\ Return
    /\ UNCHANGED <<panel, files, services, server, bounds, drawn, undone>>

(* Any step raises, or the process is killed.                               *)
Abort ==
    /\ pc # "idle"
    /\ Return
    /\ UNCHANGED <<config, panel, files, services, server, bounds, history>>

(* The node reboots: what was enabled starts with the files as they are.    *)
Reboot ==
    /\ Return
    /\ tunnel' = IF tunnel = None THEN None ELSE wgConf
    /\ checker' = IF checker = None THEN None ELSE env
    /\ panel' = None
    /\ UNCHANGED <<config, files, server, bounds, history>>

-----------------------------------------------------------------------------
(* A panel request that saves config.json keeps the vpn section it loaded.  *)

PanelLoad ==
    /\ panel = None
    /\ visits < MaxPanel
    /\ visits' = visits + 1
    /\ panel' = config
    /\ UNCHANGED <<config, files, services, server, process, runs, history>>

PanelSave ==
    /\ panel # None
    /\ SaveConfig(panel)
    /\ undone' = (undone \/ panel # config)
    /\ panel' = None
    /\ UNCHANGED <<files, services, server, process, bounds, drawn>>

-----------------------------------------------------------------------------

Step ==
    \/ Load \/ PersistAgent
    \/ Allocate \/ AllocateFails \/ PersistLease \/ ReuseLease
    \/ WritePrivateKey \/ WritePublicKey \/ WriteWgConf \/ StartTunnel
    \/ WriteEnv \/ StartChecker
    \/ Register \/ RegisterFails \/ PersistEnrolled
    \/ Abort

Next == Step \/ Reboot \/ PanelLoad \/ PanelSave

Spec == Init /\ [][Next]_vars

-----------------------------------------------------------------------------
(* Properties.                                                              *)

Labels == {"idle", "agent", "allocate", "lease", "privateKey", "publicKey",
           "wgConf", "tunnel", "env", "checker", "register", "enrolled"}

(* Every variable has its type.                                             *)
TypeOK ==
    /\ config \in Vpn
    /\ panel \in Vpn \cup {None}
    /\ private \in Keys \cup {None}
    /\ public \in Keys \cup {None}
    /\ wgConf \in WgConf \cup {None}
    /\ env \in Leases \cup {None}
    /\ tunnel \in WgConf \cup {None}
    /\ checker \in Leases \cup {None}
    /\ granted \in [Agents -> SUBSET Leases]
    /\ registered \in [Agents -> Keys \cup {None}]
    /\ pc \in Labels
    /\ mem \in Vpn
    /\ runs \in Nat /\ visits \in Nat
    /\ drawn \subseteq Agents \cup Keys
    /\ stored \in BOOLEAN /\ undone \in BOOLEAN

(* Wherever an attempt dies and however often it is repeated: the public    *)
(* key, the configured and the running tunnel and what the server knows of  *)
(* this node all belong to the one private key (_configure_wireguard keeps  *)
(* what exists).                                                            *)
KeyInUse ==
    /\ public \in {None, private}
    /\ wgConf # None => wgConf.key = private
    /\ tunnel # None => tunnel.key = private
    /\ \A a \in Agents : registered[a] \in {None, private}

(* Unless the panel has undone a save of the enrollment, the tunnel and the *)
(* checker, as configured and as running, use the lease that config.json    *)
(* records: no attempt mixes two allocations.                               *)
LeaseInUse ==
    ~ undone =>
        /\ wgConf # None => wgConf.lease = config.lease
        /\ tunnel # None => tunnel.lease = config.lease
        /\ env \in {None, config.lease}
        /\ checker \in {None, config.lease}

(* However often it is repeated, the node is one agent to the server (the   *)
(* agent id is saved before the first request), unless the panel has undone *)
(* a save.                                                                  *)
OneAgent ==
    ~ undone =>
        \A a \in Agents :
            granted[a] # {} \/ registered[a] # None => a = config.agent

(* The status "enrolled" in config.json is earned: the server has granted   *)
(* the lease and knows the node's key, and both services run with them,     *)
(* unless the panel has undone a save.                                      *)
EnrolledMeansReady ==
    config.status = "enrolled" /\ ~ undone =>
        /\ config.lease \in granted[config.agent]
        /\ private # None /\ registered[config.agent] = private
        /\ tunnel = [key |-> private, lease |-> config.lease]
        /\ checker = config.lease

(* Once an allocation has been stored, no attempt asks for another one,     *)
(* unless the panel has undone a save (enroll reuses a stored allocation).  *)
AllocatesOnce == [][stored /\ ~ undone => granted' = granted]_vars

=============================================================================
