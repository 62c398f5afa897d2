# Verification of reshare_control

TLA+ models of `reshare_control`, a monitor for OSCam card-sharing servers: every few minutes it
reads the ECM/min figure of each user from OSCam's WebIF, gives a strike to a user over its limit,
and after `strike_count` strikes in a row alerts the operator or disables the account in
`oscam.user`, for a time or until it is enabled by hand.

Run, in this directory, `tlc -config <cfg> <module>` for the runs of `PROJECT.json` and
`tlapm <module>.tla` for the proofs.

## 1. The system

| Component | State it keeps | Operations | Talks to |
|---|---|---|---|
| strike rule (`strike.py`) | none (pure) | `evaluate_strike` | called by the cycle |
| monitoring cycle (`poller.py`) | none of its own | `run_cycle`, `_reenable_expired_stops` | fetches from the WebIF, holds the store's lock, calls enforcement and notification |
| account enforcement (`enforce.py`) | `oscam.user`, `audit.log` | `stop_account`, `reinstate_account`, `enable_account`, `set_account_disabled` | edits the file, sends `reinit` to OSCam |
| state store (`state.py`) | `state.json`, the lock file | `load`, `save`, `locked`, `locked_update` | used by the cycle, the CLI, the panel |
| notification (`notify.py`) | none | `should_notify`, `send` | Telegram |
| configuration (`config.py`) | `config.json` | `load_app_config`, `save_app_config`, `upsert_instance`, `policy_for`, `ensure_user_policy` | read by everything, written by panel, CLI and enrollment |
| command line (`cli.py`) | none | `run`, `run-all`, `disable-user`, `enable-user`, `exempt-user`, ... | all of the above |
| web panel (`webapp.py`) | none (one thread per request) | Sync now, disable, enable, Reset flag, policy, exempt, save and delete instance | all of the above |
| WebIF client (`webif.py`) | none | `fetch_userstats`, `reinit` | OSCam over HTTP (curl) |
| response parsing (`parse.py`) | none (pure) | `normalize_userstats_body` | called by the cycle |
| VPN enrollment (`vpn_enroll.py`) | `config.vpn`, `wg0.conf`, checker files | `enroll`, resumable | enrollment server, systemd |
| installers, packaging | installed files | run once | systemd |
| OSCam (external) | the accounts it has read | reads `oscam.user` at start and at `reinit` | |

**Processes.** systemd's timer starts a oneshot `run-all`; systemd never runs two of them at once.
The panel is a threading HTTP server, so any number of requests run beside the timer and beside
each other; an operator may also run the CLI. They share `state.json`, `oscam.user`, `audit.log`,
`config.json` and OSCam itself. Only `state.json` has a lock (an `flock`), and not every writer
takes it.

**What is hard.**

* *Interleaving.* The readings are fetched before the lock is taken; the panel's account sync loads
  and saves `state.json` without the lock; `config.json` has no lock at all.
* *Partial failure.* A stop is an edit of `oscam.user`, a `reinit`, an audit record and, much later,
  the save of `state.json` for the whole cycle. Any of them can fail, and an exception drops
  everything the cycle has done in memory.
* *Crash and restart.* A process that dies releases the lock; the next one reads the last saved state.
* *Time.* Temporary stops expire while cycles, commands and failures go on.
* *Long histories.* The strike counter and the status in `state.json` stand for the readings since
  the last reset.

**What makes it correct.**

* strike rule: the counter is the current streak; a user is flagged exactly when its last
  `strike_count` readings were over; one alert per streak; a streak takes `strike_count` cycles (the
  code keeps all but the last, see the findings);
* cycle, enforcement, store: whenever nobody holds the lock, `state.json`, `oscam.user`, OSCam and the
  audit log agree on who is stopped; a stop is earned; a stop without an end is not taken back; a
  temporary stop ends;
* configuration: a request that succeeds makes the change it names and no other, one that fails makes
  none; a saved policy is never made up, and lost only to a session with an older copy; a user exempted
  by the operator is never stopped (which the code does not keep either);
* responses: an entry counts for the user it belongs to and for nobody else, and nobody is overlooked;
* several instances: an edit of an account file reaches one account, records agree with the file, and
  an instance is kept from being monitored only by its own failures and those of the ones before it;
* enrollment: a retry continues where the last attempt stopped, and one lease is in use.

## 2. The modules

| Module | What it is |
|---|---|
| `Strike` | the rule of one user: `evaluate_strike`, the effective auto-stop, `should_notify` |
| `StrikeHistory` | one user and the history of its readings; the reference for the counter |
| `UserStats` | the responses of the WebIF, as operators: interface, places, entries, names and hashes |
| `PollCycle` | the loop of a cycle over a response, and one user in it |
| `MCPollCycle` | responses of every shape for TLC |
| `PollCycleProofs` | all properties of `StrikeHistory` and of `PollCycle`, proved |
| `Monitoring` | the abstract specification of the records in `state.json` |
| `ReshareControl` | one instance: timer, sessions, lock, state file, `oscam.user`, OSCam, audit log, time |
| `MCReshareControl` | users, policies and responses for TLC |
| `ReshareControlProofs` | type correctness and the two agreement invariants, proved |
| `StopProofs` | a stop is saved only if done, and is earned, proved |
| `AlertProofs` | without failures: nobody is missed, nobody alerted twice, proved |
| `RuleProofs` | the refinement of `Monitoring` by the jobs that keep to the lock, and stops without an end, proved |
| `AccountFile` | `oscam.user` or `ncam.user` as lines, and the edit of a flag, as operators |
| `Instances` | `run-all` over several instances, the panel's changes of them, the account files |
| `MCInstances` | two instances with one account file or two, for TLC |
| `InstancesProofs` | what an edit does to any account file, and the safety properties of `Instances`, proved |
| `ConfigEdits` | the abstract specification of `config.json`: what each request changes, and what it is answered |
| `ConfigStore` | `config.json` and the sessions that load, change and replace it |
| `MCConfigStore` | accounts and symmetry for TLC |
| `ConfigStoreProofs` | type correctness, `OnlyAsked` and the refinement of `ConfigEdits`, proved |
| `VpnEnroll` | the enrollment: its persisted stages, files, services and the server |
| `MCVpnEnroll` | symmetry for TLC |
| `VpnEnrollProofs` | all properties of `VpnEnroll`, proved |

`StrikeHistory`, `ReshareControl` and `Monitoring` extend `Strike`, so they share one copy of the
rule; `PollCycle` extends `StrikeHistory` and `UserStats`, `Instances` extends `AccountFile`, and
`AlertProofs` and `RuleProofs` go on from `StopProofs`, which goes on from `ReshareControlProofs`.
`ReshareControl` instantiates `Monitoring` with `records <- store`, `ConfigStore` instantiates
`ConfigEdits` with `config <- file` and with its own `request` and `answer`. The policies are constants
in `ReshareControl` and state in `ConfigStore`; of the enrollment `ConfigStore` keeps the set of stages
that are saved, `VpnEnroll` all the rest.

Definitions named as mutants in their comment (`AcquireShared`, `NoReinit`, ...) are not part of the
model. Each changes one definition the way a plausible bug would, and shows that a property notices.

### Strike

A reading is `"over"`, `"under"` or `"none"`: how it compares with the effective limit (the user's
override or the instance's), which is all `evaluate_strike` asks of it. `"none"` stands for a failed
fetch, a user that is not listed, a value that is not a number, a disabled entry. A record is
`[strikes, status, until]`; `until` is the number of minutes the stop has still to run, or `NoTime`
for `stopped_until = None`. The observed figure, the time of the evaluation, `exempt` (always
`policy.action == "ignore"` when it is read) and `last_connected` are left out.

### UserStats and PollCycle

`UserStats` says what a cycle makes of the WebIF's answers: `Fetch` (which of OSCam's and NCam's
interfaces is asked, and when the other one is), `FirstList` (where a response keeps its users),
`IsDisabled`, `Figure`, `Identity` (an entry's name, or the user whose hash it carries), `Monitored`
(`normalize_userstats_body`), `NeedsUserConfig` and `ReadUsers` (the second look with the names of
`userconfig.html`), `Accepted` (the entries for which `test` accepts a response). A document maps the
places the code looks at to the list found there; an entry is its name (`Blank` if it is made of
spaces), its hash, the marks that say disabled and what its figures read.

| Variable of `PollCycle` | Code |
|---|---|
| `record`, `action`, `readings`, `alerts` | those of `StrikeHistory`, for the one user that is followed, `Me` |
| `phase` | before or in the loop of `run_cycle` over the monitored users |
| `document`, `page` | the response, and the names that `userconfig.html` lists (none if it is not fetched) |
| `queue`, `seen` | the monitored users still to visit, in the order of the response; those visited (`seen_users`) |
| `before`, `missed` | history, read by properties only |

A cycle is `Receive` (the fetch and the normalisation), one `Visit` for each monitored user, and
`Finish`, in which a user not visited gets a missing reading; `Lift` is a stop that ends between two
cycles. The module shows some corners of the code:

* `status.client` has an entry per connection, so a user may be listed, and struck, several times in
  one cycle. The documents ask for `strike_count` *cycles*: `FlaggedAfterCycles` says that, and is
  refuted (`struck_per_cycle`). `StruckAsListed`, which is proved, is what the code keeps instead.
* The decision to fetch `userconfig.html` looks at the first list there is, even an empty one, and the
  users are taken from the first list that is not empty. With an empty first list, hashed entries in a
  later one are looked up only if nobody was recognised. `NobodyOverlooked` is about the first list.
* `test` accepts entries nobody can be named for, which a cycle skips, and does not look at
  `status.client`. `TestedIsRead` names both conditions.
* A name of spaces is stripped where an entry is read (`parse.py:136`) and not where the decision to
  look names up is made (`poller.py:296`). An entry with such a name and a hash is therefore overlooked
  unless the page is fetched for another reason; `NobodyOverlooked` leaves it out, and says so.
* Whether a user is "connected" is only displayed and not modelled (`parse.py:252` finds "connected" in
  "disconnected" before line 256 is reached).

### ReshareControl

| Variable | Code |
|---|---|
| `store` | `state.json`. A user without a record is `Fresh`: every reader does `get_user(u) or UserStrikeState()`, and a missing reading changes neither |
| `lock` | the `flock` of `_advisory_lock`; a dead process has released it |
| `disabled` | the `disabled` flag of each `[account]` of `oscam.user` |
| `applied` | the flag OSCam works with: the one it read at its last `reinit` or restart |
| `audit` | the action of the last `stop` or `reinstate` record with result `ok` |
| `pc`, `job`, `cur`, `body`, `mem`, `todo`, `pending` | a process: where it is, what it does, the user at hand, the readings of the response that it has still to evaluate, the state it loaded, the users its loop still has to visit, the `stopped_until` it has computed |
| `faults`, `requests` | the bounds |
| `lost`, `stale` | history, read by properties only: a change of an account was not saved; a sync has written back records that another process had changed since it loaded them |
| `over`, `broken`, `tail` | history: each user's readings over the limit since the streak was last broken *in a saved record*; the users whose streak the critical section has broken and not saved yet, and their readings since. Breaking a streak counts once it is saved and is forgotten if the process dies |
| `alerts` | history: the alerts sent since the alert flag was last reset |

A cycle is `StartCycle` (the fetch, before the lock), `LockCycle`, then `ReenableNext` with
`ReinstateEdit` and `ReinstateReinit` for each expired stop, `ReenableEnd`, then `Observe` or
`DecideStop`, `StopEdit` and `StopReinit` for each user that is not stopped, `EvaluateEnd`, `Save`. A
command is `StartCommand`, `LockDisable` / `LockEnable` / `LockReset`, the same edit and reinit, and
`Save`. "Sync now" is a cycle that continues with `SyncLoad` and `SyncSave`; saving an instance is only
these two. A response has any number of readings of a user up to `Entries`, one for each entry that
lists it; `Observe` takes the next one, and after a stop the rest are skipped. Every access to a shared
file, to OSCam or to the lock is a step of its own. What a process does in memory, the alert and the
audit record are part of the step they belong to. `Observe` and `ReenableNext` visit the users in any
order, each user's readings in theirs; the code's order is that of the response or of the names.

Failures: `ReinitFails` (the request fails, with or without effect on OSCam), `AccountMissing`
(`set_account_disabled` raises), `Crash` (any process, anywhere in its job). All three leave through
`Abort`: memory is lost, the lock is released. `OscamRestart` re-reads `oscam.user` at any time. `Tick`
is a minute: it ages every stop, recorded or in memory.

A disabled account gets no reading once OSCam has applied it (`Responses`), because
`normalize_userstats_body` drops disabled entries. The model is of the configuration as it is during
the run: policies do not change.

### Monitoring

What remains when processes, lock, files and failures are taken away: each record changes by the
readings of one response (`Outcomes`), one expiry (with the readings that may follow in the same cycle),
one operator command or the passing of a minute. `FollowsRule` says that `ReshareControl` implements it.
Several records may change in one step, since one save publishes the whole cycle.

### AccountFile and Instances

A line of the account file is a section header, a `user` or a `disabled` key, or any other line, with or
without its newline. `Target` is the first block of a user (`_account_blocks`), `SetInBlock` is
`_set_disabled_in_block`, `Written` is `set_account_disabled`, which does not write what is unchanged.

| Variable of `Instances` | Code |
|---|---|
| `instances` | `config.json`: the ids in their order |
| `base` | the base path of each instance; constant during a run |
| `files` | the account file at each base path |
| `records`, `lock` | `state.json` and the lock in the state directory of each instance; both outlive `_delete_instance` |
| `pc`, `list`, `at`, `mem`, `todo`, `flag`, `cur`, `copy` | a process: where it is, the instances it has loaded (for `run-all`: those still to visit), the one at hand, the records it loaded, the accounts it has to edit and the flag they get, the account and the lines it is editing |
| `edited` | history, read by properties only |
| `requests` | the bound |

`RunAll` loads the configuration once; `BeginCycle`, `Evaluate`, `ReadFile`, `WriteFile` and `Save` are
the cycle of one instance, `RunAllEnd` the end of the loop. Any exception leaves through `Abort`, which
also ends the loop: the instances after it are not visited. A command is `StartCommand`, `BeginCommand`
and the same edit and save. The panel's handlers are `StartSaveInstance` with the unlocked account
sync (`SyncLoad`, `SyncSave`), `StartDeleteInstance` and `SaveConfig`.

Which users a cycle stops, and for how long, is the subject of `ReshareControl`; here a cycle stops
any of the `Watched` ones for a limited time, and `Expire` ends that time. Three things are coarser
than there: `BeginCycle` is the fetch and the lock together (the readings are not modelled), `WriteFile`
is the edit and the `reinit` together, and OSCam itself is left out, also what it makes of several
`disabled` lines in one block. `Sole` says that one instance alone has an account file; the default
base path of the panel is the same for all instances, so two of them may share one, and then
their locks do not keep their edits apart.

### ConfigEdits and ConfigStore

| Variable | Code |
|---|---|
| `file` | `config.json`: the instances by id and the `vpn` section. It is replaced atomically (`_atomic_write_json`) |
| `pc`, `request`, `mem` | a request thread, a CLI call or an enrollment: where it is, what it was asked, the `AppConfig` it loaded |
| `answer` | what its last request has come to: `ok`, `refused` (an unknown instance) or `failed` |
| `requests` | the bound |
| `asked`, `trusted` | history, read by properties only: what operators have asked for; the users last told to be exempt |

Every handler is two steps: `Load` (`load_app_config`) and the action named for the handler, which
changes the copy and saves it whole. Between the two other sessions may do anything: "Sync now" runs a
monitoring cycle there. `seen` are the users of that cycle's result; `Accounts` are those of
`oscam.user`, who get an entry from the account sync. Saving an instance builds it anew, so it has no
exempt users. The CLI saves only if something changes (`cli`), the panel always. The enrollment loads
once and saves up to three times; `vpn` is the set of the stages saved (`agent`, `allocation`,
`enrolled`). `Abort` is any exception (an invalid form value, an OSCam that does not answer) or the death
of the process.

Of a policy the action is kept (the limit and the duration are replaced together with it), of an
instance the switch, the exempt users and the policies. Ids are as `sanitize_instance_id` returns
them. The model starts with no instance, or with one that comes from the older format. A power loss in
the middle of a save is not modelled (the file is not synced to disk before the rename).

`ConfigEdits` is what may be expected of requests that come one at a time. It has the same requests and
answers, and no sessions, copies or steps in between: a request answered `ok` has made its own change,
of the instance, user and value it names, in one step, and no other; one that is refused or fails has
changed nothing; only an enrollment may stop half-way, at a stage. In one point it is not what an operator
would expect but what the code does: `Configure`, which saves the settings of an instance, drops its
exempt users.

### VpnEnroll

| Variable | Code |
|---|---|
| `config` | the `vpn` section of `config.json`: agent id, lease (`server_key`, `wg_port`, `wg_subnet`, stored together), status |
| `private`, `public`, `wgConf`, `env` | the four files, each replaced atomically by `_write_file` |
| `tunnel`, `checker` | what `wg-quick@wg0` and `oscam-checker` have started with |
| `granted`, `registered` | external: what the server has granted to, and knows of, each agent id |
| `pc`, `mem` | the enrollment and its copy of the section |
| `panel` | the section in the hands of a panel request that will save the file |
| `runs`, `visits`; `drawn`, `stored`, `undone` | bounds; history: the ids and keys drawn (so that `uuid4` and `wg genkey` never repeat themselves), whether a lease was stored, whether the panel has put back an older section |

The actions are the steps of `enroll`, `_configure_wireguard` and `_configure_checker` in their order,
one for each file, service or request. `AllocateFails` and `RegisterFails` cover a refusal and an
answer lost after the server has acted. `Abort` covers all steps that may only fail (the port probe,
apt, the download). A started service is not restarted by `systemctl enable --now`; `Reboot` starts
both services anew from the files. One enrollment runs at a time; panel requests, one at a time,
overlap with it and write back the section they have loaded. A lease granted to one agent id is not
granted to another.

## 3. The runs

| Run | Question | Bounds |
|---|---|---|
| `poll` | From a response of any shape to the record of a user: whose entry is it, is anybody overlooked, and do counter, verdict and alert still agree with the history? | limit 3, 6 readings, 2 users, lists of up to 2 entries at one place, short ones at every place and at two places, 3 pages, every answer of the two interfaces |
| `core` | Without failures, do the four places agree, is every sustained user detected, is the operator alerted once, do endless stops stick, until a sync writes back a stale copy? | 2 users (stopped for a minute; watched), 1 session, 2 jobs of it (cycle, Sync now, saving the instance, disable, enable), any number of timer cycles, limit 2 |
| `faults` | What still holds with a failure? | 2 users, of one of them up to two readings in a response, 1 session, 1 job of it (Reset flag included), 1 failure anywhere, any number of timer cycles |
| `temporary` | Does a temporary stop end, recorded or not yet recorded? | 2 users, one of them without an account, 1 session, 3 commands, 2 failures, fair |
| `config` | Does one session at a time make exactly the edits it is asked for, dying anywhere? | 2 instances, 2 users, 3 requests of every kind |
| `config_races` | What can sessions that overwrite each other do to the policies? | 1 instance, 1 user, 2 sessions, 4 requests |
| `enroll` | Does the enrollment continue where it stopped? | 3 attempts, 2 panel requests, any number of reboots, 3 agent ids, keys and leases |
| `instances` | What may several instances, an operator and failures do to account files, records and to who is monitored? | 2 instances, both configured or the second deleted earlier with a stop left behind, one account file or two, 2 users, 1 session, 1 request, any number of cycles and failures, fair |
| `struck_per_cycle`, `web_sync`, `stop_not_saved`, `exempt_ineffective` | the findings below | as small as shows it |

`MaxStrikes` stops the WebIF from serving an "over" reading to a user with that many strikes; with
limit 2 and `MaxStrikes` 3 a watched user still goes beyond its limit, which is where a repeated alert
would come from. The history counters `over`, `tail` and `alerts` stop at the value the properties ask about.
Two users are needed because a cycle treats users in one critical section: what fails for one is lost
for the other. Every conflict over `state.json` is between two processes, the timer and a session; two
jobs of the session allow a command and a sync, or a disable and an enable, in any order among the
timer's cycles, and three (`temporary`) disable, enable and one more. Two readings of a user in one
response are enough to reach the limit of two within a cycle. A stop of one minute expires before,
inside or after any critical section, since `Tick` may happen anywhere.

Entries of `poll` cover each way to be listed: by name, by hash, disabled, with a figure that is no
number, with somebody else's hash, with a name of spaces, with no name at all. Six readings allow a
streak to begin twice with limit 3; two entries in a list suffice for a user listed twice and for a
named entry beside a hashed one. The run has 262,228 states. In `instances` the account files begin
without flags, with a foreign section, with an unfinished last line and with a block that has no user; a
single request is enough because a cycle fails and repeats without one (24,889 states; the safety
properties also hold with two requests, 160,663 states).

In the runs of `ConfigStore`, two instances and two users show an edit that reaches the wrong one; three
requests allow two edits and one that undoes them. A race needs two sessions, each of which loads before
the other saves. Three attempts to enroll allow a failure, another one where the first had succeeded,
and a success; three values of each kind let every attempt draw its own. Deadlock checking is off only
for the runs of `ConfigStore`, whose requests are bounded and whose operators may stop asking.

The properties:

* `AccountAudited`, `RecordMatchesUnlessStale`: agreement whenever the lock is free and no change of an
  account was lost (`lost`) by a failure. The second, about `state.json`, holds until a sync of the
  panel writes back a copy that is out of date (`stale`); without that condition it is
  `RecordMatchesAccount`, which `web_sync` refutes. `stale` says exactly when the unlocked sync does
  harm, and nothing else does: this is why `core` has the syncs among its jobs. Reset flag breaks the
  agreement by what it does, and is not among them.
* `SavedAsDone`: with failures too, a save never claims a stop or a reinstatement that was not done. It
  says nothing of a change that was made and not saved: that is finding 3.
* `Detected`, `StopEarned`: the two directions of the rule across cycles, until a stale copy is written:
  whoever had `strike_count` readings over the limit is flagged or stopped; whoever is stopped by a
  cycle had that many, with no lower reading, reset or reinstatement in between. The readings are
  counted, not the cycles: two overlapping cycles count as two, and so do two entries of one response.
* `StrikeIsOwn`, `NobodyOverlooked`: a strike comes from an active entry of the user's own that reads over
  the limit, and every entry whose owner can be told is visited, but for a name of spaces.
  `EitherInterface`, `TestedIsRead`: when there is a response; and that an entry `test` accepts, whose
  user can be told, gives the cycle a user, but for a response with a list of clients.
* `StreakIsExact`, `VerdictIsExact`, `AlertPerStreak`: the counter, the status and the alerts say what
  the readings since the last reset say. An alert is one attempt: how the Telegram request ends changes
  nothing.
* `OnlyTarget`, `LinesKept`, `SavedAsFiled`: an edit sets the flag of one account, no other line is lost
  or joined to another, and the records that are about to be saved agree with the file on
  every account edited. The first and the third need a file of the instance's own (`Sole`).
* `MonitoredUnlessFailing`, `StopEnds`: a configured instance is monitored for ever, and its expired
  stops are lifted, unless it or one *before* it in `config.json` fails for ever; a stop survives the
  deletion of its instance and ends once the instance is saved again.
* `TemporaryStopEnds`, `LiftedUnlessLost`: the first is about stops in `state.json` and holds whatever
  fails; the second is about accounts disabled in OSCam and holds until a failure parts the two.
* `EditsAreSerial`: with one session at a time each request has its answer and its effect together: an
  edit of the wrong user, instance or value, an edit answered `ok` and not saved, and a failed one that
  is saved are all refused.
* `OnlyAsked`, `PolicySticks`: what is left of it when sessions overlap: an edit may be lost to a session
  with an older copy, but to nothing else, and nobody comes under a stop policy by accident.
* `KeyInUse`, `LeaseInUse`, `OneAgent`, `EnrolledMeansReady`, `AllocatesOnce`: the private key, the lease
  and the agent id are the same everywhere, whatever dies when. Only the first holds also after a panel
  request has undone a save of the enrollment; the others say `~ undone`, and need it: the next attempt
  would draw a new agent id or allocate again, while the tunnel keeps the old lease.
* `AlertedOnce`, `IndefiniteStopSticks`: at most one alert between two resets of the alert flag; only an
  operator's enable or reset takes back a stop without an end. Both until a sync writes a stale copy,
  which does take such a stop back (`web_sync` shows it).
* `FollowsRule`: every save changes each record by one step of `Monitoring`, with failures, in a run
  without syncs. `StopIsLifted`: finding 3.

**Fairness.** `Tick` (time passes), the timer's `StartCycle` (`OnUnitActiveSec` starts the service again
after each run) and the work of a process that has begun a job (nothing blocks it but the lock).
No session has to start, and no failure has to happen. `flock` promises no order among waiters, so
fairness is weak, and a waiting process is sure of the lock only because sessions are finitely many
in a run. No property claims that a session is served while cycles keep coming. In `Instances` it is the
same: weak fairness of what `run-all` does, from its start to its end, and of the work of each session
that has begun a job. `Expire` is not fair: `StopEnds` is about stops that have expired.

### Findings

1. `struck_per_cycle`: the loop of `run_cycle` evaluates every entry that lists a user
   (`poller.py:105`), and `status.client` lists one per connection. A user with two connections gets two
   strikes in a cycle, and with a limit of two is flagged, or stopped, in its first cycle over the
   limit; `strike_count` is documented as a number of consecutive cycles
   (`specs/001-oscam-reshare-control/spec.md:203`).
2. `web_sync`: `_sync_local_account_users` reads and rewrites `state.json` without the lock
   (`webapp.py:625`), although the contract of `state.json` says it is written under one. A stop saved
   in between is undone: the account is disabled, the record says ok, nothing will ever enable it.
3. `stop_not_saved`: a failed reinit or a crash after the edit of `oscam.user` loses the record of the
   stop, and the account stays disabled.
4. `exempt_ineffective`: an exempt user is exempt only while it has no policy entry, and every sync
   creates one (`config.py:208`). An instance from the older format has a user on its exempt list; one
   Sync now, and the user can be stopped.

Of the same kind, and the reason why some properties are stated or checked as they are:

* Reset flag on a temporarily stopped user (`webapp.py:387`) clears the record and leaves the account
  disabled; no cycle enables it again, although `specs/002-web-multi-instance-control/spec.md:27` says
  "Scheduled monitoring MUST automatically re-enable temporarily stopped users once their stop duration
  has expired". `core`, which checks the agreement, is therefore run without it.
* `specs/002-web-multi-instance-control/spec.md:42` says "`run-all` runs each configured instance
  independently"; `cli.py:238` has no error handling in its loop, so an instance that fails keeps the
  later ones from being monitored. `MonitoredUnlessFailing` says who depends on whom.
* Two instances with the default base path share `oscam.user` and lose each other's edits (`Sole`).
* Without the account of a user that has to be stopped, a cycle saves nothing: nobody is flagged and
  each cycle repeats the alerts of the others. `Detected` and `AlertedOnce` are checked in `core`, where
  every user has an account and nothing fails.
* Saving an instance in the panel drops its exempt users (`webapp.py:291`). `ConfigEdits` makes the same
  change (`Configure`), so that no property tells of it.
* Overlapping panel requests undo each other's edits. `EditsAreSerial` is checked, and proved, for one
  session at a time.
* A panel request that overlaps with the enrollment takes back what it has stored (`undone`).

## 4. The proofs

All theorems hold for any sets of users, accounts and sessions, any policies, any limit and any bounds,
from the named assumptions of the modules: `StrikeCount` is a positive number, `NoTime` is not a number,
the timer is not a session, `Free` is not a process, `NoUser` is not a user, `Gone`, `Unset` and
`Nothing` are no instance, action or request, `None` is not an agent id, key, lease or tunnel; in
`PollCycle`, that each place of a response holds `NoList` or a list of entries and that names are names;
in `Instances`, that `config.json` begins without an id listed twice (`AppConfig.validate` sees to it),
and that the account files begin as text. TLC evaluates these assumptions in the runs.

* `TypeCorrect`: `Spec => []TypeOK`. The type invariant alone is not inductive: a step at `stopEdit`
  updates the record of `cur[p]`, so `CurOK` adds that a process working on one user has one.
* `AuditIsTrue`: `Spec => []AccountAudited`. Strengthening: `LockInv` (a process is in its critical
  section exactly if it holds the lock), `EditInv` (a process about to reinit has written its flag) and
  `AuditInv` (agreement for every account but the one being changed, in the middle of a critical
  section too). A failure at a reinit sets `lost`; a failure elsewhere leaves the accounts alone
  (`LeavesAccounts`). No assumption on the jobs: the sync cannot break it.
* `RecordsAreTrue`: `Spec => []RecordMatchesUnlessStale` if Reset flag is not among the jobs
  (`CarefulJobs`). Strengthening: `RecordInv` (until a stale copy is written, while somebody holds the
  lock the records in its *memory* agree with `oscam.user`, except for the user at hand; while nobody
  does, those in `state.json`) and `TodoInv` (a cycle evaluates nobody that is stopped, and not twice
  the user it is stopping). A sync that is not stale changes nothing, which is why no assumption on
  syncs is needed.
* `SavedIsDone`: `Spec => [](~ stale => SavedAsDone)`, whatever the jobs are and whatever fails.
  `DoneInv`: while the lock is held, a user whose record was stopped or reinstated in memory is so in
  `oscam.user` and in OSCam, but for the one whose `reinit` is under way. `Outsider` and `LockMoves` say
  that a process outside its critical section disturbs nothing of it.
* `StopIsEarned`: `Spec => []StopEarned`, whatever the jobs are and whatever fails. `StopEarned` speaks
  of the moment of a stop only; `EarnInv` adds that the strikes of every record that is not stopped are
  covered by readings over the limit, in `state.json` by `over` (`StoreCovered`), in the memory of the
  lock's holder by `Streak`, which includes what is not saved yet (`MemCovered`), and follows a decision
  to its edit (`DueOf`). `StreakInv` says that nothing is pending while the lock is free.
* `LimitIsDetected`, `AlertIsOnce`: `Spec => []Detected` and `Spec => []AlertedOnce` if nothing fails
  (`Faultless`: no failures, and every user has an account), whatever the jobs are. `TracksInv`: until a
  stale copy is written the records have counted every reading over the limit that is not about to be
  forgotten, and a user alerted about is stopped or beyond the limit with a policy that stops nobody.
  With failures both are false, as said above.
* `RuleIsFollowed`: `Spec => FollowsRule`, that is, `ReshareControl` implements `Monitoring`, with any
  failures, if the jobs are the cycles of `run` and the operators' commands (`LockedJobs`: all but the
  two that sync). The assumption is needed: a stale sync is no step of the rule. `PathInv` relates each
  record in the memory of the lock's holder to the one in `state.json`: unchanged, lifted, evaluated by
  so many readings of its response as are gone from `body` (`LiftPath`, `JudgePath` with `Judged`, and
  `Deciding` on the way to a stop) or changed by one command (`CommandPath`). A save is then one step of
  the rule for each user, and every other step a stutter.
* `EndlessStopSticks`: `Spec => IndefiniteStopSticks`, from the same invariant, whatever the jobs are:
  until a sync writes a stale copy, which is the condition in the property itself, only an enable or a
  Reset flag takes back a stop without an end.
* `HistoryTypeTheorem`, `AlertTheorem`: `Spec => []TypeOK` and `Spec => []AlertPerStreak` in
  `StrikeHistory`.
* `StreakTheorem`, `VerdictTheorem`: `Spec => []StreakIsExact` and `Spec => []VerdictIsExact` in
  `StrikeHistory`. `StatusInv` ties the status to the counter; `LastOverIffStrikes` turns the counter
  into a statement about the last readings.
* `RecordTheorem`: the same four properties of `StrikeHistory` in `PollSpec`, that is, throughout the
  cycles over any responses. A cycle is built from `Evaluate` and `Reinstate`, so each of its steps is
  one of the history or leaves the record alone (`HistorySteps`), and the invariants carry over.
* `OwnTheorem`, `EitherTheorem`, `OverlookedTheorem`, `TestedTheorem`: `StrikeIsOwn`, `EitherInterface`,
  `NobodyOverlooked` and `TestedIsRead`, for any set of responses and pages. The loop's invariant says
  that `queue` and the users in `seen` together are those of `ReadUsers`; the rest are lemmas about the
  operators of `UserStats`.
* `PollTypeTheorem`: `PollSpec => []PollTypeOK`. `Placed` says that each user in `queue` is at the place
  of an entry of its own in the list that is read, and no two at the same.
* `StruckTheorem`: `PollSpec => []StruckAsListed`. The property bounds the strikes by all entries of the
  user, which a visit does not change, so it is not inductive: `StruckInv` bounds them by the entries that
  the loop has left behind (`OwnPlaces` without `LeftOf`), a set that grows by one with each visit because
  of `Placed`.
* `EditIsExact`: whatever the lines of the account file, the edit of a flag reads back, and keeps the
  other accounts, their flags and all other lines. `Embeds(old, new, f)` is the argument: the lines of
  the old file are those of the new one at the places `f`, in their order, but for `disabled` lines.
  From it follow, once for the replacement and the insertion of a line, that blocks end where they ended
  (`EmbedsBlock`), belong to whom they belonged (`EmbedsAccounts`), and that the other lines have the
  numbers they had (`EmbedsOthers`). `EditTwice`: repeating an edit changes nothing.
* `InstancesProofs!TypeCorrect`, `SavedIsFiled`, `EditIsTarget`, `OthersStay`: `Spec => []TypeOK`, `Spec
  => []SavedAsFiled`, `Spec => OnlyTarget` and `Spec => LinesKept`, for any number of instances, base
  paths, users and sessions. The inductive invariant `Inv`: `Locked` (a process is in the critical
  section of an instance exactly if it holds its lock), `Placed` (what a process has at hand where it
  is), `Lists` (no list of instances names one twice), `Copied` (the lines a process has read differ
  from the file in flags at most, and not at all if the file is one instance's own) and `Edits` (an
  edited account is still there). `Copied` is why lines survive although instances that share a file
  overwrite each other's edits: what is written back is out of date, but only in flags.
  `OthersUntouched` is the step of a process seen by the others.
* `ConfigStoreProofs!TypeCorrect`: `Spec => []TypeOK`. A session that has loaded something has a request.
* `PoliciesAreAsked`: `Spec => []OnlyAsked`, for any number of overlapping sessions. The invariant of the
  file alone is not inductive, since a session replaces the file by its copy: `AskedInv` says the same of
  every session's copy, and `asked` only grows.
* `Serialized`: `Spec => EditsAreSerial` if there is one session (`OneSession`). `UpToDate` says that
  the copy of a session in its request is the file and that an idle session has no request; `Working`
  that only an enrollment is at the steps of one, with the stages it has been through in its copy. Each
  action is then the edit its request names, with its answer, or a stutter. Two sessions can lose an
  edit, so the assumption is needed.
* `PoliciesStick`: `Spec => PolicySticks`, for any number of overlapping sessions; each save is explained
  by what its session has seen (`SaveExplained`).
* `VpnEnrollProofs!TypeCorrect`: `Spec => []TypeOK`, with `PlaceInv`: where an attempt is says which files
  exist. It is what makes the key written into `wg0.conf` and the key registered one that exists.
* `OneKey`: `Spec => []KeyInUse`. With `PlaceInv` it is inductive: `private` is drawn only while nothing
  can depend on it.
* `AllocatedOnce`, `OneLease`, `OneIdentity`, `EnrolledIsReady`: `AllocatesOnce`, `LeaseInUse`,
  `OneAgent`, `EnrolledMeansReady`. The properties speak of files and of the server, the code decides by
  its copy of `config.json`: `MemInv` says that the two differ only between an allocation and its save,
  `GrantInv` that a recorded lease has been granted to the recorded agent, `RecordedOnce` that agent and
  lease are set once, `ReadyInv` that nothing an enrolled node has is taken back. All are about runs in
  which the panel has undone no save (`undone`), as the properties are.

Every safety property, invariant or action property, that a passing run checks is proved, some of them
under the assumptions above (`CarefulJobs`, `Faultless`, `LockedJobs`, `OneSession`); `SavedAsDone`
until a stale copy is written. Out of the prover's reach, because they need fairness, and model-checked
only: `TemporaryStopEnds`, `LiftedUnlessLost`, `MonitoredUnlessFailing`, `StopEnds`.

The least number of a set, by which blocks and places of a response are found, is `CHOOSE`n in
`FiniteSetsExt`. That it exists in any set of numbers (`LeastElement`) follows from the library's
theorem about well-founded relations. Sequences are edited with `InsertAt`, `RemoveAt` and `EXCEPT`, and
`OtherLines` is a set of numbered lines, because the provers have no definition of `SelectSeq`.

## 5. Not modelled

* *The state store below the lock.* `state.json` and `config.json` are replaced atomically through a
  temporary file; the models take that as one step. Its validation, and what is done with an
  unreadable file, are not modelled. A power loss during a save neither.
* *A changed base path.* Saving an instance with another base path while users are stopped leaves their
  accounts disabled in a file that is out of reach; `base` is constant in `Instances`.
* *The values of settings.* Limits, durations, ports and passwords, and their validation in `config.py`:
  a reading is compared with its limit in the input, a policy is its action.
* *The HTML of `userconfig.html`* and what is only displayed (the connected users, the status of a page).
* *The pages and the authentication of the panel, the curl command line, the wording of messages*: text
  and I/O without state of their own.
* *The installers and unit files*: shell scripts that run once; what they schedule is the process
  structure above.
* *The dry run*: it writes nothing.

What would come next: the temporary files and their replacement as processes over a directory, shown to
implement the atomic file that the models assume; the base path as state of `Instances`.
