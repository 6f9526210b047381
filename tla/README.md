# NPMplus: TLA+ models, checks and proofs

NPMplus is an administration interface for nginx. A Node.js backend (`src/backend`) keeps hosts,
streams, certificates, access lists, users and settings in a database, renders nginx configuration
from them, drives the running nginx, certbot and CrowdSec, and answers a React frontend. Every request
handler is an `async` function: Node runs one handler at a time, but each `await` lets the others in,
each awaited call may fail, the process may die, and several background timers run beside the
requests. Around it a container starts and restarts the backend, and a script on the host updates the
installation once a month and puts it back when that fails. These are the behaviours the tests under
`src/backend/test` and `src/tests` seldom reach, and what the models are about.

Paths below are relative to `src/backend/` unless they start with `src/`.

## 1. Inventory

| Component | State | Operations | What is hard | What makes it correct | Module |
|---|---|---|---|---|---|
| Hosts: `internal/nginx.js`, `proxy-host.js`, `redirection-host.js`, `dead-host.js`, `stream.js`, `host.js` | a row per host, its `.conf` and `.conf.err`, access files, what nginx has loaded, the audit log | create, update, enable, disable, delete | rows, files and nginx change in separate awaits; nginx validates all files together | rows, files and nginx agree; success means served; every change is audited | NginxHosts |
| Default site: `internal/setting.js` | one row, `default.conf`, `index.html`, what nginx has loaded | update, chained on a promise; boot | the candidate goes live before it is stored; recovery; crashes | an update is applied whole or dropped whole | DefaultSite, refining AtomicSetting |
| Access lists: `internal/access-list.js`, `lib/access-list-recovery.js`, `internal/proxy-host-access-list.js` | list rows, host attachments, password files, host files | update (chained), delete (not chained) | files shared by lists, transactions over file operations, one database connection | files follow the committed rows | AccessLists |
| Security telemetry: `internal/security-telemetry.js`, `src/rootfs/.../npmplus_telemetry.lua` | counters in nginx, the observer's file, a baseline and five-minute buckets | a collection every minute, a report | restarts, repeated and late readings, resets, clock steps, crashes | nothing is counted twice; "complete" has lost nothing | SecurityTelemetry |
| Sessions: `internal/token.js`, `token-session.js`, `lib/token-time.js`, `lib/access.js` | session rows, tokens in browsers, the revocation time of a user | login, challenge, refresh, logout, revocation, expiry | refresh against logout, times in whole seconds | a logout lasts, a revocation reaches every token | TokenSessions |
| Second factors: `internal/mfa.js`, `totp.js`, `backup-codes.js` | enrollment rows, used steps, code rows | enroll, confirm, verify, remove, reset, regenerate | two uses of one code or challenge | each is accepted once; codes go with the factor | SecondFactors |
| Users: `internal/user.js`, `routes/users.js`, `models/auth.js` | user and password rows | suspend, delete, change a password, revoke | a hash that is replaced after the password has changed | no password is undone by a login | Accounts |
| Certificates: `internal/certificate.js` | certificate rows, files, certbot's lock, a timer | create, renew, upload, attach, delete, renew all | certbot runs for minutes beside requests | a live certificate has its files, one in use is kept | Certificates |
| Trusted ranges: `internal/ip_ranges.js` | one file | fetch on a timer | the file is written before the reload | nginx follows the file in the end | Certificates |
| CrowdSec client: `internal/crowdsec.js`, `routes/crowdsec.js` | a cached machine token shared by all calls | call with one retry, ban, unban | a token replaced while calls are in flight, lost answers | the token is of the key that was read; a change is made once and audited | LapiClient, Crowdsec |
| Rule-set control: `internal/crs-control.js`, `src/setup-npmplus.sh` (`npmplus-crs-control.py`) | a state and a worker on the host, a snapshot, CrowdSec's directory, the file the dashboard reads | status, enable, disable, over a socket | two files, a restart and a mark change one after another; commands, the rollback and the service itself fail; the answer is lost; the daily key check replaces the marked file | the old rule set or the new one, never a mixture; the known-good snapshot survives a failed rollback | CrsControl, Crowdsec |
| Attacker catalogue: `internal/crowdsec-history.js`, `crowdsec-attackers.js` | sessions with cursor and revision, a shared scan | open, advance, join, expire | parallel requests of a revision, eviction, ties of times | every alert is counted once; nobody waits for a scan that has ended | AlertHistory, Crowdsec |
| Startup and initial setup: `index.js`, `setup.js`, `routes/users.js`, `src/rootfs/usr/local/bin/start.sh`, `envs.sh` | the fingerprint of the environment, generated files, the setup token, the first administrator | boot with retry, regeneration, setup requests | a boot that fails halfway, crashes, two first administrators | regeneration is not skipped; one first administrator; setup stays possible | Startup |
| Safe update: `src/setup-npmplus.sh` (`npmplus-safe-update`, `--update`) | snapshots, the deployed images and script, public ports | snapshot, deploy, check, put back | failing commands, signals, a deadline and power loss at any command | the new release, or what was there, or closed ports | SafeUpdate |
| Backup, restore, key check: `src/setup-npmplus.sh` (`npmplus-backup`, `--restore`, `npmplus-crowdsec-heal`) | archives, the copy made before a restore, the keys CrowdSec accepts | back up, restore with recovery, check and register keys | a restore that fails halfway, a recovery that fails too, a key check without the lock | no mixture of two installations runs; rejected keys are replaced | Maintenance |
| Caught addresses: `internal/anubis-reporting.js`, `src/setup-npmplus.sh` (`anubis-honeypot-ban`) | Anubis' file, a position and a fingerprint in two files of the bridge and in one row of the backend, events | a cron run that has CrowdSec ban, a collection every minute | the file is started anew under its readers, runs are killed between two renames, CrowdSec refuses | no address is passed over; each line is recorded once | Honeypot, CrowdsecHost |
| Origin lock: `src/setup-npmplus.sh` (`npmplus-cloudflare-origin-lock`) | lists on disk, sets and chains in the kernel | download, keep, verify, apply | downloads fail | a validated copy is kept | OriginLock |
| Rest of `internal/anubis-reporting.js` | metric buckets, the journal of attempts | two ingests a minute, a report | as security telemetry, for many series | partial windows are shown as such | not modelled |
| OpenID login: `routes/oidc.js`, `internal/token.js` | the row that links an identity to a user | callback | two first logins at once | an identity is linked once, and only by a verified email | Accounts |
| Home location, remote version | a cached answer | one shared lookup | calls in flight together | one lookup at a time | not modelled |
| Audit log, reports, HTTP layer, schema, models, migrations, utilities | rows; none across requests | a query or a check | | they bound the inputs of the operations | not modelled |
| Rest of `src/setup-npmplus.sh`, `src/crowdsec-doctor.sh` | files of the host | install, harden | sequences an administrator runs | | not modelled |
| Frontend, images | | | | | not modelled |

How they interact: every component that renders configuration calls `internalNginx`, whose reload
reads *all* files, so one component's half-written file is another's failed reload. Access lists and
certificates reconfigure hosts; saving a host reads the lists and the certificate attached to it. All
components share the one database (SQLite by default, whose pool has a single connection) and the
audit log. The calls to CrowdSec share one token. The container writes the database and the generated
files while the update script copies them or puts them back. Update, backup and restore exclude one
another by a lock; the daily check of CrowdSec's keys does not take it, and replaces the file a switch
of the rule set marks. The bridge brings CrowdSec its bans while a switch restarts it.

## 2. The modules

Every action is one segment of a handler between two awaits that others can observe, or one await
that fails; in the scripts it is one command. In-memory values a handler carries across an await
(`snap`, `graph`, `candidate`, `reading`, the fields of a request) are variables, so that staleness is
part of the model. A rendered file is the content it was rendered from; nginx refuses the contents in
a constant set (`Bad`, `Refused`) or, in Certificates, a chain that does not fit its key.

### NginxHosts
`rows` is the database, `conf`/`err`/`acl` the files by the content they were rendered from, `served`
what nginx loaded at its last successful reload, `pc`/`task`/`snap` a request. `WebHost` stands for
redirection and 404 hosts, whose handlers are copies. A request commits (`CommitCreate`,
`CommitUpdate`, `CommitEnable`, `CommitDisable`, `CommitDelete`, each with the checks made before
it), reads the row back (`Fetch`), and for an enabled host goes through `configure`: `RemoveConfig`,
`Generate`, `Reload`, then `SetOnline`, or `PatchOffline`, `RenameAsError` and a second reload. A
proxy host builds its access files first and is probed afterwards. `Audit` closes the request. `Throw`
is the way an exception takes: to the audit entry, which `finalize` writes in every case. `Fault` lets
any await fail, at most `MaxFaults` times.

`Overlap` says whether two requests in flight may name the same host. The backend does not prevent
it, so what holds only without overlap is stated with `Overlap = FALSE`, and what breaks is described
in section 4. Streams (`StreamHost`) take the same path as web hosts with a port check in place of the
name check; the runs have none, the theorems cover them.

### SettingData, AtomicSetting, DefaultSite
`SettingData` holds the setting and the payload of an update, shared by the two others.
`AtomicSetting` is the specification: an update begins a trial on the stored setting, and the trial
is applied or dropped. `DefaultSite` is the code: `Arrive` puts an update on the chain, `Read` reads
the row at its turn, `Snapshot`, `Generate`, `Test`, `WritePage`, `Reload`, `Commit`; a failure goes
through `Restore` and `ReloadBack`. `OtherReload` is a reload on behalf of any other component.
`Crash` kills the process with all requests, `BootGenerate` and `BootReload` are what the next start
does for this setting, retried by `BootFault`. The variable `stale` records which files a failed
recovery or a crash can have left wrong: the code cannot repair those (the boot rewrites
`default.conf` but not `index.html`), and the properties say what holds apart from them.

### AccessLists
`policy` and `attached` are the committed rows, `listFile`, `hostFile`, `served` the files and what
nginx loaded, `chain` the promise updates are serialised on, `trx` the holder of the one database
connection. An update: `Validate`, `Begin` (rows and graph, in the transaction), `Snapshot`,
`WriteList`, `WriteHost` once per host, `Test`, `Reload`, `Commit`; on failure `Rollback`, `Restore`,
`ReloadBack`. A deletion: `DeleteRead`, `DeleteRows`, `ConfigureHost` per host, `DeleteFile`. Hosts
are enabled proxy hosts; a host's files are the merge of the rules of its lists. A host save
(`SaveHost`) is taken as a whole, is one nginx accepts, and is kept out of a recovery and of a deletion
(`SaveWindow`). The
eager relation queries of `DeleteRead` are taken as one read. The online flag of the hosts and the
removal of their `.err` files, which an update also does, are left out.

### SecurityTelemetry
The source: `Count`, `Overflow` (the shared dictionary is full, the event is lost and that is kept),
`NewEpoch` (a restart), `LoseCounter` (a counter of the firewall starts anew within an epoch), `Switch`
(the bouncer switched off and on). `Tick` and `SetBack` move the clock. For the firewall (`FromFile`) the
observer writes a file (`WriteFile`) that the collector reads later, more than once or never.
`MCSecurityTelemetry` has both sources: a behaviour is that of the firewall or that of nginx. `Read` takes a reading, `Ingest`,
`RecordDisabled` or `Refuse` records or rejects it in one transaction, and `Crash` loses what has been
read. `Partial` and `WindowTotal` are the report's. Instead of the floor of a time the module has the
constant set `Start` of bucket starts, at least `Bucket` apart. `happened`, `counted`, `span`, `intact` (no
counter was lost within an epoch) and the `seen` of a reading are history: they are never read by a guard.

### TokenSessions, SecondFactors, Accounts
One account and the requests made on it. `TokenSessions` has the table of sessions, the tokens
browsers hold (`held`, also those they have forgotten: a stolen cookie), the check every request makes
of both (`CheckSession`, `CheckUser`), and the ways a token comes about: `Sign` and `Extend` for a
refresh, which updates a row and never inserts one; `Issue` and `Insert` for a login, where `Issue` may
wait for the next second to be dated after the last revocation; `Consume` for a challenge. `Stamp` is
the revocation. `SecondFactors` has the enrollment rows and backup codes with every query of
`totp.js`, `backup-codes.js` and `mfa.js` as a step. `Accounts` composes them into the routes: a
request has a kind (`req[r].kind`), its `pc` names the next await, and `AfterUser`, `AfterFactor` and
`AfterStamp` say where the shared steps lead for that kind. `CodesAtHand` is what a person can type:
the current code of a secret that was shown, or a backup code. `Administer` is the one statement by
which an administrator suspends, readmits or deletes the user. A login with OpenID is `ReadBinding`,
`ReadOidcUser`, `Bind` and `CheckOidcFactor`; what the identity provider says comes from outside. `Fault` ends a request anywhere.
Sessions, secrets, passwords and code sets are named after the request that made them, so random
values never meet. The enrolled factors are a set of rows: the queries that read them name no order.
`ended`, `closed`, `spent`, `stamped`, `chosen` and `crossed` are history.

### LapiClient, AlertHistory, CrsControl, Crowdsec
`LapiClient` is `lapiMachineFetch`: read the key file, take the cached token or ask for one, send,
and start over once after a refusal. CrowdSec is external: it grants tokens for its key and honours
those of its current run. Keys change in the file and in CrowdSec at different moments. `AlertHistory`
holds the pure operators of one batch of `scanAlertHistory`: what the LAPI answers, which alerts the
cursor has passed, the next cursor, and when the scan gives up.

`CrsControl` is the service on the host that switches the rule set. `Look` and `Decide` are the status a
connection reads and the decision taken on it; `Take` starts the worker, which checks that CrowdSec
is healthy and takes a snapshot (`DropSnapshot`, `CopySnapshot`, `StoreText`), then changes policy and list
(`ChangePolicy`, `ChangeList`), tests, restarts, compares the file of the bouncer with what it has read
(`CheckSame`) and marks it (`WriteMark`, `VerifyMark`). A command fails in `SnapshotFails` or `SwitchFails`,
with or without its effect; the rollback is `ClearConf`, `PutBack`, `Unmark`, `Revive`, and fails in
`RecoverFails`. `Unsaved` is a state that could not be written, `KillService` ends the service anywhere, and
`HealRead`/`HealReplace` is the daily key check's `sed -i` on the same file. `hist` is history: what was good
before the change, whether a rollback has failed (`damaged`), a change was begun after that (`again`), or the
check has replaced the file under the worker (`raced`).

`Crowdsec` composes them with the sessions of the attacker catalogue (`Open`, `Advance`, `Join`, `Expire`,
the batches of a scan and its end for all who wait) and the audited changes: a ban is `Change`,
`ServeChange`, `LoseChange`, `Finish`; a switch is `Switch`, `Connect`, `Verb`, with an answer that is lost
(`VerbLost`) or not waited for (`GiveUpVerb`). `counted` and `changes` are history.

### Honeypot, CrowdsecHost
`addrs` is the file Anubis appends to (`Catch`) and starts anew (`StartAnew`). The bridge copies it (`Run`), goes
on at the position its fingerprint confirms (`Resume`), asks for a ban per line (`AskBan`: taken, refused, or
taken and reported as failed), and saves fingerprint and position by two renames (`SavePrint`,
`SavePosition`); `CutShort` is a kill anywhere. The backend's collector is `ReadLog`, `Record` (one
transaction) and `DropText`. A line carries the number it has among all ever written, which no guard
reads. `CrowdsecHost` composes this with `Crowdsec`: a ban is taken while CrowdSec is up, which a switch of
the rule set interrupts.

### OriginLock
The script of the origin lock as its list of commands (`Script`), with a step of its own for each command
that changes a file, a set or a chain. It models what bash does: in a function called as the condition of an
`if`, a failing command ends nothing.

### Certificates
A version stands for the content of a certificate and for its expiry. A request of kind create,
renew, upload, attach, delete or `hostnew` (a host saved with a certificate still to be requested)
goes through the awaits of its handler; `StartCertbot`/`EndCertbot` hold certbot's lock, which refuses
a second run. `Count` visits the four tables one after another. `Timer*` is `processExpiringHosts`:
certbot renews a set of certificates, nginx is reloaded, and the rows are patched in parallel with what
each file said. A renewal on request whose reload fails is still audited (`AuditFailed`). `Fetch`/`ReloadRanges` is the timer of the trusted ranges, which shares the reload.
`raced` is history: certificates that were attached while they were being deleted or made, be it that
the host was saved in the middle of that, or that the row went (`Mark`, `Drop`) while a host was on its way
to be saved with it (`Attaching`). The proof showed that the second half is needed for `Drop` too, and for a host
whose certificate is deleted by another request while it is requested for it; two scenes of the run have these.

### Startup, SafeUpdate, Maintenance
`Startup` is the container: `Begin` compares the fingerprint (`env.sha512sum`) and removes the
generated files when it differs; `Migrate`, `DefaultUser`, `DropToken`, `EnsureSetupToken`
(where there is nothing to create), `CreateToken` and `WriteToken` (the file of the setup token is opened, then
filled), `Regenerate` per host, `WriteHash`, `Load` are the start of the backend, tried again from the
migration after any fault; `Ask`, `Claim`, `Recheck`, `Verify`, `CreateUser`, `Unlink` are a request
that makes the first administrator. A release is a number that stands for the image, the environment
it renders for and its newest migration.

`SafeUpdate` extends it by the script that updates the installation while the container goes on:
the snapshot (`Stage` to `Ready`, with the two renames `Keep` and `Place`), the deployment
(`Candidate`, `InstallScript`, `Launch`; the child `Pin`, `Pull`, `Deploy`), the checks, and the exit
handler (`StopChild`, `RestartService`, then `ToCleanup` or the rollback from `Close` to
`CheckRestored`, `Cleanup`). `Interrupted` is a failing command or a signal at any command,
`Deadline` is `timeout`, `RevertFails` a failing command of the handler, `Killed` the end without a handler. A
host's save is taken as a whole (NginxHosts has its steps), and so is the regeneration of one host. The
boot guard is taken as installed and its apply as working; systemd units, the refresh of CrowdSec's
hub, the healing of keys, the copy of Anubis' files and changes of the environment by hand are left
out. `torn` is history: files older than their database were put back.

`Maintenance` extends that by what else is done to the installation while it runs. The backup is
`StartBackup` to `Pack`; its copies are made one after another while the backend writes. A restore is
`Confirm` (archive validated, question answered, lock taken, archive unpacked, container inspected: one
that is off has been removed), `StopStack`, the copy of
what is to be replaced (`SaveDatabase`, `SaveFiles`, `SaveCrowdsec`, which marks it complete), the three
replacements, `StartStack`, a check of the keys and `ProbeRestored`. Every failing command
(`ComposeFails`, `CommandFails`, `ReplaceFails`) leads to the exit handler, from `Recover` to `RecoverStart`, whose commands
fail too (`RecoverFails`); a part that is removed and not yet copied is `Lost`. `RestoreKilled` is
the end without a handler. A check of the keys (`CheckKey`, `RegisterKey`, `WriteKey` per name) is made by the restore and, as
`cron`, once a day. A key is a number; `keys.known` is CrowdSec's, `keys.held` that of the files.
`LockFree` is the lock the three share; a deployment that outlives a killed update still holds it. The daily
check does not take it, so it may restart the container that a restore has stopped (`cut`): the
model ends there (section 4). The hosts of a backup and a restore are whole contents, avatars and Anubis' policy
are part of them, and the update's own healing of keys is left out, so keys are checked only where
nothing updates. `origin` is history: where each part of the data comes from.

## 3. The runs

| Run | Instance | Shows |
|---|---|---|
| `hosts_faults` | one proxy host, one web host, two requests in flight on different hosts, up to two failing awaits | `SettledConsistent`, `SuccessIsConsistent`, `ReachIsCurrent`: a request can meet the other's refused file in its reload, and recovers |
| `hosts_disabled` | one web host, two requests racing on it | violated: `DisabledNotServed` |
| `site` | two updates, two pages, three values (one nginx refuses), two failing awaits, one crash, fairness | `SiteMatchesSetting`, `ServesStoredOrCandidate`, the refinement `ImplementsAtomicSetting`, `EveryUpdateTried`: no update is answered with the failure of the one before it |
| `lists` | two lists, two hosts, two requests (updates overlap, deletions do not), a host save, a failing await, fairness | `FilesMatchRows`, `CommitAfterReload`, `EveryRequestAnswered` |
| `lists_delete` | two lists, two hosts, two requests that may overlap, at least one a deletion | violated: `SharedFilesCurrent` |
| `telemetry` | the firewall's counter, read through a file: two events, two buckets' time, lost counters, a clock set back; or nginx's, read over a socket: one event, three buckets, overflows, switches; for both two epochs and crashes | `NeverInflated`, `CompleteIsCounted`, `WindowIsCounted` |
| `accounts` | three requests that overlap in every way, in sixteen scenes (what they are, whether a second factor is on, whether OpenID skips it, whether the hash is old, whether one fails), three ticks of the clock | `LogoutLasts`, `OncePerChallenge`, `CodesUsedOnce`, `RevocationReaches`, `PasswordKept`, `SettledFactors` |
| `crowdsec` | two requests in flight, three in a behaviour; scenes with two key changes, a restart and an expired cache, with an alert that arrives in the instant of a scan, or with a failing call; pages of one alert; six scenes of two switches, from either mode, with two failing commands, one and a kill of the service, or one and the two halves of a key check; four addresses caught and the file started anew beside the bridge or beside the collector, each with its mishaps; and a ban beside a switch | `TokensAreCurrent`, `CountedOnce`, `ChangesAudited`, `WaitsForScan`, `RolledBack`, `KnownGoodKept`, `BansKept`, `ObservedOnce` |
| `certificates` | two requests in nine scenes, three certificates (two of certbot), a proxy host and a stream, one failing await, a change of the ranges, fairness | `LiveHasFiles`, `InUseIsKept`, `NginxCatchesUp`, `ExpiryCatchesUp` |
| `update` | two hosts; three scenes of a start with up to two setup requests, two faults and two crashes, six of an update (with and without an older snapshot, a candidate script newer or older, forced or not, a power loss, crashes, saves, a setup under way), seven of a backup, a restore (an archive of an older, the same and a newer release, without CrowdSec, without an administrator, made by the backup of the same behaviour, after a killed update) and the daily check, ten keys, fairness | `OneInitialAdmin`, `TokenStays`, `FilesCurrent`, `SnapshotKept`, `UpdateSettles`, `RestoreWhole`, `UpdateEnds`, `StartsUp`, `KeysHeal` |
| `setup_locked` | the scenes of a start alone, without fairness | violated: `SetupPossible` |
| `origin_lock` | one list per family, downloads that fail, kills | violated: `LastCopyKept` |

**Bounds and why they are enough.** Interference is pairwise in this code: two requests meet in a
row, a file, a lock, a reload, or on a chain, so two requests in flight reach every way in which one's
reads and writes fall between another's. `accounts` has three, because a challenge needs two
competitors and somebody who revokes, and an enrollment is made and confirmed by two. Two contents
that differ in name and one nginx refuses are all a rendered file can be here. Two failing awaits allow
an operation and its recovery to fail, one failing await with a refused content does the same. All
initial states of rows and files a settled system can have are explored, except in `lists`, where both
lists start with the same rules. Buckets last three units, the largest accepted gap two, so a reading
can fall into any place of the bucket and the gap may or may not cross its end. A challenge lasts one
tick, a session two and a code two, so that each can expire, or not, during a request. Pages of one
alert put the seam of two batches between any two alerts, and the alert lists of the scenes have ties
at every place. Release 2 is installed, 3 the newest and 1 an older candidate: newer, equal and older is
all the code asks of two releases. Two switches are a change and its way back, or a change after one that
failed; a second fault meets the rollback of the first. Bridge and collector only read what Anubis writes
and never meet, so each has a scene of its own; the file grows past what either accepts, and the collector
records one line at a time. Scenes are a bound, too: within one, everything interleaves; a
scene names the requests and the mishaps of a behaviour.

Deadlock is not checked: a system whose requests are all used up stops.

**Symmetry** over interchangeable requests and hosts is used in `hosts_faults` and `lists_delete`,
which check no liveness.

**Fairness.** Weak fairness of each request's next segment (`site`, `lists`,
`certificates`): nginx, certbot, the database and the file system answer eventually, with a result or
an error, and Node runs a settled promise's continuation. That is an assumption on these services: the
code waits for them without a limit of its own. The timers of `certificates` are fair, as
`setInterval` is. In `site` and `update` the start is fair: the code retries it every second
(`index.js:51`), with a bounded number of failing awaits, and dinit and Docker restart what dies. In
`update` the commands of the script are fair, and so is the deadline of the deployment, which
`timeout` enforces, and the daily check of the keys, which cron starts; nothing is assumed of the
deployment itself, of a backup or a restore, of a failing command, a signal or a power loss. No fairness is assumed anywhere of the arrival of requests, of faults, crashes or other
components' reloads.

## 4. What disagrees with the code's own comments

Four runs show what a comment or a document of the code denies:

* **hosts_disabled** (`internal/nginx.js:33`, `internal/proxy-host.js:273`). `update` writes the whole
  row it read before its checks. An enable that commits in between is undone in the database while
  it goes on configuring nginx, so a disabled host is served.
* **lists_delete** (`lib/access-list-recovery.js:3`). `delete` does not go through the chain that keeps
  updates of lists sharing a host apart, and configures hosts from a graph read before its
  transaction; the files of a shared host end with rules the rows no longer have.

* **origin_lock** (`src/setup-npmplus.sh:701`). `start_rules` calls `refresh` as the condition of an `if`. There
  bash ignores `set -e` in the whole function, so a download that fails, or a list `valid_list` refuses, does
  not end it: the empty file is moved over the validated copy. The script then stops at the check of that copy
  (line 704) instead of "using the last validated copy". Rules that are in place stay; a host that starts without
  the list has none, and the unit fails.
* **setup_locked** (`setup.js:52`). `ensureSetupToken` creates the file of the token and then writes it. A full
  disk or a kill in between leaves it empty. The next start reads no token, its `wx` write is refused because
  the file exists, and line 54 swallows that; the API listens, and `verifySetupToken` (60-61) refuses every token.
  The message of line 56, "Initial setup is locked. Read the one-time token with", then names an empty file, until
  somebody deletes it or sets `INITIAL_SETUP_TOKEN`. What the code does keep is `TokenStays`: the file is there as long as
  nobody has set the installation up. A write that is cut within the token is not modelled.

The following was met while modelling. It does not hold of the code, and no property claims it; where
it limits a property, the property or its module names the exception:

* `internal/nginx.js:41`: nginx validates the files of all hosts, so while one request's refused file
  is in place the reload of another request fails, and that request's good host is set offline. The
  comment at line 17 says the configuration of the host is tested first.
* `internal/stream.js:28`: the port check and the insert are separate awaits (the comment at line 11
  says the port is not in use); the same goes for the names of hosts when two requests overlap.
* `internal/access-list.js:210`: a host saved while an update of a list recovers gets its files set
  back (`SaveWindow` in AccessLists excludes it).
* `internal/token.js:204`: a refresh or a login admitted before a revocation is signed after it;
  `RevocationReaches` is about the tokens browsers hold at the revocation.
* `internal/totp.js`: two overlapping enrollments leave two pending rows, of which the first counts;
  an enable that overlaps a disable may leave codes without a factor (`crossed`).
* `internal/certificate.js:424`: two overlapping uploads of one certificate may leave a chain and a
  key that never fit; a host attached to a certificate while it is deleted keeps a deleted one
  (`raced`); a certbot lineage stays behind when its creation or its revocation fails.
* `src/setup-npmplus.sh:3567`: the snapshot copies the generated files before the database while
  the backend runs. A host saved in between is put back with the older file, and the fingerprint says
  that nothing needs regenerating (`torn`); `src/FORK.md:115` calls it a matching snapshot.
* `src/setup-npmplus.sh:1568`: a restore brings the database and the nginx files of the archive but not
  its `npmplus/env.sha512sum`, so files of another release, or older than the row of a host that was saved
  between the copy of the database and the archive, are served without being regenerated (`torn`).
* `src/setup-npmplus.sh:3897`: the daily check takes no maintenance lock and restarts the container
  after a new key of nginx. Beside a restore that starts a container which was stopped so that "both
  SQLite databases are quiescent" (line 1525). The model ends there (`cut`), so its properties say nothing of
  what follows.
* `src/setup-npmplus.sh:2597`: a change of the rule set that is begun after a failed rollback takes its snapshot of
  what that left, over "the known-good instance an operator restores from" (`again` in CrsControl); the
  state `rollback-failed` is then replaced by that change's.
* `src/setup-npmplus.sh:2716`: when `state.json` cannot be written, the state stays `running` without a worker,
  and the service answers that it is busy until it is restarted.
* `src/setup-npmplus.sh:3895`: the daily key check writes a text it read before a mark was set or removed (`raced`).
* `internal/anubis-reporting.js`: the report's `partial` flag compares the sum of covered times, so a
  restart inside a window can go unmarked (`src/docs/anubis-reporting.md`, "Partial coverage and stale
  sources stay visible").

## 5. The proofs

The theorems hold for every value of the constants: any number of hosts, requests, contents, faults,
buckets, releases, scenes. Each is proved from an inductive invariant that TLC was used to check on
small instances first.

* **NginxHosts_proofs.** `HostInv` relates each step of a request to the row and the files of its host
  (what has been removed, written, refused so far) and gives `TypeCorrect`, and with requests on
  different hosts (`Disjoint`, that is `Overlap = FALSE`) `SuccessTheorem` and `EnableTheorem`. `TidyInv` adds that
  the files of every host no request is working on follow its row, that a request which has changed a
  file will still reload, and that nginx is in step when none is pending; it is preserved as long as
  no await has failed but a refused reload, which gives `SettledTheorem`. `ReachStep`: a success on
  an enabled proxy host is reached only through its probe, which stores the reachability of what the
  row holds by then; with `HostInv` and no fault it gives `ReachTheorem`. The invariants are needed
  because consistency is broken inside each request and the property speaks of its ends only.
* **DefaultSite_proofs.** `SiteInv` is the conjunction of `TypeOK`, `BookInv` (a running update is the head of the
  chain, an update is answered when it is done), `RowInv` (the stored setting is one nginx accepts), `QuietInv` (files and
  nginx between trials) and `RunInv` (files, snapshot and candidate at each step of a trial). From it
  `SiteTypeCorrect`, `SiteMatchesTheorem`, `ServesTheorem`, `HtmlPageTheorem`, and `AtomicTheorem`: every step of the code
  is a step of `AtomicSetting` or a stutter. `UntriedTheorem` is the part of `EveryUpdateTried` that is a property of
  steps: an update ends untried only by a failure of its own or with the process.
* **AccessLists_proofs.** `CommitInv`: one update is past its validation, the request whose transaction is open
  is the only one in it, nothing it has read has changed, and the hosts it has written have the rules
  it will commit. It gives `ListsTypeCorrect` and, with no assumption on how requests overlap,
  `CommitTheorem`. `FileInv` says what files and nginx have at each step of an update, of its recovery and
  of a deletion, relative to the rows; when deletions overlap no other request (`Apart`, that is
  `DeleteOverlaps = FALSE`) it gives `FilesTheorem` and `RulesTheorem`. The assumption is needed: the run `lists_delete`
  shows what a deletion beside another request does.
* **SecurityTelemetry_proofs.** `HistoryInv`: along baseline, reading in memory, file and source, events not
  shown by the counters only grow within an epoch (`ChainInv`), so a delta never exceeds the events
  between its readings; the deltas recorded never exceed the events the baseline has seen
  (`OnceInv`). This gives `NeverInflatedTheorem` with no assumption. `BucketInv` follows a bucket
  from its first to its last reading (`LedgerInv`, as long as the history is `intact`); where the clock is not
  set back around a switched off source it gives `CompleteTheorem`, and `BucketsMeetTheorem`: two
  complete adjoining buckets meet in one reading. Both exceptions are needed: a marker that is
  stamped back in time lets the next bucket look covered, and the code cannot notice a counter that
  was lost within an epoch and has grown past its old value. A window is a sum over its buckets, a fold that takes them in an
  order nobody knows. `SumsExist` and `SumsRemove` show that such a fold exists and that any element may be taken first, each
  by a subset without a smaller counterexample (`LeastSubset`); `WindowTelescopes` goes by the least bucket at which a
  window would fail: a bucket covers no more than its length, so a window covered throughout has no hole between
  two buckets, and each sum is that up to the bucket before. This gives `WindowTheorem`, under the same assumption.
* **Maintenance_proofs, the update.** `UpdateInv` has five parts, each inductive with the type invariant, whose sets are named
  one per variable so that a step only has to look at what it changes. `ControlInv` says when the
  child runs, when the container is stopped, and what is deployed where (no deployment goes on outside
  `wait`, `check`, `complete` and the first step of the exit handler). `SetupInv`: at most one request is past its claim, between
  its second check and its insert there is no administrator, no database (that of a snapshot included)
  has two, and past `EnsureSetupToken` and `CreateToken` an installation without one has the file of its token. `FilesInv`: files whose fingerprint is that of the
  release fit the database, and a start that found another goes through the regeneration before the
  fingerprint is stored; `torn` is the only exception. `SnapshotInv` says
  where complete snapshots are at each command, which is needed because between the two renames there is
  none at the documented place. `SettleInv` keeps account of what has been deployed
  and of how much of it the rollback has undone; its parts are what was started (`StartedInv`), what of the old
  is kept (`KeptInv`) or put back (`UndoneInv`), the ports (`PortsInv`) and the ends (`EndedInv`). They give `UpdateTheorem`, about
  `Spec` of SafeUpdate, in which nothing else is done to the installation.
* **Maintenance_proofs, the tools.** `AloneInv`: while a restore runs, neither the script of an update nor its deployment works.
  `CopyInv`: the copy of what is replaced is complete before the first replacement. `OriginInv` says where each part
  of the data comes from at each command of the restore and of its recovery, and `OffInv` that the container is off
  meanwhile. Without them the property, which speaks of the ends of a restore, is not inductive. They give
  `MaintenanceTypeCorrect` and `RestoreTheorem`.
* **Maintenance_proofs, the composition.** What a tool can do to the state of the update is one formula, `Effect`: nothing, or, where no
  update is under way, stop or start the container, or replace data while it is off (`ToolEffect`). `UpdateInv` survives that because a
  container that is off takes no step and nobody asks it (`OffStill`), and because what is started fits: `ImageInv`, the image of `compose.yaml` is that
  of the container unless an update has pinned it and been killed before its deployment, and `FitInv`, a restore that puts back or starts has files that
  fit the fingerprint of that image, also one that fails after its stop and starts the old container again. `CopiesInv`: neither archive nor
  copy has two initial administrators, which is assumed of the archive that is restored (`PlanAssumption`: it is one of this program).
  `DailyInv`: keys are checked where nothing updates. So `SnapshotTheorem`, `OneAdminTheorem`, `TokenStaysTheorem`, `FilesTheorem` and
  `SettleTheorem` are about `AllSpec`, the specification of the run `update` without its fairness.
* **CrowdsecHost_proofs, rule sets.** `CrsInv`: a worker runs only in the state `running`, which has been saved (`RunInv`); what the history
  says of a failed rollback (`DamageInv`); the snapshot is what was there before the change from its last command on
  (`SnapInv`); between changes mark, directory and CrowdSec agree (`RestInv`); and where they are at each
  command of a change and of its rollback (`ChangeInv`, `MarkInv`). From it `SwitchTypeCorrect`,
  `RolledBackTheorem` and `KnownGoodTheorem`, for `Crowdsec` as a whole. The assumption on the scenes is that the mode
  is a Boolean, the bounds are numbers and the first alerts are no younger than the first clock.
* **CrowdsecHost_proofs, the machine token.** `TokenInv`: tokens are numbered in the order they are granted (`SerialInv`); a token that
  was granted and not taken yet is nobody else's (`FreshInv`); the cache never holds a token that a call under way was refused
  with (`RefusedInv`). Without the last one, `TokensAreCurrent` is not inductive: another call may put its own token into the cache between
  the refusal and the second try. `LapiNext` is what any request does to the client, so the proof looks at eleven steps of a call and
  not at the operations around it. It gives `TokensTheorem`; there has to be a key.
* **CrowdsecHost_proofs, the catalogue.** `BatchFacts` is about the operators of AlertHistory alone, for a history of any length: the newest
  element of a finite set exists (`OldestExists`, by well-foundedness), and a batch with the cursor that follows it skips and repeats nothing.
  `CatInv` carries it through the requests. `SoundInv`: what a session has counted lies before its cursor. `ServedInv`: a batch that was served and not
  counted yet is CrowdSec's answer at some moment since the session was opened, whatever alerts have arrived since. `OwnerInv`: a session
  with a pending scan has one owner, which scans it, and who waits, waits for such a session. Without `ServedInv` the count is not inductive, because
  serving a batch and counting it are two steps. Steps that are not about sessions are `Aside`. It gives `CountedOnceTheorem` and
  `WaitsForScanTheorem`; assumed are sizes above zero, and that the mark of no request is none of them.
* **CrowdsecHost_proofs, the changes.** `AuditInv`: while a request changes something its entry is `requested`, and the stage of its call tells
  whether CrowdSec has carried the change out (`Sending`, `CarriedStages`), which a lost answer does not tell the request itself. `PeerInv`: the
  connection the host serves is that of a request without an answer, given up or not, so a switch is not carried out twice. They give `ChangesAuditedTheorem`,
  and with the others `CrowdsecTypeCorrect`.
* **CrowdsecHost_proofs, addresses of Anubis.** `PassedInv`: what lies before the saved position, and before that of a run, has been banned,
  and the fingerprint a run has saved is of what it has passed. `OrderInv`: the file still begins with the copy of the
  run, or was started anew after it was made, and every line in it is younger. `ReplayInv`: a line that is still to be banned was
  banned at most as often as runs were cut. They give `PotTypeCorrect` and `BansKeptTheorem`, for any file and any length
  of it (the two limits are numbers, `LineAssumption`). For the events, `ReadInv`: the
  ledger is about the beginning of the file, or none of its lines is recorded, and the same holds of a text that was read
  and is not recorded yet, whatever the file has become since; with `LedgerInv` (events are never ahead of the ledger)
  it gives `ObservedOnceTheorem`. `HostImplementsCrowdsec`: what the host does leaves Crowdsec
  alone, so the theorems about Crowdsec hold of the composition.
* **Accounts_proofs.** `AccountInv` is the conjunction of `TypeOK` and what the tables, the tokens and the requests in
  flight say of each other. `RouteInv`: which steps a request of each kind can be at, and what it holds there. `SessionInv`:
  a session that was deleted is in no row and no request is about to make it, and a token is dated no later than the
  clock. `ChallengeInv`: the request past its challenge is the one that deleted it. `SecretInv` and `SpentInv`: a secret belongs to
  one enrollment, its counter is at least that of each code accepted for it, and a spent backup code is in no row.
  `MakerInv`: every backup code is of the account as it started or of a request that has got past creating them. `FactorInv`: while no removal runs
  beside a change of factors, requests that rely on a factor find it on, and codes without a factor are those a removal is about to
  delete or has failed to. They are needed because factors and codes are two tables changed by separate awaits.
  `PasswordKept` is a property of steps and follows from the invariant. Assumed of the constants: requests, codes, times and
  lifetimes are numbers, a period of codes has some length, and a scene names a kind for each request.
* **Certificates_proofs.** `ShapeInv`: a request stays on the steps of its kind, and a certificate is made by one request.
  `CertificateInv`: nobody has heard of a certificate still to be made (`NewInv`); files are removed after the row (`GoneInv`);
  what has it meanwhile, got it meanwhile (`MakeInv`); a host of a table already counted got it after the count (`CountInv`); and what a host
  is about to be saved with is live or was deleted since (`ReadyInv`). Without `CountInv` and `ReadyInv`, `InUseIsKept` is not inductive: the four
  counts, the mark and the save of the host are separate awaits of two requests. Most steps change none of that (`Calm`, `Onward`); the others
  (`Insert`, `Count`, `Mark`, `Drop`, `Commit`) have a lemma each. Assumed: a created certificate has an id of its own, each
  host is in one of the four tables.
Only model-checked: liveness, which needs fairness and ENABLED. Of the theorems, `EnableTheorem`, `RulesTheorem`,
`BatchFacts`, `BucketsMeetTheorem`, `HtmlPageTheorem` and those on types state properties that no run lists, and `UntriedTheorem` a
part of one.

## 6. Plan

| Module | Models | Properties | Proofs |
|---|---|---|---|
| AnubisCounters | baselines per series, the journal of attempts, the removal of events | a delta per series is counted once | as SecurityTelemetry |
| BootGuard | protected startup and the boot guard of the installer | public ports stay closed until the protection works | |
| HostsAndLists | NginxHosts and AccessLists composed over the shared host files | a save during an update's recovery | |
| Algorithms | merging access lists, defaults of TLS settings, domain matching | against reference definitions over small inputs | |

## 7. Not modelled

* Rendering templates and their wording; validation of payloads (it bounds the inputs); permissions
  and visibility filters, which are one check before an operation.
* The create operation of access lists, which touches no host; the second branch of a setting's
  update, which the schema's enum keeps from being reached.
* Profile, permissions and avatar of a user: one row behind a check. The exchange with the OpenID
  provider, which a library carries and whose state is in signed cookies.
* Of Anubis reporting: the counters, whose buckets are those of SecurityTelemetry with a weaker flag (section 4),
  the journal of attempts, the removal of events after a week. Home location and remote version: one promise
  shared by the callers, every exit of which clears it.
* Of the switch of the rule set: configurations of the operator's own, which the service refuses.
* The read-only views of CrowdSec, validation and test of certificates, installation of plugins.
* The rest of the installer and of the container scripts: sequences of checks and substitutions run
  once by an administrator or at a start, without state that others change meanwhile.
* The HTTP layer, schema, models, migrations, utilities, the frontend and the images: they keep no state
  that two steps of the modelled operations share.
