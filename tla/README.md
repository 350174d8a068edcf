# SysCert: a verification development

SysCert (`cmd/syscert`) obtains one TLS certificate for a host from an ACME CA,
keeps it in a store directory, copies its files to the programs that use them,
and renews it from a timer, a cron job or its own `--interval` loop. There is no
daemon, no database and no lock: everything it knows is in files, and every
command reads them afresh. What makes it correct is therefore the ORDER in which
files are read, written, renamed and removed, and what is left when a command
stops between two of them. That is what this project models.

It holds TLA+ modules, the TLC configurations that check them on small instances,
and TLAPS proofs of the central invariants for every instance. `PROJECT.json`
lists the runs, the lines each definition stands for, the hazards and the
theorems.

    tlasany SysCert.tla                        parse
    tlc -config MCSolo.cfg MCSysCert.tla       check an instance
    tlapm SysCert_proofs.tla                   check the proofs


## 1. The system

| Component | Source | State it keeps | Operations |
|---|---|---|---|
| commands | `cmd/syscert/{ensure,issue,renew,void,distribute,destroy,common}.go` | none between runs | `ensure` (the default), `issue`, `renew`, `renew --force`, `void`, `distribute`, `destroy` |
| store | `internal/store/store.go` | five artifacts (`cert.pem` first), `archive/<UTC second>/` | `Build`, `Archive` + `pruneArchive`, `Write`, `WipeCerts`, `Wipe`, `ReadCurrentCert` |
| distribute | `internal/distribute/distribute.go` | the target files of consumers | `Run`, `one`, `writeAtomic` |
| atomic file | `internal/atomicfile/atomicfile.go` | temporary files | `Write`: temporary file, chmod, chown, rename |
| renewal | `internal/renewal/renewal.go` | none | `Inspect`, `Due`, the window and its notation |
| ACME client | `internal/acme/{acme,lego,cabundle}.go` | none | `Obtain`, `RevokeCert`, the order and its challenges |
| account | `internal/acme/account.go`, `lego.go` | `accounts/<hash>/account.key`; at the CA the registration and the EAB token | `accountKey`, resolve, register |
| interval loop | `cmd/syscert/interval.go` | the context and a timer | `runIntervalLoop`, `sleepCtx`, `parseInterval` |
| systemd units | `packaging/systemd/` | the timer | daily, with up to 12 h of random delay |
| observe | `cmd/syscert/observe.go`, `internal/observe` | a metrics file, an Ansible facts file | `gatherObservation`, `writeObservations` |
| trust store | `internal/trust/trust.go`, `cmd/syscert/trust.go` | anchor files; the system's bundle | `Install`, `RemoveManaged`, the update command |
| access guard | `cmd/syscert/storeaccess.go` | none | who may touch the store |
| target probes, drop-in | `cmd/syscert/{targetaccess,systemdpaths}.go` | the systemd drop-in | probe, print, `--write` |
| configuration | `internal/{config,validate,resolve}` | none | defaults, capability checks, the subject |
| env file | `internal/envfile` | the environment | `Load` |
| status, dry-run | `cmd/syscert/{status,dryrun}.go` | none kept | reports; a trial order with a throw-away account |
| dispatch, logging | `cmd/syscert/main.go`, `internal/logging` | none | `run` |
| installers, scripts, web | `packaging/*.sh`, `scripts/`, `web/` | | run by hand |

How they interact. A command loads the configuration, checks that it may touch
the store, and runs a pipeline: decide (renewal reads `cert.pem`), obtain (ACME
client, which needs the account), archive, write, distribute, observe. `ensure`
runs all of it, `issue` and `renew` stop after the write, `distribute` is its last
part alone, `void` puts a revocation in front, `destroy` removes what the others
made and offers to remove the trust anchors. Two commands share nothing but the
files: the store, `accounts/`, the targets, the anchors. Consumers open the targets
whenever they like.

What is hard here, and hard to test:

- a set is five renames, a snapshot up to five copies: a failure or a kill between
  two of them leaves files of two issuances side by side;
- every later decision is made from `cert.pem` alone;
- no lock: `distribute`, `void` and a timer run interleave step by step, and what
  `void` and `distribute` read may be gone when they use it;
- two parties, the CA and the disk, must agree on an account although the CA's
  answer may be lost, with a token that works once;
- a run is never retried inside itself, so whatever goes wrong has to be put right
  by the decision of a later run;
- a period, a random delay and a window that is a fraction of the lifetime have to
  leave a run inside the window;
- a signal may come in any step of the loop, and the order does not hear it;
- an output is written only where the configuration, the drop-in, the daemon's copy of
  it and the permissions of a directory agree, and each is changed by somebody else;
- the configuration is edited between two runs, field by field, and what was harmless
  with the old value of another field may not be with the new one;
- one command run as the wrong user makes files that the timer meets weeks later.

What makes each component correct is stated in its module, at the end, and the
hazards with their lines are in `PROJECT.json`.


## 2. The modules

| Module | What it models |
|---|---|
| `Store` | the effects on the store: one artifact written or removed, a snapshot opened, filled, pruned |
| `SysCert` | the commands as processes over one `Store`, with the CA, the targets, the observation files, crashes and failed file operations |
| `SysCertProperties` | what `SysCert` guarantees, fairness, and the statements of the documentation it does not keep |
| `Account` | the account key, its registration and the EAB token |
| `AtomicFile` | `atomicfile.Write` system call by system call, its readers and the remover |
| `AtomicRegister` | the abstract specification: a path is a register |
| `Renewal` | the schedule against the renewal window |
| `Interval` | one process of `syscert [--interval d]`: checks, cycle, sleep, signals |
| `Trust` | anchors, bundle and the commands that change them |
| `Delivery` | outputs, sandbox, drop-in, permissions: where a run may write, what it says of it, what an operator does then |
| `Access` | the owners of the store and of what is in it, the guard, and the kernel behind it |
| `Config` | the configuration as a record: defaults, validation, and what is derived from it; operators only |
| `EnvFile` | `--env-file`: parsing, merging, setting; operators only |
| `Invocation` | commands one after another, from their flags to their outcome, over `Config` and `EnvFile`, with edits in between |
| `MC*` | instances for TLC |
| `SysCert_proofs`, `Account_proofs`, `AtomicFile_proofs`, `Schedule_proofs` (`Renewal` and `Interval`), `Trust_proofs`, `Delivery_proofs`, `Access_proofs`, `Invocation_proofs` (with `Config` and `EnvFile`) | the proofs |

### State and actions against the code

`SysCert`. A file's content is the GENERATION it belongs to: the number of the
issuance its certificate and key came from, 0 for no file. `files` are the live
artifacts, `snaps` the snapshots by the second in their name, `target` the consumers'
files; `issued`, `staged` and `revoked` are the CA's; `due` are the generations whose
window has opened. `proc[p]` is one invocation: its command, the step it is at, and
the values the Go code holds in local variables there: `mat` the material obtained,
`seen` the certificate `void` read before its prompt, `data` the bytes `distribute`
read and has not placed yet, `victims` the names `pruneArchive` listed, `failed` and
`warned` the errors that are collected, not returned. A process goes
`read -> obtain -> archive -> snapshot -> prune -> write -> deliver/place -> idle`; each
action is one file operation or one request and follows the code's early returns.
`Start` chooses a command a slot is used for, `Exit` leaves its status behind.
`Crash` kills a process between any two steps; `WriteFails`, `ArchiveFails`,
`PlaceFails` and `WipeFails` return the error where the code does, with what was done
before left as it is. `RevokeFails` covers a refused revocation and one whose answer is
lost. `ObtainFails` is free: a CA may always refuse.

`Account`. `keyFile` is `account.key` (a key, nothing, or a file that does not
parse); the CA's side is `registered` and `tokenBy`. The steps are `accountKey`'s
(load, create, fill: `os.WriteFile` is not atomic), `newClientAndAccount`'s (resolve,
register, with an answer that may be lost) and `destroy`'s.

`AtomicFile`. Files are inodes with blocks, so a reader keeps what it opened when the
path is renamed over. `CreateTemp`, `WriteBlock`, `CloseTemp`, `Chmod`, `Prepare`, `Rename` are
the calls of `Write`, `CallFails` and `RemoveTemp` its error path with the deferred
`Remove`, `Kill` the process that never gets there.

`Renewal`. Time in ticks: `left` until the stored certificate expires, `wait` until
the next run, `delay` the random delay of that run (or the length of the loop's
cycle). `RunKeeps`, `RunRenews` and `RunFails` are the outcomes of `ensureCycle`, `ByHand` a
renewal between two scheduled runs. A `Plan` is a deployment: schedule, lifetime,
`renew_before`.

`Interval`. `pc` is the place in `cmdEnsure`, `ensureCycle` and `runIntervalLoop`; `Wake` and
`Cancelled` are the two cases of `sleepCtx`'s select, both possible when timer and signal
are ready. `Elapse` is an order taking its time, which does not look at the context. `caBundle`
says which HTTP client `newClientAndAccount` made: lego's, with its time limits, or its own for a
`ca_bundle`, which has none; `Silent` is a CA that does not answer it, and `Hung` the process that waits.

`Trust`. `anchors` are the files of the anchor directory, `trusted` what the update
command last made of them. `Install` truncates and fills in place; `RemoveManaged`
globs, removes and updates, and returns before the update when it found nothing.
`SystemUpdate` is a package or an administrator running the update at any moment.

`Delivery`. `config` are the outputs (`[[distribute]]` blocks and `[observe]` files) in the
file, `dropIn` the directories granted in `10-distribute-paths.conf`, `loaded` what systemd read of
it at the last `daemon-reload`, `exists` and `acl` the directories. `run` is one run: the
configuration it loaded, its `sandbox` (all of the file system when it is interactive), the
outputs that failed, and the directories nobody touched since it started (`still`). `Refusal(d)` is the
errno of creating a file in `d`; `Probe`, which only creates and removes, is
`checkDistributeTargets` with `warnDistributeTargets` or `reportDistributeTargets`. `Deliver` is one output in `distribute.Run` or
`writeObservations`, with every error of `one` and `writeAtomic`: `block` says what a block asks for, an artifact, a mode, an
owner or a group that does not exist (refused before the directory is touched), an owner (`MayNotChown`: given
away by the service only, and explained like a directory that cannot be written, `Answer`), or a label that `chcon` refuses
after the file is in its place (`Placed`, `Fails`). `StartWrite`, `Truncate`, `Fill` are `systemd-paths --write`. `MakeDir`, `SetFacl`,
`GrantAdvised`, `ReloadAdvised` are an operator who does what `targetAccessProblem` and
`explainWriteError` say.

`Access`. `dir` is the owner of the store's directory, `own` those of the account's tree, the
archive, the certificate and the key. `Start` is `checkStoreAccess` and the choice of the first
step; `Granted` says whether the kernel allows the calls of the step a process is at, and
`Denied` is the error that ends the command otherwise. `MakeStore` is the `os.MkdirAll` of `accountKey`,
the first call that makes the directory; `Install` the installer's `install -d`.

`Config`, `EnvFile`, `Invocation`. A configuration is a record; `Problems` is `validate.Config`, one
operator per part; `DirectoryURL`, `EffectiveChallenge`, `Identifiers`, `Subject`, `TargetMode` and `BundleHoldsKey`
are what the commands derive. `Invocation` goes `env -> config -> check -> decide -> obtain -> persist
-> deliver`, each step with its early returns, `asleep` between two cycles of `--interval`. `given` is
the environment the command was started in, `env` what it works with, `file` the configuration
files on disk, `cfg` the one it loaded. `placed` are the files at the targets: what they hold, whether all can
read them, and whether the command that put them there had checked its configuration. `order` and `outcome` are what the
last step ordered, and how the command or cycle it ended came to its end; the next step clears them. `Refusal` is what
`lego.Obtain` refuses by itself, in its order; `Persist` fails for an unknown `[store].group` before it writes anything, although the CA
has issued, and for any other reason with a part written; `TargetError` is what `one` refuses for what
its block says. `renew` may be `renew --force`, which asks neither the window nor `due`; `void` confirms, revokes and goes
on to obtain. `IssueElsewhere` is an `issue` that ends while this command is under way or its loop asleep,
with the configuration as it is on disk by then.

### How they fit together

`SysCert` is built from `Store`'s effects. The other modules look at one of its steps
closely, or at its surroundings:

- a write of one artifact, snapshot file, target or observation file is one step in `Store`
  and `SysCert` because `AtomicFile` implements `AtomicRegister` (`PathIsRegister`); the account
  key and the anchors are not written that way, and `Account` and `Trust` truncate and fill;
- `Obtain` and `Revoke` are one step of `SysCert`; `Account` opens them up to the point
  where the client is ready, and treats the rest of the command as one step;
- `BecomesDue` is free in `SysCert`; `Renewal` gives it its clock;
- the timer in `SysCert` is fairness of `Start`; `Interval` and `Renewal` are the two
  schedulers behind it;
- a target that cannot be written is `PlaceFails` in `SysCert`; `Delivery` says when that is, and
  who ends it;
- a command in `SysCert` has passed the guard and the checks; `Access` and `Invocation` are about
  what those let through, and about what follows from it in the later steps.

### Abstractions

- Generations instead of PEM bytes. `Build` gives every artifact of a set the material
  of one issuance, and no decision reads anything of a file but whose it is and whether
  it is due. A file that does not parse therefore does not occur in `SysCert`;
  `Interval.Decide` has the error return it causes.
- `os.RemoveAll` of a snapshot is one step. Nothing reads a snapshot that is being
  removed, but `pruneArchive` could meet a half-removed one again; it would remove the rest.
- Random temporary names do not collide (`os.CreateTemp` opens with `O_EXCL`).
- A kill is of the process, not of the machine: the code never calls `fsync`, so what a
  power loss leaves is up to the file system, and not modelled.
- The wall clock does not go back. `ClockSteps` contains 0, so two snapshots may share
  a second.
- In `SysCert` the configuration is valid and stays the same; `Invocation` edits it between
  runs, and there the pipeline is one command, and whole `issue`s beside it, with the store reduced to
  whether there is a certificate and whether its `bundle.pem` holds the key.
- In `Invocation` a step may also fail for a reason the configuration does not decide (the CA, the account's
  files, the disk, a directory, a label, the owner of the store); why is the subject of the other modules.
- `Delivery` has one run and one `systemd-paths` at a time and no content but a generation. The store is always
  readable there, and what a block asks for does not change.
- `Access` has the default modes (0700, 0600, 0644): `[store].group` and a wider `dir_mode` are left
  out, and so is a step that fails for any reason but permissions.
- `Config` has at most one `[[distribute]]` block for each artifact, and compares a field with the few values
  that make a difference: `"nobody here"` is a user or group that does not exist, `"rwx"` a mode that is no
  octal number, `"a month"` a window that does not parse, `"junk"` a file that is there but is not PEM.
  `IsPublicCA` goes by the name of the CA, as in the code, whatever its directory.


## 3. What is checked

The passing runs, each with the question it answers.

| Run | Instance | Shows |
|---|---|---|
| `solo` | one slot, every command, `archive_keep` 1, 3 issuances, 2 faults, snapshots that may share a second | the store is untorn if nothing failed (`NoFaultNoTear`); while a set is being replaced the fresh snapshot still has all of the old one (`WriteHasBackup`); exit 0 of `ensure` means every target is current (`EnsureOkDelivered`), of `void` that nothing revoked is in use (`VoidOkLeavesNoRevoked`) |
| `shared` | a writer and a concurrent `distribute` | `cert.pem` is never older than another file (`CertNewest`), no target is ahead of the store (`TargetsBehindStore`); a target that a late rename put back to an older file is served again (`TargetsCatchUp`) |
| `live` | `ensure` again and again, `archive_keep` 2, 3 faults | a complete set survives somewhere while fewer faults than `archive_keep` occurred (`GoodCopySurvives`); a due certificate is replaced (`DueIsReplaced`), targets that fell behind catch up (`TargetsCatchUp`), a torn store whose certificate is due becomes whole unless something fails again (`TornIsRepaired`) |
| `account` | every use of the account, one token and one more, 3 faults | the key of the stored certificate's account stays on disk (`RevocationPossible`), no account is lost (`AccountsAreKept`), a token is presented twice only for a reason (`ReplayHasACause`), a host gets its certificate in the end (`EventuallyServed`) |
| `atomic_file` | two writers, a reader, a remover, a kill | a reader reads one finished file (`NeverPartial`), only a kill leaves a temporary file (`OnlyKillsLeaveTemps`), the refinement `IsRegister` |
| `renewal` | six days and the timer, ninety days and the timer, six days and `--interval 12h` | no certificate expires while no more runs fail than there is room for (`NeverExpired`) |
| `interval` | one process, with or without a `ca_bundle`, orders of 0 to 2 ticks, a runtime that kills after 1 or 3 | a loop whose orders have a limit shorter than the grace ends with its cycle finished (`WholeCycles`), at most one cycle begins after a signal (`AtMostOneLate`); unless an order hangs for ever, a signal ends it (`SignalStops`) and without one it goes on (`KeepsGoing`) |
| `trust` | three CAs, two of one file name, a foreign anchor, 2 faults | exit 0 of an install means the CA is trusted (`InstallOkTrusts`), foreign anchors are never touched (`ForeignKept`) |
| `delivery` | the timer's runs, trial runs and `systemd-paths --write`; a target that asks for an owner and one whose block does not resolve or whose label is refused, both in another package's directory, an `[observe]` file in a top-level one; one edit, one fault, one renewal | when a run is over, an output it does not report as failed is current, and it reports none whose block is sound and whose directory was left alone and can be written, whatever failed elsewhere (`HealthyServed`); the sandbox is never opened to a broad directory (`NarrowSandbox`); a warning does not keep a certificate from being renewed (`RenewedAnyway`); the messages lead an operator to a state in which every output is current, but for blocks that name what does not exist (`Served`) |
| `access` | the timer as the service's user, a slot for commands typed as root, that user or another; two kills or removals | all in the store belongs to its owner (`OneOwner`); a command that was let in is never stopped by permissions later (`NotStranded`); the timer ends with its certificate whatever others try (`OwnerServed`) |
| `startup` | six commands, five environments, every pair of env files of up to two lines, two configurations and every pair of edits of their fields; other commands issuing in between | what is loaded, worked with, ordered and placed has its type (`TypeOK`); an exported name wins, the last of the files wins (`EnvPrecedence`); in no cycle is a checked command refused for want of a directory, for its key type, its challenge or an artifact (`CheckedChoicesHold`); what an order holds of `ip_sans` is addresses, none with a DNS challenge and of a public CA only routable ones (`OrderLegal`); no checked command leaves a readable private key, whatever was edited since the certificate was issued, and whoever issued it (`KeyHidden`) |

Each module that acts has a type invariant, and all of them are proved for every instance, as are the
inductive invariants behind the other properties. Those of `Trust` and `Invocation`, which say something a plausible bug
breaks, are also checked in their runs; the others are not repeated there.

Every property of a run has a mutant: a plausible bug in one definition of the model (they stand beside the
definition they change, marked "Mutant") that makes TLC find it violated.

`startup` is the largest, with 1.6 million distinct states and one to two minutes; `delivery` has 262,000. "Routable"
is what `isPubliclyRoutable` takes for it: it knows private, loopback, link-local and unspecified addresses, and lets multicast and
100.64.0.0/10 pass.

### The bounds, and why they are enough

- `NArtifacts = 2` for five artifacts: `cert.pem` and one other. The loops treat every
  artifact after the first alike, and every property compares `cert.pem` with another file
  or asks for all; the proofs are for every number.
- `NTargets = 2`, the key before the certificate: a pair that has to match, and one
  target after one that failed.
- `MaxIssued` 3 (7 in `live`): an old set, a new one, and one issued while the first two
  are mixed. `live` has more so that the CA's bound is not what stops it: three renewals,
  and an order lost to each fault.
- `MaxFaults` 1 to 3: one more than `archive_keep` where the property counts them.
- `MaxDue` 1 to 3: a window that opens before, during and after a fault. `TornIsRepaired` speaks of a store whose
  certificate is due, because one that is torn and fresh is left as it is (section 5).
- `MaxKeys` 5, `MaxTokens` 2: one more than the runs that can lose a key before it is written.
- `Blocks = 2` so that a file can be half written; four inodes: a named one, one open in
  the reader, two being built.
- `delivery`: two directories are a good one and a broad one, the two kinds of output are what `Turn` treats
  differently, and the good directory has a sound target beside one that fails for its own block. One edit adds or removes any output, before, during or after any step;
  one fault is a kill, a CA that fails, or a directory removed or reset. The interactive
  `ensure` and `distribute` are left to the proofs, which are for every command.
- `access`: two processes, because the guard compares one user with one owner and a third adds
  nothing to the two that interleave; two faults, so that a store can be emptied or a first run killed twice.
  `Careful` and `InstallsOver` say how the store is set up: the first run is alone and by a user who may
  create the store, and the installer is not run over the store of another user. What happens without
  them is in section 5.
- `startup`: two edits, because the rules that matter relate two fields (CA and addresses, addresses and
  challenge, order and mode); two files of two lines, because precedence is decided between two
  occurrences of a name; env files, and the environments, only before the first edit, since the two do not meet in any rule; env files with two of the commands,
  since all of them load them by the same function.
  Edits happen while no command is between its start and its end (`Idle`): a command reads the file in one step.
- Renewal: ticks of an hour or half a day, so that six days, the half-day delay and the
  one-hour backdating of NotBefore are exact; `failures` is as many as the margin
  allows (none, 28, 2).

### Fairness

`Fairness` in `SysCertProperties` is weak fairness of `Start`, because the timer
(`OnCalendar=daily`, `Persistent=true`) or the loop starts `ensure` again whatever the last
one returned; weak fairness of a process's steps, because every blocking call in them has
a time limit or is a local file operation; that holds of lego's own HTTP client, and not with a `ca_bundle`, for which
`lego.go:109` makes one without any (section 5), so what `SysCert`, `Account`, `Access` and `Delivery` say of liveness is said of
deployments without one, or whose CA does not fall silent in the middle of an answer; strong fairness of `Obtain`, because a CA that
is asked again and again answers at some time: without that nothing can be promised. Faults
are bounded, so they stop; weak fairness of `BecomesDue` is the passage of time. `Account` has the
first two, `Access` the first two for the timer's process and
weak fairness of every process's steps. `Interval` has weak fairness of the local steps, of the timer, and of an order only
without a `ca_bundle` (`WF(~caBundle /\ Order)`); with one an order may take for ever, and `SignalStops` and `KeepsGoing`
name that case, `<>[]Hung`, as their only exception. `Delivery` has weak fairness of the steps of a run and of
`systemd-paths`, and strong fairness of the timer's start, because interactive runs may keep coming in between and the
unit is started after each. For `Served` an operator is assumed who, told again and again, does what the last message says
(strong fairness of `MakeDir`, `SetFacl`, `GrantAdvised`, `ReloadAdvised`); `MCDeliveryMissing.cfg` is without. Elsewhere no fairness is assumed of a signal, an
operator or a fault.

`SoleWriter` is an assumption, not something the code enforces: one slot provisions or
destroys, any number of others only distribute. It is what the documentation sets up: one
timer unit, and `concurrencyPolicy: Forbid` in `docs/containerisation/scheduled.md`.


## 4. What is proved

Every invariant and every action property that a passing run checks is also a theorem: it holds for
every value of the constants within the named assumptions (`StoreAssumption`, `SysCertAssumption`,
...), that is for any number of artifacts, targets, processes, snapshots, writers, readers, blocks, CAs,
tokens, configurations, env files and faults. Where a theorem assumes more than its module does, it is said
here. What a theorem is proved from is an inductive invariant, which the module of the component states beside the
properties.

**The pipeline** (`SysCert_proofs`).

- `TypeCorrect`, without further assumptions.
- `StoreStaysInOrder`, `CertStaysNewest`, `TargetsStayBehind`, `UntornWithoutFault`, assuming `SoleWriter`. `CertNewest` alone is
  not inductive: that the next rename keeps `cert.pem` newest follows only if what is being written is newer than
  everything in the store and the files already replaced are of the same issuance. `InOrder(w)` adds
  exactly that for the writer `w` (`Local`), that nothing is of an issuance that has not
  happened (`NothingFromTheFuture`), and for a distributor that the bytes in its hands are no newer than the
  store file they came from, which is what makes `TargetsBehindStore` survive a `distribute` that
  overlaps a write. `Settled(w)` carries `NoFaultNoTear`. There is one lemma per group of actions.
- `WritesAreBacked`, assuming `SoleWriter`. `Backed(w)` follows a snapshot from the directory to the last rename: which
  files are copied at which step, that its name is the newest and no victim of the pruning, and that so many
  victims are left as exceed `archive_keep`. That pruning by name never takes the fresh one is
  counted with cardinalities of finite sets. Two runs may share a second.
- `GoodCopyIsKept`, assuming `SoleWriter` and `0 \notin ClockSteps`. `Survives` counts: a whole snapshot has no more
  later ones than faults occurred, because only a failed attempt leaves one that is not whole, so pruning to `archive_keep` reaches it
  only when as many faults did. The assumption on the clock is needed: a second attempt in
  the same second copies the torn files over the snapshot that was the last whole set. `tlc` finds that run
  when `MCLive.cfg` is given `ClockSteps = {0, 1}`; the timer and the loop, which does not
  accept an interval below a minute, never run twice in a second, an operator's script may.
- `EnsureDelivers`, `VoidReplaces`, assuming `OneSlot` (one command at a time). An exit status speaks of the past of its
  run; `Told(p)` says at each step what the status would promise: the targets passed without an error are
  current (`Answered`), and what a `void` obtained and the files it has replaced are not revoked (`Unrevoked`). A
  second command could change the store between the last target and the exit, so this is
  not a matter of the proof.

**The account** (`Account_proofs`): `TypeCorrect`; assuming `OneSlot`, `CertStaysRevocable`, `NoAccountLost` and
`ReplaysAreCaused`. The three are conjuncts of the inductive `KeysInOrder`, which adds what the command in
progress knows (`OwnKey`: it creates where there is no key, fills what it tore, registers what is on disk) and
that a token belongs to an account the CA has. `MCAccountRace.cfg` shows what two commands do.

**Files** (`AtomicFile_proofs`): `FilesBuiltApart`, `ReadersSeeWhole`, `FailuresCleanUp` from the inductive invariant
`Built`: a file under construction belongs to one writer and is known to nobody else, and a file with a name or a reader is
finished. From it the refinement `PathIsRegister`: every step of `AtomicFile` is a step of
`AtomicRegister` or leaves it alone.

**Time** (`Schedule_proofs`).

- `RunsInTime`, `StaysValid`, assuming `Margin` of every plan: the room the window leaves. The inductive invariant `InTime`
  follows what is left at the NEXT run: a failed run costs a period, a renewal by hand moves nothing, and
  the timer's delays do not add up because each is counted from midnight. For the loop they do, and
  `Cost` says so. With the default window of a third and the daily timer `Margin` allows no failed run at six
  days and 28 at ninety days with `renew_before = "30d"`.
- `LoopTypeCorrect`, `OneLateCycle`, `CyclesAreWhole`, with and without a `ca_bundle`. `Heard` says that only a loop hears the signal and that a late
  cycle does not sleep again; `GraceLasts` that a signal finds the grace whole and an order uses up no more of it than
  it takes, if the client has a time limit and no order takes as long as the grace. `WholeCycles` has both conditions in its statement.

**Trust anchors** (`Trust_proofs`): `TypeCorrect`, `InstallTrusts`, `ForeignAnchorsKept`. `InstallInOrder` says what a command
in progress has on disk, and that a command takes back what the last one said before it changes anything; it is needed because
an update by anybody may come between the truncation of an anchor and its content.

**Outputs** (`Delivery_proofs`): `TypeCorrect`, `GrantsStayNarrow`, `HealthyAreServed`, for any outputs, blocks,
directories and faults. The inductive invariant relates a run to the directories nobody touched since it started
(`still`): every output whose turn was has been served or has failed, and in one of those only for what the directory still
answers or for what its own block asks (`DoneRight`); `Progress` says what is left to do at each step. A
fault takes its directory out of `still`, which is why the properties survive it.

**Owners** (`Access_proofs`): `TypeCorrect`, `StoreHasOneOwner`, `NeverStranded`, assuming `SetUp` (`Careful`, and an
installer that does not take over another user's store). `OneOwner` is not inductive: a process that
passed the guard goes on creating files without looking again. `Fits` says that its user is the owner as
long as there is a store, and `FirstIsAlone` that while there is none nobody else is past the guard.

**Configuration** (`Invocation_proofs`).

- `CheckedChoicesAreHeld`, `OrdersAreLegal`, `KeyStaysHidden`, for any configurations, edits, environments and env files. The
  first is about the four choices the rules of validation look at and no others: what they do not look at is refused late (`FailFast`,
  section 5). The second is about `ip_sans`, and not about an address written as a host name (`OrderLegalByShape`).
  Four lemmas say what an empty `Problems` implies for each derived value (`VettedChoices`,
  `VettedAddresses`, `VettedTargets`); the inductive invariant carries `Vetted(cfg)` from the check to every later
  cycle of a command that checks.
- `TypeCorrect`: a `Configuration` is loaded exactly from the loading to the end of a command, what it works with is an environment, an
  order names a directory, a CA and a challenge that exist, and each target is as its last delivery left it. It needs the lemmas on the env files,
  because a name that is set gets a string, and what `Vetted` gives, because an order has a valid challenge.
- `ExportedNameWins`: for any environment, any number of env files and any number of lines. `merge` and the setting
  of the names are recursive functions; what they compute is proved by the least number at which
  it would go wrong (`LeastNumber`, `UpTo`), one round of the loop at a time (`Rounds`): a line
  (`PutReplaces`), a file (`FileIsMerged`), the files (`FilesAreMerged`), the environment (`ListIsApplied`).

`DefaultsAreStrings` says of the literals of `applyDefaults` that they are strings, which is what they are and the provers
do not know.

Only model-checked: liveness under fairness (`DueIsReplaced`, `TargetsCatchUp`, `TornIsRepaired`,
`EventuallyServed`, `SignalStops`, `KeepsGoing`, `RenewedAnyway`, `Served`, `OwnerServed`), which TLAPS does not reach, nor
`ENABLED`, on which fairness rests. The statements of section 5 are about what the code does not keep, and are refuted, not proved.


## 5. Where code and documentation part

The run `retry` is expected to fail: a write fails after `cert.pem` was renamed; the next `ensure` finds
the new certificate fresh, delivers it with the old key and exits 0, and "will retry on the next
interval" does not happen until the window opens. The finding in `PROJECT.json` quotes the lines.

Others, with the configuration that shows each; the property fails, and the counterexample is what the code
does:

| Command | Property | What happens |
|---|---|---|
| `tlc -config MCStaging.cfg MCSysCert.tla` | `ProductionAfterStaging` | after `ensure --staging`, `ensure` finds the staging certificate fresh and delivers it (`ensure.go:99`, `docs/quick-start.md:85`) |
| `tlc -config MCVoidRace.cfg MCSysCert.tla` | `VoidRevokesCurrent` | the timer renews while `void` is at its prompt; `void` revokes the certificate it read before (`void.go:58`), and the current one is replaced unrevoked |
| `tlc -config MCVoidTwice.cfg MCSysCert.tla` | `WarningMeansNotRevoked` | the revocation's answer is lost, or an earlier `void` revoked and could not reissue: the warning says "NOT revoked" (`void.go:59`, `docs/procedures/revoke-and-replace.md:70`) of a certificate that is |
| `tlc -config MCObserve.cfg MCSysCert.tla` | `ObservedAfterEveryRun` | an `ensure` that cannot obtain returns before it writes the observation files (`ensure.go:114`), which "are rewritten after every run" (`docs/configuration.md:175`) |
| `tlc -config MCAccountRace.cfg MCAccount.tla` | `TokenNeverReplayed` | two first runs at once each generate and register a key (`account.go:28`); "never replayed" (`lego.go:123`) |
| `tlc -config MCAtomicFileOrphan.cfg MCAtomicFile.tla` | `DestroyEmpties` | the temporary file of a killed write, which may hold the private key, survives `destroy` (`store.go:244`, `docs/procedures/recover.md:122`) |
| `tlc -config MCRenewalDaily.cfg MCRenewal.tla` | `RenewedAboutDaily` | with an empty `renew_before` a six-day certificate is renewed after four days (`renewal.go:35`), not "~daily" (`docs/configuration.md:167`, `docs/faq.md:56`) |
| `tlc -config MCIntervalSilent.cfg Interval.tla` | `SurvivesSilence` | with a `ca_bundle` the HTTP client has no time limit (`lego.go:109`) and the order no context (`common.go:180`): a CA that falls silent stops the loop for good, and a signal does not end it, although "a sidecar must survive transient ACME/DNS/network blips" (`interval.go:60`). A one-shot run of the timer waits as long |
| `tlc -config MCTrustRetry.cfg MCTrust.tla` | `RemoveOkUntrusts` | a remove fails in its update; run again it finds no anchor, skips the update and exits 0 with the CA still trusted (`trust.go:64`) |
| `tlc -config MCDeliveryMissing.cfg MCDelivery.tla` | `RenewedUnattended` | a granted directory is removed: systemd does not start the unit (`ReadWritePaths` without `-`, `systemdpaths.go:131`), so nothing is renewed until somebody acts, although one directory must not "let the certificate expire and break every consumer" (`targetaccess.go:112`) |
| `tlc -config MCAccessAdvice.cfg MCAccess.tla` | `AdviceAccepted` | a user who does not own the store is told to run "as that user or root" (`storeaccess.go:33`); root over a store of the service's user is refused (`storeaccess.go:26`) |
| `tlc -config MCAccessTakeover.cfg MCAccess.tla` | `OneOwner` | the installer run over a store that root made gives the directory to the service's user, and not what is in it (`install.sh:55`) |
| `tlc -config MCAccessRace.cfg MCAccess.tla` | `OneOwner` | two first runs of two users both find no store (`storeaccess.go:46`): one makes it, the other writes into it |
| `tlc -config MCInvocationLate.cfg MCInvocation.tla` | `FailFast` | an accepted configuration is refused at the renewal: `renew_before` is not parsed (`renewal.go:37`), `ca_bundle` only stat'ed (`validate.go:53`), a target's mode that is no number "caught elsewhere" (`validate.go:163`), which is at its delivery; the DNS provider (`lego.go:211`), `[store].group` (`store.go:140`) and a target's owner and group (`distribute.go:91`) are not looked at at all. An unknown group is refused after the CA has issued: every cycle spends an issuance and keeps nothing |
| `tlc -config MCInvocationShape.cfg MCInvocation.tla` | `OrderLegalByShape` | an address written as `hostname` or in `sans` is ordered as an address (`acme.go:75`), by the DNS challenge that is switched away for `ip_sans` only (`config.go:146`) |
| `tlc -config MCInvocationUnchecked.cfg MCInvocation.tla` | `KeyHiddenFromAll` | `distribute` loads the configuration without checking it: it places a key with the world-readable mode that "is rejected" (`docs/configuration.md:144`) |

Observed while reading, and no property: an explicit `directory_url` wins over `--staging`
(`acme.go:60`); `SYSCERT_CONFIG` and `SYSCERT_INTERVAL` in an `--env-file` are set too late to count
(`common.go:59`); a first run by a user who may not create the store passes the guard and fails with the raw error of
`mkdir` (`storeaccess.go:47`); the probe of a directory creates a file and removes it, a delivery also gives it away and
relabels it (`distribute.go:103`), so that they can disagree although `targetaccess.go:57` has it that they cannot, and a `chown` that is refused is
answered with the `setfacl` that does not help (`distribute.go:145`); a retry after a torn write archives the torn files like any
set (`store.go:182`), and one in the same second does so into the snapshot of the first (`store.go:185`, `GoodCopyIsKept`
above); an order may outlast the runtime's grace, because the signal does
not reach it (`common.go:180`), and a timer that is ready with the signal starts one more cycle
(`interval.go:44`); a changed host name is not reissued until the window opens (`docs/roadmap.md:29`).


## 6. What is not modelled, and the plan

Not modelled: the text of metrics, facts, logs and of `status`, which only reads; DNS and HTTP challenges and the
CA pool inside an order (the CA's answer is free); TOML syntax; installers, but for the store they make, and release
scripts; the Ansible role; the web site; loss of power, since the code never syncs and the file system
decides what is left.

Written so far, in this order: `Store`, `SysCert` and its properties and proofs; `Account`;
`AtomicFile` with its refinement and proofs; `Renewal`; `Interval`; `Trust`; `Delivery`, `Access`,
`Config` with `EnvFile` and `Invocation`; then the proofs of every safety property of the runs.

Next, most important first:

1. An abstract specification of what a consumer sees of a whole run of `SysCert` (a target goes from one
   issuance to a later one, and only to one the store had), and the proof that `SysCert` with a sole writer implements it.
2. A composition of `SysCert` with `Account`, in which `void` after a change of CA addresses the
   configured CA and not the one that issued.
3. `Bundle`: `Build`, `splitLeafChain` and `assembleBundle` over lists of components, and the `30d` notation
   with its 64-bit width.
4. The modes of `Access`: `[store].group` and `dir_mode`, and a store that was made with others.
