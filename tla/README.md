# mk-nas in TLA+

mk-nas is a NAS appliance on Ubuntu and ZFS. A root agent (`mk-nasd`) answers
verbs on a Unix socket; timers start short processes beside it. This directory
models the parts of `agent/src` in which several processes share state, a crash
can fall between two writes, or something must happen in the end.

## The system

| process | started by | what it does |
| --- | --- | --- |
| `index.ts`, the agent | systemd, always running | every verb; evaluates alerts every five minutes; polls ZFS events every five seconds; reverts an expired network change at start |
| `tick.ts` | timer, every 15 minutes | network revert, snapshots, scan jobs, scrubs, settings backup, update check, self-tests |
| `replicate.ts --due` | timer, every 15 minutes | every replication that is due |
| `replicate.ts <id>` | the agent, for `replication.run` | one replication |
| `update.ts`, `restore-finish.ts` | the agent | installs a release, finishes a restore |

systemd never runs two of one timer's unit at once. Within the agent, verbs
interleave at every `await` and nowhere else. All processes share one SQLite file
with no transaction over several statements, the netplan file and its note, the
Samba and NFS files, and the pools themselves.

### Inventory

| component | state | operations | what is hard | what makes it correct |
| --- | --- | --- | --- | --- |
| network change | netplan file, note of the pending change, what netplan runs | `network`, `network.set`, `network.confirm`, revert | two processes, crash between note and file, netplan failing halfway | an unkept change always has a revert standing, and the revert happens |
| replication | snapshots on both sides, receive token | one run: snapshot, plan, send, prune | broken sends, resumed ones, crash between two destroys, other people's snapshots | the target can always go on, is never rolled back, only own snapshots go |
| replication jobs | rows of jobs, runner processes | timer pass, `replication.set`, `replication.run`, `replication.remove`, sweep of dead rows | check and insert are two statements; pids outlive rows | a row is a runner at work; what is due is run |
| scans | scan line, scan rows | `pool.scrub`, `disk.replace`, `jobs`, tick | readings a moment old, rows shared by two scans | a row says how a scan went; a due scrub happens |
| alerts | rows of alerts | evaluation, `alert.ack` | overlapping evaluations, two thresholds | date and acknowledgement last as long as the condition |
| automatic snapshots | snapshots by period | tick | a failed take, `written` hidden by other snapshots | counts kept, the newest never lost |
| event log | tail of kernel events, last id | poll | polls that overlap, ids that start over | no event lost or told twice |
| shares | rows, users, smb.conf, exports, daemons | `share.set`, `share.remove`, users, reapply, a restore's apply | five writes behind one change, a second process, rows nobody checked | no file goes back, what is answered is served, nothing unsafe is served |
| datasets | ZFS datasets against rows about them | create, set, destroy, rollback | check before an await, use after it | no row without its dataset |
| updates | check row, run row, download directory, package, drive image | check, install | dead runner, foreign download, a release that moves | only what is signed, done is done, up to date in the end |
| settings backup | directories `.new`, current, `.old`, staged files, `.env` | backup, restore, finisher, tunnel | death between two renames, half a restore | a whole backup is there, a restore is one backup, services return |
| disks | labels, partition tables, pools, udev's view | wipe, create, replace, import | a look that is old when used, a wipe cut short | no pool member touched, no label hidden |
| self-tests | the tests disks run and log | tick, `smart.test` | one a tick, standby, tests cut short | every disk tested again and again |
| server, power | sockets | framing, audit, reboot | one request at a time each | by unit tests |
| vitals, command line, configuration, installer | none that is decided upon | parsing, presentation | none of the kinds above | by unit tests |

## Modules

### `Network`

`network.ts` and its callers. `file` is the netplan file, `note` the pending note
(`none`, `armed`, `expired`, `torn`), `previous` the content in it, `live` what
netplan runs, and `kept` (history) the content in force: what was there before the
pending change, or what a person kept. Each caller is a program counter over the
steps between two awaits: `StartRevert`, `CheckExpired`, `ReadNote`, `PutBack`,
`Regenerate`, `Reapply`, `Forget` are `revertIfExpired` and `revert`; `StartSet`,
`CheckPending`, `ReadPrevious`, `WriteNote`, `WriteFile`, `Generate`, `Apply`,
`Undo` are `setNetwork`; `Confirm` is `confirmNetwork`. `Crash` ends a process at
any step and tears a write; `Reboot` ends all of them and netplan reads the file.

### `Replication`

`replicate()` of `replication.ts`. Snapshots are the instants they were taken at;
`local`, `remote` are the two sides, `own` those this replication took, `token` the
snapshot a broken receive can resume. `plan()` is the operator `Plan`, `ownSnapshots`
is `Mine`, the slice that is destroyed is `Excess`. ZFS send and receive are modelled
from how they are used: a stream arrives whole, is refused, or breaks after part of
its snapshots and leaves a token. A token that cannot be read is taken for none. Other
people's snapshots come and go at any time. `faults` counts the failures since a run last
brought its new snapshot to the target, and `Lately` says that they are at most half of
`keep`: what the two properties about the target are said of.

### `ReplicationJobs`

Who runs what: the rows in state running (`rows`), the timer's runner and the ones
`replication.run` spawned, each statement on the database a step. A run is one step
here; `Replication` is what happens in it.

### `ScanJobs`

`scans.ts`, `scrubDue`, the tick's scrubs and the verbs that start scans. `scans`
is everything the pool has scanned and how it went; its last member is the scan
line that `parseScan` reads. `jobs` are the rows. A thread of the agent may be at a
`reconcileScans`, a `pool.scrub` or a `disk.replace`; the tick goes through a
reconcile, a second reading and a scrub. Between the SELECT and the INSERT of
`noteScan` only the other process can come in (`Turn`). The event poll is a thread
that may reconcile at any time, which covers a poll that misses an event.

### `Alerts`

`conditions`, `reconcile`, `evaluate` and the alerts table. A gauge is a reading
with two thresholds and has three levels. Pools and disks are read first and used
later; backups, replications and scan rows are read in the same uninterrupted
stretch in which the rows are written. `lasting` (history) holds the keys whose
condition has been true without a gap since the alert was raised, but for those that
another evaluation is about to judge by readings from before the condition was there
(`Overtaken`): it clears them, and nothing in `index.ts` keeps it from that.

### `Snapshots`

`plan` of `policy.ts` and the half of `tick.ts` that carries it out. `snaps` are the
dataset's snapshots, oldest first, each with whether anything was written since the
one before it, so that `written` (`dirty`) follows when the newest is destroyed or
rolled back to. `Due`, `Excess`, `MakesRoom`, `PlanTakes` and `PlanDestroys` are the
parts of `plan`, whose results are sets of places; `StartTick`, `ListSnapshots`,
`ReadWritten`, `Take`, `Prune` and
`EndTick` are the tick, one zfs command a step, each with its failure. A snapshot is
named by its place, and the names in the tick's hand move along. The clock is reduced
to what `plan` asks of it: whether the newest of a period is old enough.

### `Published` and `Shares`

`Published` is what the share files promise: a counter of changes, and two files that
each show the table as it was after some change, never going back. `Shares` is
`shares.ts` with the tables of shares and users, `dataset.create`, `dataset.destroy`
and `policy.set`, and it implements `Published` (`NeverOlder`, by
`INSTANCE ... WITH`). A verb changes the table (`ChangeAndApply`) and joins `queue`,
the promise chain `applying`; the apply at its head goes through `ListRows`,
`ReadMounts`, `WriteSmbConf`, `WriteExports`, `TellSmbd`, `TellNfs`, one await a step.
`Reapply` is the agent's start; `RestoreSwaps` puts a foreign table in place and the
finisher applies it while the agent is down. A destroy is a look, `zfs destroy` and the
removal of the policy row (`DatasetDestroyLook`, `DatasetDestroy`, `DropPolicy`), with a
crash, another verb or a command that is killed (`DatasetDestroyFails`) between any two.
`zfs` says of a dataset whether it has a mountpoint, which is what `listShares` looks at,
and `adrift` (history) names the datasets whose rows the code lets stay behind: a share.set
or policy.set met their destroy, it was cut short, or a restored table brought them. `Listed`, `SmbConf`, `ExportsFile` are
what gets into the files. `files` and `served` carry, beside their content, the change
they show. `Crash` ends the agent at any step; a command fails in any apply.

### `Backup`

`backup.ts`, `restore-finish.ts` and the `.env` that `tunnel.ts` writes too. A file is
known by the run that wrote it, so that a mixed directory or a mixed restore shows.
`Begin` to `Prune` are `runBackup`, one file operation a step, for the tick, the verb
and the update runner; `RestoreBegin`, `RestoreOpen`, `RestoreStage`, `RestoreEnv` are
`restoreBackup`; `Stop`, `Swap`, `StartAgain` the finisher, whose failure (`FinishFails`)
leads to its catch: `Catch` starts the services again, `CatchFails` is an audit line that
cannot be written or a start that fails, after which they are `lost`. The row
`config_backup` is in the database that a restore swaps and is then any of its values.
`strays` (history) is what an earlier restore that failed had left staged.

### `Updates`

`updates.ts`, `update.ts`, `load-image.sh`, `stack-up.sh` and their rows. GitHub's
latest release moves and is signed late (`HubMoves`); the tick and the verb ask and
write down the answer later; `UpdateInstall` checks and spawns; the runner's steps are
those of `installSteps`. What is downloaded is one release's genuine files or `Alien`.
The package, the agent that runs, the images in docker, the ID `load-image.sh` wrote
and the waiting file are `box`. `Alive` is the probe of a pid; with `PidReuse` another
process may answer to it after a reboot (`taken`).

### `EventLog`

`events.ts`: the kernel's list with ids that start over, `poll` from its busy check
to its callbacks, and `Recent`, the list the verb shows, as a fold over the tail.
`ScanJobs` has the effect of `onScanEnd` and `Alerts` that of `onEvents`.

### `Disks`

`disk.wipe`, `pool.create`, `disk.replace`, `pool.import`. A disk has two places, the
device and its partition (visible while a table lies on the device). `content` is what
is there, `seen` what lsblk says, which `Udev` brings up to date some time later.
`useOf` and `freeDisk` are the checks; the commands of a verb are steps of their own.
What wipefs and zpool refuse by themselves (`Held`, `Takes`) is external and stated
where it is used. `Fails` is a failed command, a timeout or a dead agent.

### `SelfTests`

The loop of the tick over the disks, `longTestDue`, and `smart.test`. Hours are
nights and days, `Due` the 720 hours.

### `MC*` and `*Proofs`

Each `MC` module extends its component for the runs. The theorems about a component
are in a module of their own that extends it: `NetworkProofs`, `ReplicationProofs` (with
those about `ReplicationJobs`), `TickProofs` (`ScanJobs` and `Snapshots`), `AlertsProofs`
(with those about `EventLog`), `SharesProofs`, `DisksProofs`, `UpdatesProofs` and `BackupProofs`.

## Runs

| run | shows | bounds |
| --- | --- | --- |
| `network` | `NoteHoldsKept`, `RevertPromised`, `ForgetAfterApply`, `WrittenUnderNote`, `ExpiredIsSettled` | one operation at a time, two contents and one netplan refuses, three faults: enough for a failed revert of a crashed change after a reboot |
| `replication` | `CanContinue`, `Delivered`, `NeverRolledBack`, `OnlyOwnDestroyed` | keep 2, six instants, two failures in a row and any number with a delivery between them, one own snapshot destroyed by somebody else: a broken send, its resumption, a further run that breaks again, and prunes |
| `replication_jobs` | `RowIffWorking`, `DueIsRun` | two replications, the timer and two spawned runners, three calls that run or set one (one that is removed and made again under its number included), one death or reboot |
| `scans` | `DoneIsTrue`, `EndedIsClosed`, `DueIsScrubbed` | one verb beside the tick, two scans, one unreadable pool |
| `alerts` | `AckIsForThis`, `SinceKept`, `Settles` | two evaluations that overlap at will, one gauge, one reading, one setting, a window of two scans, two moments, three changes of the box or failed readings |
| `snapshots` | `OutlivedByKeep`, `TakesOnlyChanges`, `Captured`, `CountsKept` | two periods, three policies (none, 2 and 0, 1 and 1), one act of people, one fault: a full period whose take fails, a switched-off one, a lowered count, a tick killed before it made room; more acts are left to the theorems |
| `shares` | `ConfIsSafe`, `RowsHaveDatasets`, `NeverOlder`, `AckedIsServed`, `ForeignIsSafe` | two datasets of one SMB name, two verbs at once beside the reapply and the finisher, two changes, one crash or failed command, two other moves, three of changes and moves together: a change that overtakes another in the chain, a crash between the files or between a dataset and its policy row, restored tables with clashing names, an open export, an empty list, and rows of datasets that are gone; the datasets share one name that Samba does not keep, so that a reserved name is left to `ConfSafe` |
| `backup` | `DirIsWhole`, `SomeWhole`, `RestoredIsBackup`, `BackedUp`, `ServicesReturn` | two databases of which one is not always exported, one runner (while runs do not overlap the others are the same run at another time), one snapshot kept, two restores, one fault between two good backups: a death between the renames, the run after it, a restore that fails with files staged, another backup, and a restore of that one |
| `updates` | `InstalledIsSigned`, `DoneIsInstalled`, `UpToDate` | three releases of which two pin the same drive and whose versions are not in the order of their text, two moves of the hub, two faults: a dead runner and a foreign download, or an image that waits from an install that failed |
| `events` | `CountsAddUp`, `ToldOnce`, `EventuallyTold` | four events of four kinds, lists of three, two polls, ids that start over once, one failed read or restart |
| `disks` | `MembersKept`, `NoHiddenLabel` | the system disk and two more, empty or carrying a filesystem or another system's pool, two pools, two requests at once, any number of failures |
| `selftests` | `EventuallyTested` | three disks, the first unable, the second one that sleeps, due after three nights and days, one call of people, one test cut short |

No cfg sets deadlock checking off but where the system may stop for good: `shares`,
`backup`, `updates` and `events`, once their bounded changes are used up.

### Where the bounds are edges

Some constants, and conditions in three properties, say what the code relies on without
enforcing it. The runs hold with them, and TLC refutes the named property without them.

| module | constant or condition | refuted when | property |
| --- | --- | --- | --- |
| `Network` | `Callers` | `{agent, tick}`, `Confirmers = {}`, no fault | `RevertPromised` |
| `Replication` | `Keep`, `MaxFaults` | `Lately` taken out of the two properties, with keep 2 or 3 (the default is 3) and two failures in a row; or keep 1 and one | `NeverRolledBack`, `CanContinue` |
| `ReplicationJobs` | `PidReuse` | `TRUE`, one reboot | `DueIsRun` |
| `Alerts` | `Overtaken` in `Evaluate` | `FALSE`, two evaluations | `SinceKept` |
| `Backup` | `OneAtATime` | `FALSE` | `DirIsWhole` |
| `Backup` | `MaxFaults` | 2 | `SomeWhole`: the run that clears up after a death between the renames is killed too, and only the snapshots are left |
| `Backup` | `Optional` | also the drive's database, a second one after the box's, and `finish.strays` taken out of the property | `RestoredIsBackup` |
| `Updates` | `PidReuse` | `TRUE`, one reboot | `UpToDate` |
| `Updates` | `OneAtATime` | `FALSE`, two runners | `InstalledIsSigned`, `UpToDate` |
| `EventLog` | `Overtakes` | `TRUE` | `EventuallyTold` |
| `Disks` | `SlowResilver` | `FALSE` | `NoHiddenLabel`: a disk joins and leaves a pool during one wipe |
| `SelfTests` | `Refusing`, `NoHours` | `{2}` | `EventuallyTested` |

What is safe for `Replication` is a keep of at least twice the failures in a row:
`CanContinue` holds for keep 2 with one and keep 4 with two, and `RunsCanContinue` proves it
for all, however many failures there were before the last delivery. `ServicesReturn` counts
services that a failing catch has lost as an end; with `services = "up"` in their place TLC
refutes it by `CatchFails`.

Four definitions state what a comment or document of the repository says and the code
does not do; no run checks them: `PassIsComplete` (`ReplicationJobs`, `MaxManual = 1`,
no crash), `FailedIsTrue` (`ScanJobs`, `MaxFaults = 0`), `ScanIsLast` (`Alerts`,
`Window = 20`, `MaxActs = 2`), `FilesAreStored` (`Shares`, one crash, nothing fails). TLC
refutes each with these constants. `PROJECT.json` lists them, and the edges above that
contradict a sentence of the repository, as findings.

### Fairness

Only liveness needs it. systemd starts the timers again and again; a process that
has begun goes on, since every command it awaits has a time limit; a scan and a
self-test end. Nobody has to confirm, acknowledge, run or remove anything, and nothing
has to crash: those actions have no fairness. The finisher of a restore goes on, its catch
included, which may start the services or fail in it. Faults are bounded (`MaxFaults`,
`MaxCrashes`): a netplan that fails every time reverts nothing. Four assumptions go
further. `Updates`: the owner presses Install again whenever the box offers it, without
which no update happens. `Backup`: strong fairness for the tick's start, which other
operations put off but do not prevent, since the timer comes back every 15 minutes.
`SelfTests`: strong fairness for a read and a start of a disk that is tried again and
again, since a disk that fails now and then works at times; disks that never do are
`Refusing`. And strong fairness for its clock and its timer's start, which take turns
with everything else that happens in a night.

## Proofs

`NetworkProofs`: `TypeCorrect` holds for every set of callers. The safety theorems
assume `OneAtATime` (one operation in flight), which two callers show to be
necessary, and hold for every set of contents and any number of crashes, reboots and
failures. None of the properties is inductive by itself: `IInv` also says, for each
step of a set and of a revert, what the caller holds (the content it read is the one
in force), whether a note must stand there, and what the file can be. From it,
`NoteIsKept`, `Promise`, `ForgetIsSafe` and the action property `WriteIsNoted`.

`ReplicationProofs`, for every keep, any number of instants and whatever others take
and destroy. `SentIsDelivered` and `OthersSnapshotsStay` hold for any number of failures:
instants only grow, so the snapshot a run has taken is the newest own one (`Newest`), the
target has nothing newer until it was sent (`Ahead`), and what is pruned has `keep` newer
ones, so it is another (`ExcessFacts`, `Pruning`). `RunsCanContinue` and
`TargetNeverRolledBack` hold for any number of failures as well, and speak of the states in
which at most half of `keep` of them have followed each other since a run last delivered its
snapshot (`Lately`), which the counterexamples under "Where the bounds are edges" show to be
needed: the prune looks at names and numbers, not at what the target still needs. `LatelyInv`
says that the count behind it, `RunInv`, holds in those states: failures only grow in number
until a delivery (`FaultsGrow`), and a delivery establishes it from any state whatever
(`DeliveryContinues`), since what was just sent is newest on both sides.
`Room` bounds the own snapshots here that are newer than everything on the target or in
part on it: a failure adds two places, one for the snapshot of the run that failed and one
for that of the run that resumes what it broke; a delivery clears them. So
fewer than `keep` are newer than a resumed own snapshot, and `ResumedIsKept`: the prune
after the resumption leaves it alone. The bound holds while what a send needs is here
(`Live`); once somebody else destroyed it nothing is sent or pruned any more. `Planned`
says that the plan fits the target that was looked at, `Fresh` that what came after the
list is newer than what the run took. The run's model of one replication is alone with its
target, which `RowsAreRunners` is about. That one and `JobsTypeCorrect` speak of
`ReplicationJobs`, without any assumption on overlap, pids or crashes: the strengthening
`Named` says that a runner past its list has a replication in hand, and `OrphanedRows`
what a crash makes of the rows.

`TickProofs`: `DoneRowsAreTrue`, for every set of callers and any number of scans and
unreadable pools, overlapping at will. `Readings` says why an old reading is good enough to
close a row with: every row a reconcile goes through was written before its reading, so
the scan it read is no older than the row's, and a scan that ended clean stays so.
`NoneLostEarly` and `OnlyChangesTaken` are about the snapshots, for every list of periods
and policies, any number of failures and whatever people do; both rest on `SnapInv`. The
names the tick has in hand stay names of what they were listed as, although a destroy moves
them (`NamesPoint`). Unless people have destroyed one since the list, the list is the
beginning of what exists (`ListStands`), so the plan's counts hold: what is beyond the count
has enough newer ones, what makes room has one less, and the former is older (`Outlived`).
A take adds the one that was missing; a prune takes none of those away from another, since
within a period the oldest goes first (`NextIsOldest`, `DestroyedLater`). `Changed` says of
every period still to be taken that the dataset, or a snapshot since its last one, differs;
a take hands that on from the dataset to the new snapshot.

`AlertsProofs`: `AckedIsThisRaise`, for every set of gauges, readings and scans and any
number of evaluations at once, however old their readings are: an evaluation that raises
an alert takes the acknowledgement away, and `AckInv` adds that no alert and no evaluation
is dated after now (`Dated`), so that one given later is no older. `LastingIsKept` holds for
any number of evaluations in flight together. `LastingInv` says that what lasts is not over
(`Lasts`), nor in the readings an evaluation is about to apply (`ReadLasts`): those that were
in some hand when the alert was raised did not speak against it (`Overtaken` is what the code
leaves open), and those taken later see the condition.
`EventsToldOnce` is about the kernel's log, for any number of events, polls, restarts and
failed reads, whether or not new ids overtake the last one seen. `LogInv` counts: within
one count of the kernel's ids an event's number is its id plus a constant (`Base`), the
kernel's list has no gap (`KernelLists`), one poll is under way at most (`OnePoll`), what
was passed on is at most the last id seen (`SeenIsOld`), and a list that was read is not
older than that (`ListIsGood`), so what the poll keeps of it is new (`FreshIsNew`).

`SharesProofs`, for every set of datasets, users, calls and tables. `FilesNeverOlder`
is the refinement of `Published`: `OrderInv` says that neither file is ahead of the
list of the apply under way, which is not ahead of the table; it is kept because an
apply lists the table only at the head of the chain, when the one before it has written
or died. All steps but three are `Elsewhere` (they write no file and list nothing), so
the work is in `ListKeeps` and `WriteKeeps`. `ConfSafe` rests on `ConfInv`: beside the
files and the daemons, the list an apply carries is already filtered (`JobGood`), and
what verbs in flight hold is about known datasets; `ListedIsGood` and `GoodIsSafe` are
the two facts about `listShares` and the writers. `AnswersAreServed` adds to `OrderInv`
where a call stands: a caller is in the line once, with a change the table has
(`LineInv`), the apply under way is the head's and listed the table after the head's change
(`HeadInv`), and what it has written so far is still there (`WorkInv`).
`ForeignAccountsStay` says of each verb that has looked at an account what the look is
still worth (`Own`): nobody makes an account foreign again that was ours.
`SharesHaveDatasets` assumes nothing of how verbs overlap. `DatasetInv` adds to the property
that a call about to write a row has a dataset that is there, and a destroy one without a
share, or `adrift` names it (`Fit`), and that it names any dataset that both have in hand at
once (`Met`).

`DisksProofs`: `PoolsAndSystemKept`, for every set of disks, pools and requests,
however slow a resilver is. `MembersKept` is inductive together with the types and
with what a request was given. No step needs the look that came before it to be still true: each
command that writes to a disk is stopped by the disk's being in use (`LeafHeld`), which
is what the proof shows the safety of the check-then-act verbs to rest on.
`LabelsStayVisible` assumes `SlowResilver`, which TLC shows to be needed, and that no disk
comes with a label that is already hidden. `HiddenInv`: a label that lsblk has not noticed
(`StaleIsHeld`), or that a wipe does not know of when it reaches the table (`WipeKnows`),
is on a disk a pool holds, and wipefs refuses that one.

`UpdatesProofs`, for every list of releases, any number of runners, moves of the hub and
failures: `PackagesAreSigned` and `DoneRunsInstalled` under `OneAtATime`, which two runners
show to be needed. At most one runner is alive (`Single`); `Runner` says of each of
its steps what the files it has checked are, that the release is newer than the package it
is about to replace, and where the drive it pins is.

`BackupProofs`, for every set of files, any number of runs, snapshots and failures, while
backups, restores and changes of the `.env` do not overlap (`OneAtATime`). `RunInv` says
what a run has in `.new` at each step, from which `BackupsAreWhole`. `AWholeBackupStays`
assumes one failure at most, since two remove the last copy (see the edges): `LastInv` says
that the directory is away only between the two renames or after the one death there was.
`RestoresOneBackup` holds whichever databases backups lack and however many restores have
failed before. `RestoreInv` says that what a restore has opened and staged is of the one
backup in the directory, and all of it once it is through, and that what its finisher has
put in place or has yet to is of one run; and that nothing else is staged but what a failed
restore had left, which the finisher takes for Samba's passwords only with the manifest's word.

Assumptions on constants in the components' modules are the ones the code gives: non-empty
sets, distinct names, natural bounds. The proofs cite the rest where they use it.

Six definitions of the models were changed so that they could be reasoned about, without
other behaviour: the rows a reconcile goes through are a set of which it takes the oldest
(`ScanJobs`), the order in which a backup copies its files is a relation (`Backup`),
`OnlyOwnDestroyed` speaks of `Run` rather than of what is not somebody else's step
(`Replication`), a call is not named like the reapply or the finisher (`Shares`), and
what a poll keeps is the end of the list from the first newer id on, which is the filter of
the code since ids grow along a list (`Newer` of `EventLog`). The lists of the plan of
`Snapshots` are sets that are worked off in the order of the code, the slices of `plan` are
the places with so many after them, and the destroy of a name that is gone, which fails and
changes nothing, is no step.

Only model-checked: all liveness (`ExpiredIsSettled`, `DueIsRun`, `EndedIsClosed`,
`DueIsScrubbed`, `Settles`, `Captured`, `CountsKept`, `BackedUp`, `ServicesReturn`,
`UpToDate`, `EventuallyTold`, `EventuallyTested`), which is out of the prover's reach; and
`CountsAddUp` of `EventLog`, which is what a fold over a list computes: an induction over
data.

## Not modelled

The hostname half of `setNetwork`; recursive replication and snapshot names from
before ids; severity and wording of alerts, and their confirmation a minute after they
were raised (`db.ts:144`), which by the clock alone confirms what was seen once;
several pools at once in `ScanJobs`, several datasets in one tick and the clock's
arithmetic in `Snapshots`, and scrubs a person pauses by hand; `dataset.set`, children
of datasets and their location files; a finisher that is killed rather than one that fails;
the steps of dpkg and its postinst; links that somebody leaves in a backup or the drive's
directory. The server keeps one request to one connection and shares
nothing between two; power is one command; vitals, the command line and the shared types
decide nothing; parsing of command output, beyond what the models tell apart, and
argument checks are data without control and have unit tests in the repository.

## Plan

1. The minute of confirmation of an alert against the evaluations, and `EventLog`
   composed with `Alerts` and `ScanJobs`.
