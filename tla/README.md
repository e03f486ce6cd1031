# sshfs-keeper in TLA+

sshfs-keeper is a daemon that keeps SSHFS and rclone mounts alive, runs periodic
sync jobs and one-shot file transfers, and is steered over an HTTP API. This
directory holds TLA+ models of it, the TLC configurations that check them and
TLAPS proofs about them. Paths below such as `monitor.py` are relative to
`src/sshfs_keeper/`.

| Module | Kind | Models |
|---|---|---|
| `MountMonitor` | detailed | `monitor.py`, the operations of `mount.py` it awaits, the `/api/mounts` handlers |
| `MountStatus` | abstract | what clients see of a mount: status, retry count, backoff, events, webhooks |
| `MountMonitor_proofs` | proofs | type correctness, safety, and `MountMonitor` implements `MountStatus` |
| `TransferManager` | detailed | `transfer.py`, the `/api/transfers` handlers, `transfers.json`, stop, crash and restart |
| `TransferManager_proofs` | proofs | type correctness and safety of `TransferManager` |
| `SyncManager` | detailed | `sync.py` and the `/api/syncs` handlers |
| `SyncManager_proofs` | proofs | type correctness and safety of `SyncManager` |
| `ConfigFile` | operators | `config.py`: what the file holds, the migration to hosts, `load`, `validate` |
| `ControlPlane` | detailed | every handler that changes configuration, `save`, reload, start, stop, crash, hand edits |
| `Lists_proofs` | proofs | induction over numbers, the least and the largest of a set, the existence of folds |
| `ConfigFile_proofs` | proofs | what a filter keeps of a list, what the migration makes of a file |
| `ControlPlane_proofs` | proofs | type correctness and every safety property of `ControlPlane` |
| `EventStream` | detailed | `/api/events`: the queues, the generator, leaving clients, shutdown |
| `EventFeed` | abstract | what a client of `/api/events` is promised |
| `EventStream_proofs` | proofs | type correctness, no silent loss, and `EventStream` implements `EventFeed` |
| `MCMountMonitor`, `MCTransferManager`, `MCSyncManager`, `MCControlPlane` | model checking | the model values, files and payloads, and the symmetry, of the runs |

`ControlPlane` extends `ConfigFile`; `MountMonitor` instantiates `MountStatus` and
`EventStream` instantiates `EventFeed` as what they implement.

## 1. Inventory

### Components

**Mount monitor** (`monitor.py`). State: `Monitor.states`, a dict from mount name
to `MountState` (config, status, `retry_count`, `backoff_until`, times, error).
Operations: `_loop` runs a round (`gather` of one `_check_one` per listed mount),
then sleeps `check_interval`. `_check_one` decides between disabled, autofs,
healthy, stale (forced unmount) and unmounted, respects the backoff, waits
`remount_delay`, and calls `_remount`; `trigger_remount` calls it for the API.
Correct when: status, counters and backoff tell one consistent story however
attempts overlap; no mount holds up the checks of the others for good; every mount
that can be mounted is mounted in the end.

**Mount operations** (`mount.py`). No state of its own; the state is the
kernel's. `is_healthy` (`/proc/mounts` and `statvfs` in a thread with a timeout),
`unmount` (fusermount3 or fusermount, 15 s), `mount` (`mkdir` of the mount point,
then sshfs or rclone, 30 s), `get_usage` (`statvfs`). A process that outlives its
timeout is not killed. `mkdir` and `get_usage` run on the event loop itself: on a
mount that hangs they block the whole daemon until they return.

**Transfer manager** (`transfer.py`). State: `_transfers` (dict), `_history`
(list, at most `_MAX_HISTORY`), per transfer a status and `_proc`, and
`transfers.json`. Operations: `start`, `resume`, `cancel`, the `_run` task,
`_save_to_disk`, `_load_from_disk`. Correct when: list, dict and file agree; a
transfer shown active has a task; what is shown survives a crash, unless the last
save failed.

**Sync manager** (`sync.py`). State: `states` (status, `_consecutive_failures`,
`_next_run`, a lock). Operations: `_loop` gathers the due jobs, `_run_job` copies
to each target in turn, `trigger`. Correct when: runs do not overlap, the verdict
covers every target, no due job is starved. The 3600 s timeout is around the
reading of the output and not around the wait for the exit that follows.

**HTTP API** (`api.py`). Handlers change `AppConfig` and the three managers
directly and save the configuration before they answer. Operations: create, update
(with rename), delete, enable, disable of mounts and syncs, backend of a mount,
hosts, settings, notifications; start, resume and cancel of transfers; remount and
trigger. Correct when: memory, the watched objects and the file say the same once a
request was answered with success.

**Configuration store** (`config.py`). State: `config.toml`. `load`
(with `_migrate_to_hosts`, and a restore from a backup that `save` never writes), `save`
(a guard against writing zero mounts, a temporary file, a copy to `config.bak`, `os.replace`),
`validate`. Correct when: the file only ever changes as a whole, what was saved can be
read again, and no job refers to a host that is missing.

**Event stream** (`api.py:88-98`, `api.py:275-303`). A bounded queue per
subscriber, fed by a listener of the monitor, drained by a generator that looks
for a disconnect between events and sends a comment every 30 s. Correct when: a
client gets the events in order, loses one only to a full queue, and leaves
nothing behind.

**Daemon lifecycle and reload** (`main.py`). Builds the managers, runs the server,
reloads the configuration on SIGHUP, and stops: the server first, which waits for
its open responses, then the monitor and the sync manager. Correct when: a reload
leaves the managers and the configuration in agreement, and a stop ends.

**Notifications** (`notify.py`), **metrics** (`metrics.py`), **dashboard**
(`templates/`), **command line** (`main.py`). Delivery, formatting, presentation;
no state that outlives a call.

### Interactions

All of it runs on one asyncio event loop. The monitor's loop, the sync loop, the
`_run` task of each transfer and one task per HTTP request interleave at `await`s
only; between two of them a coroutine is atomic. They share objects: an API
handler and a check in flight hold the same `MountState` and `MountConfig`, and a
handler may remove a `MountState` from the dict while a check still uses it. The
`MountConfig` in `config.mounts` and the one in the `MountState` are one object
after a start and after a `POST`; after a reload they are two. Events are delivered
by calling the listeners at once, webhooks by starting a task. Outside the loop are
the kernel's mounts, the subprocesses (some not waited for any more) and the files.

### What is hard

- State read before an `await` and used after it: the status before the probe, the
  time before the probe and the unmount, `enabled` before the delay, `local`
  before and again after the probe.
- Two attempts on one mount: the monitor's and a manual one.
- Objects that outlive their entry: delete, rename and re-add during a check or a run.
- Subprocesses that outlive their timeout and act later.
- Cancel and resume of a transfer around the awaits of `_run`.
- A crash between a status change and its save, or inside a save; a save that is
  refused or fails after the memory was changed.
- A rename of a host that jobs refer to; jobs migrated from free-text servers.
- A reload, which replaces the lists and keeps the objects that are watched.
- Clients of the event stream that are slow, leave at any point, or stay while the
  daemon is to stop.
- Exceptions that `gather` discards and saves whose failure is swallowed.
- Calls that block the event loop, and a wait that has no timeout.
- Strings that are written without escaping, and writes that end early.

`PROJECT.json` lists each hazard at its line with the properties that cover it.

## 2. How the models correspond to the code

A step is the code between two suspension points. A coroutine that suspends is
split there; what it read before is kept in its task record (`task`, `run`,
`job`). Handlers that never suspend are one action. Definitions keep the source's
names where they can; `PROJECT.json` maps each to its lines. An operator commented
as *Mutant* is no part of the specification: it is a plausible bug of the operator
that follows it, kept to show that a property notices it.

### MountMonitor

`Mounts` are MountState *objects*: a mount that is deleted and added again is a
new element, so that a check holding the old one is represented. `life` says
whether an object is in `Monitor.states`, `name` is its key there. `task[m][a]`
is the coroutine of actor `a` (the monitor's `Checker` or an HTTP client) on
mount `m`: `queued` in the gather, in the `probe`, in `umount`, in the `delay`,
in `mkdir`, in `mount`, in `usage`. `kernel` is what `/proc/mounts` and a call on each
path say: nothing mounted, `live`, `dead` (listed, every call fails) or `hung` (no call
returns until the server is back or the connection is given up). `orphans` are the
processes that outlived their timeout, which may still mount, unmount or end without
effect (`OrphanEnds`).

A coroutine is in `mkdir` or `usage` only while that call *blocks the event loop*:
`Responsive` says that none is, and every step of a coroutine and every request needs
it. What goes on meanwhile is outside the loop: threads, processes, the kernel, the
clock. On a dead mount point `mkdir` raises (`Remount`): the coroutine ends, the status
stays `mounting`, nothing is counted or sent, and no mount process is started. `MountRuns`
is the process only. `backoff`
abstracts `backoff_until` against the clock; `retry` saturates at `MaxRetries`,
because the code only compares it. `shown` and `told` record the last event and
webhook of a mount, `outcome` is a history variable.

| Code | Actions |
|---|---|
| `_loop`, `_check_all` | `StartRound`, `RoundEnds` |
| `_check_one` | `CheckDisabled`, `CheckAutofs`, `CheckUnlisted`, `CheckListed`, `ProbedHealthy`, `ProbedStale`, `ProbedUnlisted`, `CheckUnmounted`, `DelayEnds` |
| `is_healthy`, `unmount`, `mount` | `ProbeAnswers`, `UnmountRuns`, `MkdirReturns`, `MountRuns` |
| `_remount` | `Remount`, `MountSucceeded`, `MountFailed` |
| `get_snapshot`, where it blocks | `ApiStatus`, `UsageReturns` |
| `trigger_remount` and the handlers | the `Api...` actions |
| environment | faults `die` (the mount process dies), `stall` (the server hangs), `vanish` (somebody unmounts), `exit`, `hang` (a process or a probe outlives its timeout), `raise` (`mkdir` or the launch fails on a sound mount point); a hung mount coming back or being given up; the clock |

### TransferManager

`start`, `resume` and `cancel` are one step each. `Runs` are `_run` tasks: a
resumed transfer has a second one while the first still waits for its process.
`run[r].pc` says which `await` a task is in, `run[r].os` what its process is
doing. `disk` is what a load of `transfers.json` would find; a crash may catch
`write_text` after the truncation (`TornWrites`), and then it finds nothing. A save may
also fail (`Writes`, up to `MaxFailures` times): it leaves the old records or none, and
its caller carries on as if nothing had happened. `saved`, a history variable, says
whether the last save succeeded.

### SyncManager

`job[j]` is the run of job `j`: queued behind its lock, or copying to target `at`.
`next` abstracts `_next_run`: due, one interval ahead, or one backoff ahead. A copy
may keep its output open beyond the 3600 s timeout (`hung`: `CopyTimesOut` gives it up),
or close it and not exit (`lingers`: nothing gives that up). `copied` and `asked` are history variables: the
targets the last run copied, and a trigger not yet followed by a run.

### ConfigFile and ControlPlane

A configuration is a record of settings, hosts and, per kind, jobs. A job keeps
what the handlers, the migration and a reload tell apart: name, enabled, tool, the
server its free-text remote names, the host it refers to, and one `text` for its
options, identity and paths. `file` is such a record, or `Absent`, or `Broken`.

`save` puts each string between two quotes as it is. The constant `Reads` says what
`load` makes of each text and of each value of the settings: the same, another string
(a backslash in it), or nothing that can be read (a quote). `Rendering` of a
configuration is what a load would find after it was saved whole, and `Renderings` adds
what it would find when `os.write` ended early, whose count `save` does not look at: a
beginning of the configuration, or a broken file.

Each entry of `jobs` says whether it is `shared`: the same object as the one
watched under that name. An edit changes the watched object, so it reaches the
entry exactly when it is shared; this is what a reload undoes. A handler does not
suspend, so its change of memory is one step. Its save is two more, because a
crash or the user may come in between: `step` is `saving`, then `written` once the
temporary file is written and `config.toml` copied to `config.bak`. `short` says that
the last write ended early.

| Code | Definitions |
|---|---|
| `_migrate_to_hosts` | `ByName` (one `Enter` per host), `Created` (one `Create` per job), `Migrated`, `Migrate` |
| `load`, `validate` | `Load`, `Valid` |
| `POST`, `PUT`, `DELETE` of mounts and syncs | `AddJob`, `UpdateJob`, `RenameJob`, `RenameConflicts`, `DeleteJob` |
| enable, disable, backend | `SetEnabled`, `SwitchBackend` |
| hosts, settings, notifications | `AddHost`, `UpdateHost` (with the cascade `Moved`), `DeleteHost`, `UpdateSettings` |
| `save` | `SaveRefused`, `SaveWrites`, `SaveReplaces`, `SaveFails` |
| `_do_reload` | `Reload`, `Becomes` |
| `_cmd_start`, `_run` | `Start` |
| SIGTERM, a crash, the user | `Stop`, `HandEdit` |

A loop over a list is a fold: of a step that has a name of its own where a lemma is
about it, of `Without` for the list comprehensions that filter.

Two oddities of the code are kept as they are. The migration looks hosts up as
`user@hostname` in a dict keyed by name, and names what it creates by the hostname
alone: two users of one server become two hosts of one name. A rename answered
with 409 has already assigned the other fields, which the next save writes.

### EventStream

A client is one request of `/api/events`; the browser's next attempt is another.
`pc` is where the request is: `accepted` (queue registered, generator not started),
`checking`, `waiting`, `sending`, `over`, or `abandoned` (cancelled before the
generator's first step, so that its `finally` never runs). Events are numbered, and
the two frames of one are sent as one. `since`, `last`, `got` and `missed` are
history variables. `Cancel` and `Abandon` are what the transport may do once the
client is gone; it is modelled from its use, and never owes them.

| Code | Actions |
|---|---|
| `_emit`, `_broadcast_event` | `Emit` |
| `sse_events` | `Connect` |
| its generator | `StartStream`, `Check`, `Leave`, `Take`, `KeepAlive`, `Send` |
| the transport | `Disconnect`, `Abandon`, `Cancel` |
| the end of `_run` | `SignalStop`, `Stopped` |

## 3. What the runs check

Every passing run is exhaustive within its bounds.

| Run | Question | Result |
|---|---|---|
| `monitor_safety` | One mount and its re-added successor, the monitor and one HTTP client with all the edits, every fault | holds, about 846 000 states |
| `monitor_liveness` | Two mounts and the monitor alone, every fault but `vanish`, under fairness | holds, about 172 000 states |
| `monitor_disabled` | A mount is disabled during `remount_delay` | violated, finding 1 |
| `monitor_unreported` | A remount raises before its process starts | violated, finding 2 |
| `transfer_safety` | Three transfers, history of two, three runs, one stop or crash, one save that fails | holds, about 764 000 states up to symmetry |
| `transfer_liveness` | One transfer, three runs, one stop or crash, one save that fails, under fairness | holds, about 252 000 states |
| `transfer_cancel` | Cancel during the launch of the process | violated, finding 3 |
| `sync` | A job, its re-added successor and another, two targets, a failure, a hanging or a lingering copy | holds, about 28 000 states |
| `sync_trigger` | A trigger during a run | violated, finding 4 |
| `control_plane` | Three requests of any kind, one hand edit or write that ends early, one reload, failing saves, a crash and a second start | holds, about 2 370 000 states |
| `event_stream` | Two clients, queues of two, four events, a stop, under fairness | holds, about 105 000 states |
| `reload_edit` | An edit after a reload | violated, finding 5 |

Further configurations, each of which finds one violation. They are run by hand, as in
`tlc -config QuotedText.cfg MCControlPlane`.

| Configuration | Module | Property | Finding |
|---|---|---|---|
| `MonitorBackoff.cfg` | `MCMountMonitor` | `BackoffStaysError` | 6 |
| `MonitorRecovered.cfg` | `MCMountMonitor` | `RecoveryIsAnnounced` | 7 |
| `TransferPending.cfg` | `MCTransferManager` | `CancelledStays` | 8 |
| `TransferFullDisk.cfg` | `MCTransferManager` | `KnownIsPersisted` | 9 |
| `SyncTimeout.cfg` | `MCSyncManager` | `RunsEnd` | 10 |
| `QuotedText.cfg` | `MCControlPlane` | `AnsweredIsReadable` | 11 |
| `ShortWrite.cfg` | `MCControlPlane` | `ReplacedWhole` | 12 |
| `MigrationUsers.cfg` | `MCControlPlane` | `MigratedToOwnHost` | 13 |

Properties:

- `RoundsDoNotOverlap`, `RunsDoNotOverlap`: the gather is what keeps two
  generations of one mount or job apart, since the dict and the lock do not.
- `BackoffIffExhausted`, `BackoffHonoured`: the two fields a failure updates agree,
  and the backoff decides although it is compared with an old clock reading.
  `BackoffHonoured` holds for the monitor alone; a manual remount is meant to ignore it.
- `ErrorIsAnnounced`, `MountingIsExplained`: overlapping attempts do not leave a
  mount in `error` without its event, nor in `mounting` with nothing under way, unless
  the latest attempt raised (finding 2).
- `RefinesMountStatus`: every change of what clients see is a step of
  `MountStatus`; each outcome belongs to one attempt and is reported once.
- `RoundsFinish`, `MountingPasses`, `Converges`: a round of checks ends; a mount that
  an attempt left in `mounting` does not stay there; once faults and requests stop every
  listed mount is mounted (or disabled, if it is). All three *assume* `NoEndlessBlock`:
  no blocking call lasts for ever. A server that hangs and neither comes back nor has its
  connection given up does stop the daemon.
- `HistoryMatchesKnown`, `ActiveHasRun`, `HistoryIsDurable`, `ActiveEnds`: list, dict
  and file of the transfers agree; nothing stays active without a task; unless the last
  save failed (finding 9) a daemon that is killed knows every transfer again, with its
  verdict; what is active ends.
- `VerdictCoversAllTargets`, `DueJobRuns`: a later target cannot hide an earlier
  failure; a copy that hangs starves no other job. The second assumes `ExitsInTheEnd`: no
  process that has closed its output lives for ever (finding 10).
- `NamesAgree`: the list that `save` writes and the jobs that are watched name the
  same jobs, each once. Two structures are updated by every handler and by reload,
  with copies in the list that no edit reaches. For syncs it holds until the first
  reload, which does not tell `SyncManager`.
- `AnsweredIsDurable`: success means that the file holds the rendering of everything in
  memory, including what an earlier 409 or failed save left unsaved, and, where every
  string is read as it was written, the very jobs that are watched. Exempt are a daemon
  that was reloaded (finding 5), one without mounts (the guard of `save`) and a write
  that ended early (finding 12).
- `HostsResolve`: no job refers to a missing host, in memory, in the file, or after
  the next load, through renames, deletions, migration, crashes and files cut short.
- `FileChangesWhole`: but for the user's edits, the file goes from one rendering of the
  daemon's configuration to another whole one, whatever fails or crashes in between; only
  a write that ended early brings a beginning of one.
- `NothingLostSilently`: a connected client has, or is still to get, every event
  since it asked, but for those that met a full queue; the first `Capacity` never do.
- `RefinesEventFeed`: in order, none twice, none older than the request.
- `EventArrives`, `LeaverIsForgotten`, `StopsOnceLeft`: a queued event arrives or
  the client leaves; the queue of one that left is removed, however quiet the
  mounts are; a stop ends once the clients are gone.

### Bounds

`MaxRetries = 2` distinguishes the first failure, the one that exhausts the
retries and one beyond it. `MaxFaults = 2` lets a failure meet a second one
(a process that outlived its timeout and a dead mount; a mount that hangs and is given
up costs one); `MaxRequests = 2` lets a delete be followed
by an add and an edit meet a manual remount. Two objects of one mount are the
least that shows a check outliving its entry; two paths, one under autofs, the
least that shows a move and the autofs branch. Three transfers overflow a history
of two; three runs are a start and two resumes. One failing save (`MaxFailures`) may fall on
any save, with one that succeeds or a crash after it. Two targets are the least in
which a later one can hide an earlier one. `Symmetric` permutes the transfers and
the runs, none of which a property singles out, and is used for safety only.

For the configuration, two mounts and a sync are the least with a rename among
mounts and a host shared by both kinds. The two servers are two users of one
hostname, which is also the name of a host a request may add, so that every
collision of the migration occurs. Three requests let an edit follow a rename that
follows an addition; the reload, the crash and the second start may come between any two
of their steps, and so may one upset (`MaxUpsets`), a hand edit or a write that ends
early. Strings that are written without escaping occur in two forms: the settings may
hold one that is read as another (a backslash), the options of a sync one that ends the
file for its reader (a quote). Four events overflow a queue of two and
leave room to catch up; two clients are independent but for the stop, which waits
for both.

Deadlock is checked for the monitor, which never stops checking. It is not for
the others: a daemon whose work and whose budget of runs, requests and starts are
used up really has nothing left to do in the model, nor has an event stream
after the stop.

### Fairness

Weak fairness of each coroutine's own steps: a responsive event loop runs what is
ready, and what a check awaits is bounded by a timeout in the code (the probe, the
unmount, the mount process). The two calls a check or a page makes on the loop itself
(`mkdir`, `usage`) are bounded by nothing, so their return is *not* owed, and the
liveness of the monitor is stated under `NoEndlessBlock`. Of a copy the reading of the
output is bounded and the wait for the exit is not: no step is owed to a copy that
lingers, and `DueJobRuns` is stated under `ExitsInTheEnd`. Weak fairness of the clock
(`backoff_until` and `_next_run` are reached). *Not* owed either: HTTP requests, faults,
a server that comes back, and the end of orphaned processes. A transfer has no timeout:
`ExitsWhenServed` makes a process exit only while its output is being read or after
SIGTERM. `FairSpec` of `EventStream` owes each generator its steps (the event loop runs
what is ready, a quiet `get` times out after 30 s, and a client that does not read is in
the end disconnected by TCP) and the daemon its last one (`Stopped`); it owes no event,
connection, departure or cancellation. Convergence does not rest on a server coming back
by itself: a mount that is dead or hangs is unmounted by force and mounted anew.

## 4. What is proved

The theorems hold for all values of the constants, from the assumption each module
states about them and nothing else: any set of mounts, clients, paths, jobs and
transfers, any number of targets, any `max_retries`, queue size and length of the
history, any budget of faults, requests, reloads and crashes.

`MountMonitor_proofs`:

| Theorem | States |
|---|---|
| `TypeCorrect` | `Spec => []TypeOK` |
| `RoundsKeptApart` | `Spec => RoundsDoNotOverlap` |
| `Refinement` | `Spec => RefinesMountStatus` |
| `BackoffMeansExhausted` | `Spec => []BackoffIffExhausted` |
| `ErrorsAreAnnounced` | `Spec => []ErrorIsAnnounced` |
| `MountingIsAccounted` | `Spec => []MountingIsExplained` |
| `BackoffIsHonoured` | `Spec => []BackoffHonoured` |

The argument. `Inv` is `TypeOK` with `SleepMeansIdle`: while the loop sleeps no
check is in flight. It is needed in two places: `StartRound` puts every listed
mount's task back to its start, and without it might discard an attempt that is
open, which no step of `MountStatus` does; and it is what makes rounds disjoint.
`Inv` is inductive, one lemma per action. `NextRefines` then maps each step to a
step of `MountStatus` or to a stutter, with `open` as the set of actors that are
in `mount()`, blocked or not. The invariants about the counters and the events are invariants of
the contract, so they are proved from its few steps and not from the many of the
implementation; `BackoffIsHonoured` and `MountingIsAccounted` need the detail
and are proved on `MountMonitor`.

`SyncManager_proofs`:

| Theorem | States |
|---|---|
| `TypeCorrect` | `Spec => []TypeOK` |
| `VerdictIsRight` | `Spec => []VerdictCoversAllTargets` |
| `RunsKeptApart` | `Spec => RunsDoNotOverlap` |

Its `Inv` adds to the verdict what a run under way knows (`RunKnowsItsFailure`):
`failed` is set exactly when a target before the current one was not copied. The
verdict alone is not inductive, since it says nothing of a run that is not over.
`SleepMeansIdle` says again that nothing is under way while the loop sleeps; with
it `LoopWakes`, the one step that begins runs, begins them only when all are over.

`TransferManager_proofs`:

| Theorem | States |
|---|---|
| `TypeCorrect` | `Spec => []TypeOK` |
| `ListAndDictAgree` | `Spec => []HistoryMatchesKnown` |
| `ActiveMeansRun` | `Spec => []ActiveHasRun` |
| `VerdictsAreDurable` | `Spec => []HistoryIsDurable` |

Two facts make these inductive. `DiskOK`: what a load would find is a history of
its own, of distinct transfers and within `MaxHistory`, because a crash and a
restart replace list and dict by it. `KnownHaveStatus`: whatever is in the dict has
a status, because a save writes the status of every listed transfer. The list
lemmas (`Pushed`, `Dropped`, `Removed`, `Evicted`) say what a start with its
eviction and a resume do to a list without repetition; `SaveIsDurable` says that a
save makes the disk show what is in memory or sets `saved` to false. Each action then
has one lemma.

`EventStream_proofs`:

| Theorem | States |
|---|---|
| `TypeCorrect` | `Spec => []TypeOK` |
| `NothingIsLost` | `Spec => []NothingLostSilently` |
| `Implements` | `Spec => RefinesEventFeed` |

`Inv` says of each client that one not registered yet holds nothing, that an item
is in hand exactly while it is sent, that the item and then the queue are newer
than what was got and in order (which makes every send a step of `EventFeed`), and
that every event since the request is got, held or missed. The event at place `i`
of a queue is at least the `i`-th since the request, so a full queue means that
`Capacity` events came before the missed one. A step concerns one client, so the lemmas
are about one; an event is the only step that touches all.

`ConfigFile_proofs`:

| Theorem | States |
|---|---|
| `MigrationResolves` | a file whose references resolve is loaded with every job on a host that is there |
| `MigrationSettles` | loading what was loaded changes no job and creates no host |
| `SavedIsUsable` | what a save leaves of a configuration with distinct names and resolved references has them too, cut short or not, if it can be read |

`SavedIsUsable` rests on the order in which `save` writes: a beginning of a configuration
that has a job has all its hosts. The migration is two loops, over the hosts and over the jobs, whose results the
theorems need for lists of any length. Each loop is a fold of the community modules,
which is a recursive function on sets of indices, chosen by its equation.
`FoldExists` shows that a function with that equation exists whenever the step of
the loop has a type; `ByNameRuns`, `CreatedRuns` and `WithoutRuns` then read each
fold as a sequence of states, one per element; and the invariant of the loop is
proved by induction (`ByNameKnows`: every host entered so far is known;
`CreatedKnows`: every unmigrated job seen so far has a host that is named by the
hostname of its server; `WithoutFilters`: what is left came from growing places of
the list, and nothing outside the set was lost). The induction theorems of the
library take a predicate as a parameter, which the installed provers cannot
instantiate; `BoundedInduction` takes the *set* of numbers of which the predicate
is true instead, and follows from the well-foundedness of the natural numbers.

`ControlPlane_proofs`:

| Theorem | States |
|---|---|
| `TypeCorrect` | `Spec => []TypeOK` |
| `NamesAlwaysAgree` | `Spec => []NamesAgree` |
| `AnswersAreDurable` | `Spec => []AnsweredIsDurable` |
| `HostsAlwaysResolve` | `Spec => []HostsResolve` |
| `FileIsWhole` | `Spec => FileChangesWhole` |
| `AnsweredIsSaved` | success means `file \in Renderings(Content, short)`, and `file = Content` after a whole write of plain strings, reloaded or not, unless there are no mounts |

`SaveInv` ties the steps of a save together: one is under way only in a running
daemon, its temporary file holds one of the renderings of what memory says at that
moment, the whole one unless the write ended early, and success is answered only when the
file does. No handler can change memory meanwhile
(`RequestsAlike`); the user and a crash can come in between, and do no harm. This
is enough for `FileIsWhole` and `AnsweredIsSaved`.

The other four need `Inv`, which adds what the jobs and the file are:

- `Good`, per kind of job. Until a reload the list holds the watched objects
  themselves, each under its name (`Same`); after one only the names of the mounts
  still agree (`Matching`). `NamesAgree` alone is not inductive: that a rename keeps
  it rests on the entry of the old name being either the watched object or a copy
  that `Replaced` finds; and `enable` would move a job to a missing host if the
  watched object had another than the list, which `Same` excludes.
- `HostsAmong`, also per kind, and `Resolved` of the file: they depend on each
  other, since a save puts the one into the file and a start brings it back.
- `FileInv`: the file's mounts have distinct names, because `_do_reload`, unlike a
  start, does not validate what it reads.

A request changes the list and the watched jobs of one kind, so there is one lemma
about any list and any watched jobs for each way of changing them (`Added`,
`EditedInPlace`, `Renamed`, `Deleted`, `HostMoved`, `Started`, `MountsReloaded`),
and then one per action. Of the constants they use that payloads are details of a
job, that hand edits and the first file are valid configurations whose references
resolve, and that the bounds are numbers; of the hosts, that every server's
hostname may be the name of a host and that no host is named like a
`user@hostname`. The last is an assumption about the user: `HostPayload`
(`api.py:158`) would accept such a name, and the migration, which looks up names and
`user@hostname` in one dict (`config.py:386-397`), would then reuse that host for any
job of that server.

Only model-checked: liveness (`RoundsFinish`, `MountingPasses`, `Converges`, `ActiveEnds`, `DueJobRuns`,
`EventArrives`, `LeaverIsForgotten`, `StopsOnceLeft`), which is out of this prover's
reach. Every invariant and every safety property of the passing runs is proved.


## 5. Where the code and its documentation disagree

The first five are the runs of that name, the next eight the configurations of that name
(section 3); the last is read off the source.

1. `monitor_disabled`. `docs/configuration.md` says a disabled mount is not
   remounted; a mount disabled while its check waits out `remount_delay` is.
2. `monitor_unreported`. `docs/configuration.md` says `on_failure` is sent when a
   remount fails; when the attempt raises (`mkdir` of a dead mount point, a tool that
   cannot be launched) `gather` discards the exception, nothing is sent or counted, and
   the mount stays `mounting` until the next check.
3. `transfer_cancel`. The docstring of `cancel` says it sends SIGTERM to a running
   subprocess; during the launch `_proc` is not assigned yet, and the process is
   left to copy on under a transfer shown as cancelled.
4. `sync_trigger`. `docs/api.md` says a trigger runs the job immediately; the end
   of a run under way overwrites `_next_run`, and the request is lost.
5. `reload_edit`. `docs/architecture.md` says that the write endpoints save at once
   and that changes survive a restart. After a reload, a mount that was there before
   is watched through its old `MountConfig`, and `config.mounts` holds a new one:
   an edit changes the old, `save` writes the new, the answer is success, and the
   edit is gone at the next start.
6. `MonitorBackoff.cfg`. `docs/architecture.md:71` says a mount in backoff stays in
   `ERROR`; each check overwrites the status with `STALE` or `UNMOUNTED` before it looks
   at the backoff.
7. `MonitorRecovered.cfg`. `docs/architecture.md:84` says an event is raised when the status
   becomes `HEALTHY`. A check compares with the status from before its probe: when a
   manual remount fails meanwhile, the mount goes from `ERROR` to `HEALTHY` without one.
8. `TransferPending.cfg`. The docstring of `cancel` says it cancels pending transfers; `_run`
   does not look at the status it overwrites. The model lets a cancel come first only
   for a resume: the client that cancels a new transfer learnt its id from an answer, and
   by then the task has begun.
9. `TransferFullDisk.cfg`. The docstring of `TransferManager` says that the state is kept so
   that transfers can be resumed after a restart; a save that fails is logged, and the
   transfer is shown all the same.
10. `SyncTimeout.cfg`. `docs/architecture.md:131` says all sync runs have a timeout of an
    hour. It does not cover the wait for the exit (`sync.py:469`).
11. `QuotedText.cfg`. The sentence of finding 5 once more: `save` escapes nothing
    (`config.py:157-227`), so a sync with the options `-e "ssh -p 2222"` is answered with
    success and the daemon cannot be started again.
12. `ShortWrite.cfg`. `docs/configuration.md:10` says the configuration is written back
    atomically; the count `os.write` returns is not looked at, and what was written
    replaces the file, however little it is.
13. `MigrationUsers.cfg`. `FAQ.md:77` says a host is created for each unique host, of those
    named as `user@hostname`; two users of one server get two hosts of one name, and
    their jobs refer to that name.
14. `FAQ.md:119` says that a configuration that lost its mounts is restored from
    `config.toml.bak`, and `load` looks there (`config.py:331`); the copy `save` makes is
    called `config.bak`, so there is nothing to restore from.

## 6. What is not modelled

- Monitor: changes of `max_retries` at run time (settings and reload), the custom
  mount path of `POST /api/mounts`, stop of the loop.
- Sync: a `PUT` that changes source or targets while the job runs; stop.
- Transfers: the unknown-protocol error of `_build_command`, which the API's validation
  keeps out of reach. After the end of its output a process is assumed to exit, for
  `ActiveEnds`.
- `_find_autofs` and the parsing of `/proc/mounts` are abstracted to
  `AutofsPaths` and `kernel`; commands, output, wording and times are left out.
- The executor: each probe has a thread. Probes of hung mounts that timed out keep theirs
  until the mount is gone.
- A blocking call that another coroutine makes between two that the model has: `usage` is
  that of one mount, and a page asks for all.
- Notifications: which webhook is queued last is state of `MountMonitor`; their
  delivery, and the order it takes, belongs to the HTTP client.
- Configuration: hand edits are assumed to be valid configurations (a broken file
  is `Broken`). Names, servers and hosts are assumed free of quotes and backslashes, and
  no text to contain a newline, which could add lines of its own. A file cut short inside
  a table that can still be read (at the end of a line) is left out, as are
  the copy `config.bak`, which nothing reads, and the restore in `load`, whose backup
  nothing writes (finding 14). Temporary files a crash leaves,
  which nothing reads; a `--config` path that does not exist; command-line overrides,
  which the next save makes permanent; the `[api]` section and ports.
- Hosts: the remote strings of jobs keep the old server when a host changes its
  own; the model keeps them as they are, since no property depends on them.
- HTTP API: the API key, SSH key files, directory browsing, status pages and
  fragments, the log buffer. They read state, or act on files no other part uses.
- Daemon: the PID file, logging, the polling interval of the reload watcher.
- Metrics, dashboard, command line: formatting and presentation; no state.

## 7. What could be added

1. `MountMonitor` with `stop` (a cancellation at every `await`) and with changes of
   `max_retries` by settings and reload, which `BackoffIffExhausted` would have to
   be restated for.
2. `SyncManager` with a `PUT` of the targets between two targets of a run, and
   with the processes that were given up on, beside which the next run copies.
3. `ControlPlane` composed with `MountMonitor`: a reload while a check is in
   flight. `MountMonitor` has the deletions and additions a reload makes, not the
   change of the object behind a name.
4. `_migrate_to_hosts` against a reference definition: the server each job reaches
   before and after, for files in which no two users of one server meet (finding 13).
5. The order in which webhooks are delivered.
