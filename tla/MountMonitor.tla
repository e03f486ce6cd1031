---------------------------- MODULE MountMonitor ----------------------------
(***************************************************************************)
(* The mount keeper: Monitor (monitor.py) with the operations of mount.py  *)
(* it awaits, and the HTTP handlers of api.py that share its MountStates.  *)
(*                                                                         *)
(* Everything runs on one asyncio event loop, so a step of the model is    *)
(* the code between two suspension points.  A coroutine that suspends      *)
(* (statvfs in the executor, a subprocess, asyncio.sleep) is split there,  *)
(* and what it read before the await is kept in its task record.  Two      *)
(* calls touch a mount without leaving the loop (the mkdir of a mount      *)
(* point, the usage figures of a snapshot): on a mount that hangs they     *)
(* block the loop, and with it every other step of the daemon.             *)
(***************************************************************************)
EXTENDS Naturals

CONSTANTS
    Mounts,       \* MountState objects; a deleted and re-added mount is a new object
    Names,        \* the names mounts may be given
    Name,         \* the name each mount is configured with at first
    Home,         \* the local path each mount is configured with at first
    Clients,      \* concurrent HTTP requests on one mount
    Checker,      \* the actor that is the monitor's own _check_one
    Paths,        \* local mount points
    AutofsPaths,  \* those that an autofs entry of /proc/mounts covers
    Configured,   \* the mounts of the configuration file at start
    MaxRetries,   \* daemon.max_retries
    Faults,       \* kinds of environment fault that may occur
    Edits,        \* kinds of configuration request that may arrive
    MaxFaults,    \* bound on the number of faults of a behaviour
    MaxRequests   \* bound on the number of HTTP requests of a behaviour

\* The sshfs process dies, its server hangs, a mount vanishes; a process exits
\* with an error or outlives its timeout; mkdir or a launch raises.
FaultKinds == {"die", "stall", "vanish", "exit", "hang", "raise"}
EditKinds  == {"enable", "move", "delete", "add"}

ASSUME ConstantsAssumption ==
    /\ Name \in [Mounts -> Names]
    /\ Home \in [Mounts -> Paths]
    /\ Checker \notin Clients
    /\ AutofsPaths \subseteq Paths
    /\ Configured \subseteq Mounts
    /\ \A m, n \in Configured : Name[m] = Name[n] => m = n
    /\ MaxRetries \in Nat
    /\ Faults \subseteq FaultKinds
    /\ Edits \subseteq EditKinds
    /\ MaxFaults \in Nat
    /\ MaxRequests \in Nat

Actors   == Clients \cup {Checker}
Statuses == {"healthy", "unmounted", "stale", "mounting", "disabled", "error"}
PCs      == {"idle", "queued", "probe", "umount", "delay", "mkdir", "mount", "usage"}

\* Of a mount in /proc/mounts: "dead" answers every call with an error, "hung"
\* does not answer until its server comes back or the connection is given up.
KernelStates == {"none", "live", "dead", "hung"}

VARIABLES
    life,     \* "new", "listed" in Monitor.states, or "gone" after a delete
    name,     \* config.name, the key of the mount in Monitor.states
    enabled,  \* config.enabled
    local,    \* config.local
    status,   \* MountState.status
    retry,    \* retry_count, saturated at MaxRetries: the code only compares it
    backoff,  \* backoff_until against the clock: "clear" (0.0), "running", "elapsed"
    task,     \* per mount and actor: the coroutine working on that mount
    loop,     \* Monitor._loop: "sleep" or inside the gather of a "round"
    kernel,   \* per path: "none" (not in /proc/mounts), "live", "dead" or "hung"
    orphans,  \* subprocesses whose await timed out; nothing kills them
    shown,    \* the last SSE event about each mount
    told,     \* the last failure or recovery webhook queued for each mount
    outcome,  \* history: how the last _remount begun or ended on each mount stands
    faults, requests    \* how much of MaxFaults and MaxRequests is used

confvars == <<life, name, enabled, local>>
statvars == <<status, retry, backoff>>
newsvars == <<shown, told, outcome>>
worldvars == <<kernel, orphans>>
vars == <<confvars, statvars, task, loop, worldvars, newsvars, faults, requests>>

States == {m \in Mounts : life[m] = "listed"}

\* A task that is not running; the fields are the coroutine's locals.
\* proc is what the awaited thread or process has done so far.
Idle(m) == [pc |-> "idle", path |-> Home[m], proc |-> "run",
            prev |-> "unmounted", late |-> FALSE]

At(m, a, label) == task[m][a].pc = label

Become(m, a, t) == task' = [task EXCEPT ![m][a] = t]

\* No coroutine is inside a call that blocks the event loop.
Responsive == \A m \in Mounts, a \in Actors : ~At(m, a, "mkdir") /\ ~At(m, a, "usage")

Fault(kind) ==
    /\ kind \in Faults
    /\ faults < MaxFaults
    /\ faults' = faults + 1

Request ==
    /\ requests < MaxRequests
    /\ requests' = requests + 1

\* Mutants: a success makes up for one failure only; a reset that forgets
\* backoff_until.
ClearOneFailure(m) ==
    /\ retry' = [retry EXCEPT ![m] = @ - 1]
    /\ backoff' = [backoff EXCEPT ![m] = "clear"]
ClearRetryOnly(m) ==
    /\ retry' = [retry EXCEPT ![m] = 0]
    /\ UNCHANGED backoff

ClearFailures(m) ==
    /\ retry' = [retry EXCEPT ![m] = 0]
    /\ backoff' = [backoff EXCEPT ![m] = "clear"]

\* Mutant: errors raise no event.
EmitHealthyOnly(m, event) ==
    shown' = IF event = "healthy" THEN [shown EXCEPT ![m] = event] ELSE shown

Emit(m, event) == shown' = [shown EXCEPT ![m] = event]

Init ==
    /\ life = [m \in Mounts |-> IF m \in Configured THEN "listed" ELSE "new"]
    /\ name = Name
    /\ enabled \in [Mounts -> BOOLEAN]
    /\ \A m \in Mounts \ Configured : enabled[m]
    /\ local = Home
    /\ status = [m \in Mounts |-> "unmounted"]
    /\ retry = [m \in Mounts |-> 0]
    /\ backoff = [m \in Mounts |-> "clear"]
    /\ task = [m \in Mounts |-> [a \in Actors |-> Idle(m)]]
    /\ loop = "sleep"
    /\ kernel \in [Paths -> {"none", "live"}]
    /\ orphans = {}
    /\ shown = [m \in Mounts |-> "none"]
    /\ told = [m \in Mounts |-> "none"]
    /\ outcome = [m \in Mounts |-> "none"]
    /\ faults = 0
    /\ requests = 0

-----------------------------------------------------------------------------
(* Monitor._loop and _check_all: the next round waits for every check of   *)
(* this one (gather), and takes the mounts listed at that moment.          *)

StartRound ==
    /\ Responsive
    /\ loop = "sleep"
    /\ loop' = "round"
    /\ task' = [m \in Mounts |->
                  IF m \in States
                  THEN [task[m] EXCEPT ![Checker] = [Idle(m) EXCEPT !.pc = "queued"]]
                  ELSE task[m]]
    /\ UNCHANGED <<confvars, statvars, worldvars, newsvars, faults, requests>>

\* Mutant: a loop that does not wait for the gather.
RoundEndsEarly ==
    /\ Responsive
    /\ loop = "round"
    /\ loop' = "sleep"
    /\ UNCHANGED <<confvars, statvars, task, worldvars, newsvars, faults, requests>>

RoundEnds ==
    /\ Responsive
    /\ loop = "round"
    /\ \A m \in Mounts : At(m, Checker, "idle")
    /\ loop' = "sleep"
    /\ UNCHANGED <<confvars, statvars, task, worldvars, newsvars, faults, requests>>

-----------------------------------------------------------------------------
(* Monitor._check_one                                                      *)

CheckDisabled(m) ==
    /\ At(m, Checker, "queued")
    /\ ~enabled[m]
    /\ status' = [status EXCEPT ![m] = "disabled"]
    /\ Become(m, Checker, Idle(m))
    /\ UNCHANGED <<confvars, retry, backoff, loop, worldvars, newsvars, faults, requests>>

CheckAutofs(m) ==
    /\ At(m, Checker, "queued")
    /\ enabled[m]
    /\ local[m] \in AutofsPaths
    /\ status' = [status EXCEPT ![m] = "healthy"]
    /\ Become(m, Checker, Idle(m))
    /\ UNCHANGED <<confvars, retry, backoff, loop, worldvars, newsvars, faults, requests>>

\* now < backoff_until, where now was read when the check began: a backoff set
\* since then is always ahead of it, one that had already elapsed never is.
\* Mutants: the comparison the wrong way round; a deadline taken as a flag.
InElapsedBackoff(m, late) == backoff[m] = "elapsed" /\ late
BackedOffForGood(m, late) == backoff[m] # "clear"

InBackoff(m, late) ==
    \/ backoff[m] = "running"
    \/ backoff[m] = "elapsed" /\ ~late

DelayUnlessBackoff(m, late) ==
    Become(m, Checker,
           IF InBackoff(m, late) THEN Idle(m) ELSE [Idle(m) EXCEPT !.pc = "delay"])

\* Mutant: a check leaves a mount that is MOUNTING alone.
SkipMounting(m) ==
    /\ At(m, Checker, "queued")
    /\ enabled[m]
    /\ local[m] \notin AutofsPaths
    /\ kernel[local[m]] = "none"
    /\ IF status[m] = "mounting"
       THEN Become(m, Checker, Idle(m)) /\ UNCHANGED status
       ELSE /\ status' = [status EXCEPT ![m] = "unmounted"]
            /\ DelayUnlessBackoff(m, backoff[m] = "elapsed")
    /\ UNCHANGED <<confvars, retry, backoff, loop, worldvars, newsvars, faults, requests>>

\* is_healthy answers at once when the path is not in /proc/mounts, and the
\* second look at /proc/mounts happens in the same step.
CheckUnlisted(m) ==
    /\ At(m, Checker, "queued")
    /\ enabled[m]
    /\ local[m] \notin AutofsPaths
    /\ kernel[local[m]] = "none"
    /\ status' = [status EXCEPT ![m] = "unmounted"]
    /\ DelayUnlessBackoff(m, backoff[m] = "elapsed")
    /\ UNCHANGED <<confvars, retry, backoff, loop, worldvars, newsvars, faults, requests>>

CheckListed(m) ==
    /\ At(m, Checker, "queued")
    /\ enabled[m]
    /\ local[m] \notin AutofsPaths
    /\ kernel[local[m]] # "none"
    /\ Become(m, Checker, [Idle(m) EXCEPT !.pc = "probe", !.path = local[m],
                                          !.prev = status[m], !.late = backoff[m] = "elapsed"])
    /\ UNCHANGED <<confvars, statvars, loop, worldvars, newsvars, faults, requests>>

\* Mutant: a probe of a mount that hangs without PROBE_TIMEOUT.
ProbeWaits(m) ==
    LET t == task[m][Checker] IN
    /\ At(m, Checker, "probe")
    /\ t.proc = "run"
    /\ kernel[t.path] # "hung"
    /\ Become(m, Checker, [t EXCEPT !.proc = "ok"])
    /\ UNCHANGED <<confvars, statvars, loop, worldvars, newsvars, faults, requests>>

\* statvfs in the executor.  A path nothing is mounted on answers too (the plain
\* directory does), a dead one with an error; one that hangs, or is slow ("hang"),
\* runs into PROBE_TIMEOUT.
ProbeAnswers(m) ==
    LET t == task[m][Checker] IN
    /\ At(m, Checker, "probe")
    /\ t.proc = "run"
    /\ \/ /\ Become(m, Checker, [t EXCEPT !.proc = IF kernel[t.path] \in {"none", "live"} THEN "ok" ELSE "fail"])
          /\ UNCHANGED faults
       \/ kernel[t.path] = "live" /\ Become(m, Checker, [t EXCEPT !.proc = "fail"]) /\ Fault("hang")
    /\ UNCHANGED <<confvars, statvars, loop, worldvars, newsvars, requests>>

ProbedHealthy(m) ==
    LET t == task[m][Checker] IN
    /\ At(m, Checker, "probe")
    /\ t.proc = "ok"
    /\ status' = [status EXCEPT ![m] = "healthy"]
    /\ ClearFailures(m)
    /\ IF t.prev = "healthy" THEN UNCHANGED shown ELSE Emit(m, "healthy")
    /\ Become(m, Checker, Idle(m))
    /\ UNCHANGED <<confvars, loop, worldvars, told, outcome, faults, requests>>

\* config.local is read again after the await.
ProbedStale(m) ==
    LET t == task[m][Checker] IN
    /\ At(m, Checker, "probe")
    /\ t.proc = "fail"
    /\ kernel[local[m]] # "none"
    /\ status' = [status EXCEPT ![m] = "stale"]
    /\ Become(m, Checker, [t EXCEPT !.pc = "umount", !.path = local[m], !.proc = "run"])
    /\ UNCHANGED <<confvars, retry, backoff, loop, worldvars, newsvars, faults, requests>>

ProbedUnlisted(m) ==
    LET t == task[m][Checker] IN
    /\ At(m, Checker, "probe")
    /\ t.proc = "fail"
    /\ kernel[local[m]] = "none"
    /\ status' = [status EXCEPT ![m] = "unmounted"]
    /\ DelayUnlessBackoff(m, t.late)
    /\ UNCHANGED <<confvars, retry, backoff, loop, worldvars, newsvars, faults, requests>>

-----------------------------------------------------------------------------
(* mount.unmount: two fusermount candidates; one that outlives its 15 s    *)
(* timeout is left running.                                                *)

Leaves(op, p) == orphans' = orphans \cup {[op |-> op, path |-> p]}

UnmountRuns(m, a) ==
    LET t == task[m][a]
        mounted == kernel[t.path] # "none"
        unmounts == kernel' = [kernel EXCEPT ![t.path] = "none"] IN
    /\ At(m, a, "umount")
    /\ t.proc = "run"
    /\ Become(m, a, [t EXCEPT !.proc = "ok"])
    /\ \/ mounted /\ unmounts /\ UNCHANGED <<orphans, faults>>
       \/ mounted /\ unmounts /\ Fault("hang") /\ Leaves("umount", t.path)
       \/ ~mounted /\ UNCHANGED <<kernel, orphans, faults>>
       \/ mounted /\ Fault("exit") /\ UNCHANGED <<kernel, orphans>>
       \/ Fault("hang") /\ Leaves("umount", t.path) /\ UNCHANGED kernel
    /\ UNCHANGED <<confvars, statvars, loop, newsvars, requests>>

\* Neither caller looks at what unmount returned before it goes on.
CheckUnmounted(m) ==
    LET t == task[m][Checker] IN
    /\ At(m, Checker, "umount")
    /\ t.proc = "ok"
    /\ DelayUnlessBackoff(m, t.late)
    /\ UNCHANGED <<confvars, statvars, loop, worldvars, newsvars, faults, requests>>

ApiUnmounted(m, c) ==
    /\ Responsive
    /\ At(m, c, "umount")
    /\ task[m][c].proc = "ok"
    /\ Become(m, c, Idle(m))
    /\ UNCHANGED <<confvars, statvars, loop, worldvars, newsvars, faults, requests>>

-----------------------------------------------------------------------------
(* Monitor._remount, entered from the check after remount_delay and from   *)
(* trigger_remount.                                                        *)

\* mkdir(exist_ok=True) looks whether a mount point that exists is a directory.
\* On a dead mount that raises, as do a missing permission and, a little later, a
\* tool that cannot be launched: mount() catches none of it, and the coroutine
\* ends with the status at MOUNTING.  On a hung mount the call blocks the event
\* loop, unless sshfs still has the answer in its cache.
Remount(m, a) ==
    LET goes(label) ==
          /\ Become(m, a, [Idle(m) EXCEPT !.pc = label, !.path = local[m]])
          /\ outcome' = [outcome EXCEPT ![m] = "none"]
          /\ UNCHANGED faults
    IN
    /\ status' = [status EXCEPT ![m] = "mounting"]
    /\ \/ kernel[local[m]] # "dead" /\ goes("mount")
       \/ kernel[local[m]] = "hung" /\ goes("mkdir")
       \/ /\ IF kernel[local[m]] = "dead" THEN UNCHANGED faults ELSE Fault("raise")
          /\ Become(m, a, Idle(m))
          /\ outcome' = [outcome EXCEPT ![m] = "raised"]

\* The server answered after all, or the connection was given up.
MkdirReturns(m, a) ==
    /\ At(m, a, "mkdir")
    /\ \/ Become(m, a, [task[m][a] EXCEPT !.pc = "mount"]) /\ UNCHANGED outcome
       \/ Become(m, a, Idle(m)) /\ outcome' = [outcome EXCEPT ![m] = "raised"]
    /\ UNCHANGED <<confvars, statvars, loop, worldvars, shown, told, faults, requests>>

DelayEnds(m) ==
    /\ At(m, Checker, "delay")
    /\ Remount(m, Checker)
    /\ UNCHANGED <<confvars, retry, backoff, loop, worldvars, shown, told, requests>>

\* The sshfs or rclone process: it mounts and exits 0, exits with an error, or
\* outlives the 30 s timeout unkilled.  A mount point that died or hung since the
\* mkdir lets no process succeed, and one that hangs may hold it up.
MountRuns(m, a) ==
    LET t == task[m][a]
        ends(how) == Become(m, a, [t EXCEPT !.proc = how]) IN
    /\ At(m, a, "mount")
    /\ t.proc = "run"
    /\ \/ /\ kernel[t.path] \in {"none", "live"}
          /\ kernel' = [kernel EXCEPT ![t.path] = "live"]
          /\ ends("ok")
          /\ UNCHANGED <<orphans, faults>>
       \/ kernel[t.path] \in {"dead", "hung"} /\ ends("fail") /\ UNCHANGED <<kernel, orphans, faults>>
       \/ kernel[t.path] = "hung" /\ ends("fail") /\ Leaves("mount", t.path) /\ UNCHANGED <<kernel, faults>>
       \/ Fault("exit") /\ ends("fail") /\ UNCHANGED <<kernel, orphans>>
       \/ Fault("hang") /\ ends("fail") /\ Leaves("mount", t.path) /\ UNCHANGED kernel
    /\ UNCHANGED <<confvars, statvars, loop, newsvars, requests>>

MountSucceeded(m, a) ==
    /\ At(m, a, "mount")
    /\ task[m][a].proc = "ok"
    /\ status' = [status EXCEPT ![m] = "healthy"]
    /\ ClearFailures(m)
    /\ Emit(m, "healthy")
    /\ told' = [told EXCEPT ![m] = "recovery"]
    /\ outcome' = [outcome EXCEPT ![m] = "mounted"]
    /\ Become(m, a, Idle(m))
    /\ UNCHANGED <<confvars, loop, worldvars, faults, requests>>

OneMoreRetry(m) == IF retry[m] < MaxRetries THEN retry[m] + 1 ELSE MaxRetries

\* Mutant: the error path escapes from _remount like an uncaught exception.
MountFailureEscapes(m, a) ==
    /\ At(m, a, "mount")
    /\ task[m][a].proc = "fail"
    /\ Become(m, a, Idle(m))
    /\ UNCHANGED <<confvars, statvars, loop, worldvars, newsvars, faults, requests>>

\* A backoff set now lies ahead of the clock any check in flight has read.
MountFailed(m, a) ==
    LET exhausted == OneMoreRetry(m) = MaxRetries IN
    /\ At(m, a, "mount")
    /\ task[m][a].proc = "fail"
    /\ retry' = [retry EXCEPT ![m] = OneMoreRetry(m)]
    /\ status' = [status EXCEPT ![m] = "error"]
    /\ Emit(m, "error")
    /\ told' = [told EXCEPT ![m] = "failure"]
    /\ outcome' = [outcome EXCEPT ![m] = "failed"]
    /\ backoff' = IF exhausted THEN [backoff EXCEPT ![m] = "running"] ELSE backoff
    /\ task' = [task EXCEPT ![m] = [b \in Actors |->
                  IF b = a THEN Idle(m)
                  ELSE [task[m][b] EXCEPT !.late = @ /\ ~exhausted]]]
    /\ UNCHANGED <<confvars, loop, worldvars, faults, requests>>

-----------------------------------------------------------------------------
(* The HTTP handlers.  Those of the configuration never suspend.           *)

ApiRemount(m, c) ==
    /\ Request
    /\ At(m, c, "idle")
    /\ m \in States
    /\ ClearFailures(m)
    /\ Remount(m, c)
    /\ UNCHANGED <<confvars, loop, worldvars, shown, told>>

\* A page or /api/status: get_snapshot asks the usage of each HEALTHY mount on the
\* event loop.  Only the call that blocks is a step of the model.
ApiStatus(m, c) ==
    /\ Request
    /\ At(m, c, "idle")
    /\ m \in States
    /\ status[m] = "healthy"
    /\ kernel[local[m]] = "hung"
    /\ Become(m, c, [Idle(m) EXCEPT !.pc = "usage", !.path = local[m]])
    /\ UNCHANGED <<confvars, statvars, loop, worldvars, newsvars, faults>>

UsageReturns(m, c) ==
    /\ At(m, c, "usage")
    /\ Become(m, c, Idle(m))
    /\ UNCHANGED <<confvars, statvars, loop, worldvars, newsvars, faults, requests>>

ApiUnmount(m, c) ==
    /\ Request
    /\ At(m, c, "idle")
    /\ m \in States
    /\ Become(m, c, [Idle(m) EXCEPT !.pc = "umount", !.path = local[m]])
    /\ UNCHANGED <<confvars, statvars, loop, worldvars, newsvars, faults>>

ApiSetEnabled(m, on) ==
    /\ Request
    /\ "enable" \in Edits
    /\ m \in States
    /\ enabled' = [enabled EXCEPT ![m] = on]
    /\ UNCHANGED <<life, name, local, statvars, task, loop, worldvars, newsvars, faults>>

\* A taken name is refused with 409, but after the other fields are assigned.
ApiUpdate(m, p, on, n) ==
    /\ Request
    /\ "move" \in Edits
    /\ m \in States
    /\ local' = [local EXCEPT ![m] = p]
    /\ enabled' = [enabled EXCEPT ![m] = on]
    /\ name' = IF \E k \in States : name[k] = n THEN name ELSE [name EXCEPT ![m] = n]
    /\ UNCHANGED <<life, statvars, task, loop, worldvars, newsvars, faults>>

\* Only the dict entry goes: a coroutine that holds the MountState carries on.
ApiDelete(m) ==
    /\ Request
    /\ "delete" \in Edits
    /\ m \in States
    /\ life' = [life EXCEPT ![m] = "gone"]
    /\ UNCHANGED <<name, enabled, local, statvars, task, loop, worldvars, newsvars, faults>>

ApiAdd(m, on) ==
    /\ Request
    /\ "add" \in Edits
    /\ life[m] = "new"
    /\ \A n \in States : name[n] # name[m]
    /\ life' = [life EXCEPT ![m] = "listed"]
    /\ enabled' = [enabled EXCEPT ![m] = on]
    /\ UNCHANGED <<name, local, statvars, task, loop, worldvars, newsvars, faults>>

-----------------------------------------------------------------------------
(* The environment: the clock, the kernel's mounts, the orphans.           *)

BackoffElapses(m) ==
    /\ backoff[m] = "running"
    /\ backoff' = [backoff EXCEPT ![m] = "elapsed"]
    /\ UNCHANGED <<confvars, status, retry, task, loop, worldvars, newsvars, faults, requests>>

KernelChanges(p) ==
    /\ \/ kernel[p] = "live" /\ kernel' = [kernel EXCEPT ![p] = "dead"] /\ Fault("die")
       \/ kernel[p] = "live" /\ kernel' = [kernel EXCEPT ![p] = "hung"] /\ Fault("stall")
       \/ kernel[p] # "none" /\ kernel' = [kernel EXCEPT ![p] = "none"] /\ Fault("vanish")
       \/ kernel[p] = "hung" /\ kernel' = [kernel EXCEPT ![p] = "live"] /\ UNCHANGED faults
       \/ kernel[p] = "hung" /\ kernel' = [kernel EXCEPT ![p] = "dead"] /\ UNCHANGED faults
    /\ UNCHANGED <<confvars, statvars, task, loop, orphans, newsvars, requests>>

OrphanEnds(o) ==
    /\ o \in orphans
    /\ orphans' = orphans \ {o}
    /\ \/ UNCHANGED kernel
       \/ o.op = "umount" /\ kernel' = [kernel EXCEPT ![o.path] = "none"]
       \/ o.op = "mount" /\ kernel[o.path] = "none" /\ kernel' = [kernel EXCEPT ![o.path] = "live"]
    /\ UNCHANGED <<confvars, statvars, task, loop, newsvars, faults, requests>>

-----------------------------------------------------------------------------
Orphans == [op : {"mount", "umount"}, path : Paths]

CheckStep(m) ==
    \/ ProbeAnswers(m)
    \/ /\ Responsive
       /\ \/ CheckDisabled(m) \/ CheckAutofs(m) \/ CheckUnlisted(m) \/ CheckListed(m)
          \/ ProbedHealthy(m) \/ ProbedStale(m) \/ ProbedUnlisted(m)
          \/ CheckUnmounted(m) \/ DelayEnds(m)

RemountStep(m, a) ==
    \/ UnmountRuns(m, a) \/ MountRuns(m, a)
    \/ Responsive /\ (MountSucceeded(m, a) \/ MountFailed(m, a))

Arrivals(m) ==
    /\ Responsive
    /\ \/ \E c \in Clients : ApiRemount(m, c) \/ ApiUnmount(m, c) \/ ApiStatus(m, c)
       \/ \E on \in BOOLEAN : ApiSetEnabled(m, on) \/ ApiAdd(m, on)
       \/ \E p \in Paths, on \in BOOLEAN, n \in Names : ApiUpdate(m, p, on, n)
       \/ ApiDelete(m)

Next ==
    \/ StartRound
    \/ RoundEnds
    \/ \E m \in Mounts : CheckStep(m) \/ Arrivals(m) \/ BackoffElapses(m)
    \/ \E m \in Mounts, a \in Actors : RemountStep(m, a) \/ MkdirReturns(m, a)
    \/ \E m \in Mounts, c \in Clients : ApiUnmounted(m, c) \/ UsageReturns(m, c)
    \/ \E p \in Paths : KernelChanges(p)
    \/ \E o \in Orphans : OrphanEnds(o)

\* A responsive event loop runs what is ready, what is awaited ends or times out,
\* and clocks advance.  Not owed are requests, faults, a server that comes back,
\* the return of a call that blocks the loop, and the end of a process that was
\* given up on.
Fairness ==
    /\ WF_vars(StartRound)
    /\ WF_vars(RoundEnds)
    /\ \A m \in Mounts : WF_vars(CheckStep(m)) /\ WF_vars(BackoffElapses(m))
    /\ \A m \in Mounts, a \in Actors : WF_vars(RemountStep(m, a))
    /\ \A m \in Mounts, c \in Clients : WF_vars(ApiUnmounted(m, c))

Spec == Init /\ [][Next]_vars
FairSpec == Spec /\ Fairness

-----------------------------------------------------------------------------
(* Type correctness *)

TaskTypes == [pc : PCs, path : Paths, proc : {"run", "ok", "fail"},
              prev : Statuses, late : BOOLEAN]

\* Every variable keeps its type; in particular no writer of the retry count
\* takes it below zero.
TypeOK ==
    /\ life \in [Mounts -> {"new", "listed", "gone"}]
    /\ name \in [Mounts -> Names]
    /\ enabled \in [Mounts -> BOOLEAN]
    /\ local \in [Mounts -> Paths]
    /\ status \in [Mounts -> Statuses]
    /\ retry \in [Mounts -> 0..MaxRetries]
    /\ backoff \in [Mounts -> {"clear", "running", "elapsed"}]
    /\ task \in [Mounts -> [Actors -> TaskTypes]]
    /\ loop \in {"sleep", "round"}
    /\ kernel \in [Paths -> KernelStates]
    /\ orphans \subseteq Orphans
    /\ shown \in [Mounts -> {"none", "healthy", "error"}]
    /\ told \in [Mounts -> {"none", "recovery", "failure"}]
    /\ outcome \in [Mounts -> {"none", "mounted", "failed", "raised"}]
    /\ faults \in 0..MaxFaults
    /\ requests \in 0..MaxRequests

(* Safety *)

\* A check begins only when no check of any mount is in flight: two generations
\* of a mount that is deleted and re-added, or renamed, while its check runs never
\* unmount and remount the same path against each other from the monitor.
RoundsDoNotOverlap ==
    [][\A m, n \in Mounts :
          At(m, Checker, "idle") /\ ~At(m, Checker, "idle")' => At(n, Checker, "idle")]_vars

\* A mount has a backoff deadline exactly when it has failed max_retries times
\* since it last succeeded or was remounted by hand, whoever interleaves.
BackoffIffExhausted ==
    \A m \in Mounts :
        /\ backoff[m] # "clear" => retry[m] = MaxRetries
        /\ retry[m] = MaxRetries /\ MaxRetries > 0 => backoff[m] # "clear"

\* A dashboard that only follows the event stream shows every mount in ERROR as
\* failed, even when a check and manual remounts of it finish in any order.
ErrorIsAnnounced ==
    \A m \in Mounts : status[m] = "error" => shown[m] = "error"

InAttempt(m, a) == At(m, a, "mkdir") \/ At(m, a, "mount")

\* A mount shown MOUNTING, which /health counts as fine, is being mounted, or the
\* latest attempt at it raised (the mount point was dead, or the tool could not be
\* launched): overlapping attempts that succeed, fail or time out never leave it.
MountingIsExplained ==
    \A m \in Mounts :
        status[m] = "mounting" => outcome[m] = "raised" \/ \E a \in Actors : InAttempt(m, a)

\* Without manual remounts the monitor never starts an attempt while the
\* mount's backoff is running, however long the check that decided it took.
BackoffHonoured ==
    Clients = {} =>
        \A m \in Mounts : At(m, Checker, "delay") \/ InAttempt(m, Checker)
                            => backoff[m] # "running"

(* Refinement *)

StatusContract == INSTANCE MountStatus WITH
    open <- [m \in Mounts |-> {a \in Actors : InAttempt(m, a)}]

\* What the API, the event stream and the webhooks show of a mount follows
\* MountStatus: each outcome is that of one attempt begun before, reported once.
RefinesMountStatus == StatusContract!Spec

(* Liveness *)

\* What the rest of the daemon may rely on is lost while a call blocks the loop;
\* the following hold as long as no such call lasts for ever.
NoEndlessBlock == []<>Responsive

\* A server that hangs delays the checks of the other mounts and does not stop
\* them: apart from the blocking calls all a check waits for is bounded.
RoundsFinish == NoEndlessBlock => (loop = "round" ~> loop = "sleep")

\* A mount left at MOUNTING by an attempt that raised does not stay there: the
\* next round judges it anew.
MountingPasses ==
    NoEndlessBlock =>
        \A m \in Mounts : status[m] = "mounting" ~> (status[m] # "mounting" \/ m \notin States)

Settled(m) ==
    CASE ~enabled[m]                -> status[m] = "disabled"
      [] local[m] \in AutofsPaths   -> status[m] = "healthy"
      [] OTHER                      -> status[m] = "healthy" /\ kernel[local[m]] = "live"

\* What the keeper is for: once faults and requests stop, every listed mount is
\* in the end really mounted and shown HEALTHY (or DISABLED, if it is), in spite
\* of dead and hung mounts, of attempts that raise, of backoff and of subprocesses
\* that outlived their timeout.
Converges == NoEndlessBlock => <>[](\A m \in States : Settled(m))

(* Promises of the documentation that the code does not keep *)

\* docs/configuration.md: a mount with enabled = false is not remounted.
DisabledIsLeftAlone ==
    [][\A m \in Mounts :
          At(m, Checker, "delay") /\ At(m, Checker, "mount")' => enabled[m]]_vars

\* docs/configuration.md: on_failure is sent when a mount fails to remount.
FailureIsNotified ==
    \A m \in Mounts : outcome[m] \in {"failed", "raised"} => told[m] = "failure"

\* docs/architecture.md: a mount in backoff "stays in ERROR".
BackoffStaysError == \A m \in Mounts : backoff[m] = "running" => status[m] = "error"

\* docs/architecture.md: _emit "is called when status transitions to HEALTHY".
RecoveryIsAnnounced ==
    [][\A m \in Mounts :
          status[m] # "healthy" /\ status'[m] = "healthy" => shown'[m] = "healthy"]_vars

=============================================================================
