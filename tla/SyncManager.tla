----------------------------- MODULE SyncManager -----------------------------
(***************************************************************************)
(* Scheduled directory syncs: SyncManager, SyncState and SyncConfig of     *)
(* sync.py, the rsync, lsyncd or rclone process of each target, and the    *)
(* handlers of /api/syncs.                                                 *)
(*                                                                         *)
(* One loop gathers the jobs that are due and sleeps only when all of them *)
(* are over; a job copies to its targets one after the other.  _run_job is *)
(* split where it awaits a process.  Its lock is never contended, because  *)
(* the loop is its only caller, and is not modelled apart from that.       *)
(***************************************************************************)
EXTENDS Naturals

CONSTANTS
    Jobs,        \* SyncState objects; a deleted and re-added job is a new one
    Names,       \* the names jobs may be given
    Name,        \* the name each job is configured with at first
    Configured,  \* the jobs of the configuration file at start
    Targets,     \* how many targets a job has: its primary and additional ones
    MaxRetries,  \* max_retries of the DaemonConfig given to the constructor
    Hangs,       \* whether a process may keep its output open, or live on, for ever
    MaxFailures, \* bound on the copies of a behaviour that fail or hang
    MaxRequests  \* bound on the number of HTTP requests of a behaviour

ASSUME ConstantsAssumption ==
    /\ Name \in [Jobs -> Names]
    /\ Configured \subseteq Jobs
    /\ \A j, k \in Configured : Name[j] = Name[k] => j = k
    /\ Targets \in Nat \ {0}
    /\ MaxRetries \in Nat
    /\ Hangs \in BOOLEAN
    /\ MaxFailures \in Nat
    /\ MaxRequests \in Nat

VARIABLES
    life,      \* "new", "listed" in SyncManager.states, or "gone" after a delete
    name,      \* config.name, the key of the job in SyncManager.states
    enabled,   \* config.enabled
    status,    \* SyncState.status
    fails,     \* fail_count, saturated at MaxRetries: the code only compares it
    next,      \* _next_run: "due", or the wait for an "interval" or a "backoff"
    job,       \* per job: its _run_job coroutine
    loop,      \* SyncManager._loop: "sleep" or inside "gather"
    asked,     \* history: triggered, and no run has started since
    copied,    \* history: targets copied by the last run so far
    failures, requests    \* how much of MaxFailures and MaxRequests is used

confvars == <<life, name, enabled>>
statvars == <<status, fails, next>>
histvars == <<asked, copied>>
vars == <<confvars, statvars, job, loop, histvars, failures, requests>>

States == {j \in Jobs : life[j] = "listed"}

\* The locals of _run_job: at is the index of the target being copied, proc what its
\* process has done so far, failed whether a target of this run has failed.
Idle == [pc |-> "idle", at |-> 1, proc |-> "run", failed |-> FALSE]

Is(j, label) == job[j].pc = label

Request ==
    /\ requests < MaxRequests
    /\ requests' = requests + 1

Failure ==
    /\ failures < MaxFailures
    /\ failures' = failures + 1

\* start() staggers the first runs of the configured jobs over the first seconds.
Init ==
    /\ life = [j \in Jobs |-> IF j \in Configured THEN "listed" ELSE "new"]
    /\ name = Name
    /\ enabled \in [Jobs -> BOOLEAN]
    /\ \A j \in Jobs \ Configured : enabled[j]
    /\ status = [j \in Jobs |-> "idle"]
    /\ fails = [j \in Jobs |-> 0]
    /\ next = [j \in Jobs |-> IF j \in Configured THEN "interval" ELSE "due"]
    /\ job = [j \in Jobs |-> Idle]
    /\ loop = "sleep"
    /\ asked = [j \in Jobs |-> FALSE]
    /\ copied = [j \in Jobs |-> {}]
    /\ failures = 0
    /\ requests = 0

-----------------------------------------------------------------------------
(* SyncManager._loop                                                       *)

Due(j) == j \in States /\ enabled[j] /\ next[j] = "due"

LoopWakes ==
    /\ loop = "sleep"
    /\ \E j \in Jobs : Due(j)
    /\ loop' = "gather"
    /\ job' = [j \in Jobs |-> IF Due(j) THEN [Idle EXCEPT !.pc = "queued"] ELSE job[j]]
    /\ UNCHANGED <<confvars, statvars, histvars, failures, requests>>

\* Mutant: a loop that starts the jobs and does not wait for them.
GatherReturnsEarly ==
    /\ loop = "gather"
    /\ loop' = "sleep"
    /\ UNCHANGED <<confvars, statvars, job, histvars, failures, requests>>

GatherReturns ==
    /\ loop = "gather"
    /\ \A j \in Jobs : Is(j, "idle")
    /\ loop' = "sleep"
    /\ UNCHANGED <<confvars, statvars, job, histvars, failures, requests>>

-----------------------------------------------------------------------------
(* SyncManager._run_job and _sync_single_target                            *)

Launch(j, run) == job' = [job EXCEPT ![j] = [run EXCEPT !.pc = "copy", !.proc = "run"]]

JobStarts(j) ==
    /\ Is(j, "queued")
    /\ status' = [status EXCEPT ![j] = "running"]
    /\ Launch(j, Idle)
    /\ asked' = [asked EXCEPT ![j] = FALSE]
    /\ copied' = [copied EXCEPT ![j] = {}]
    /\ UNCHANGED <<confvars, fails, next, loop, failures, requests>>

\* The process closes its output and ends, with exit 0 or 24 ("ok") or not, at once
\* or after lingering.  A tool that cannot be launched is a copy that fails at once.
CopyExits(j) ==
    /\ Is(j, "copy")
    /\ job[j].proc \in {"run", "lingers"}
    /\ \/ job' = [job EXCEPT ![j].proc = "ok"] /\ UNCHANGED failures
       \/ job' = [job EXCEPT ![j].proc = "fail"] /\ Failure
    /\ UNCHANGED <<confvars, statvars, loop, histvars, requests>>

\* Mutant: the result of the last target decides.
LastTargetFailed(j, thisFailed) == thisFailed

AnyTargetFailed(j, thisFailed) == job[j].failed \/ thisFailed

OneMoreFail(j) == IF fails[j] < MaxRetries THEN fails[j] + 1 ELSE MaxRetries

JobEnds(j, failed) ==
    /\ job' = [job EXCEPT ![j] = Idle]
    /\ status' = [status EXCEPT ![j] = IF failed THEN "failed" ELSE "ok"]
    /\ fails' = [fails EXCEPT ![j] = IF failed THEN OneMoreFail(j) ELSE 0]
    /\ next' = [next EXCEPT ![j] =
                  IF failed /\ OneMoreFail(j) = MaxRetries THEN "backoff" ELSE "interval"]

\* Mutant: one target too many.
OneTargetTooMany(j, thisFailed) ==
    IF job[j].at <= Targets
    THEN /\ Launch(j, [job[j] EXCEPT !.at = @ + 1, !.failed = AnyTargetFailed(j, thisFailed)])
         /\ UNCHANGED statvars
    ELSE JobEnds(j, AnyTargetFailed(j, thisFailed))

TargetOver(j, thisFailed) ==
    LET failed == AnyTargetFailed(j, thisFailed) IN
    IF job[j].at < Targets
    THEN /\ Launch(j, [job[j] EXCEPT !.at = @ + 1, !.failed = failed])
         /\ UNCHANGED statvars
    ELSE JobEnds(j, failed)

CopyReturns(j) ==
    /\ Is(j, "copy")
    /\ \/ /\ job[j].proc = "ok"
          /\ copied' = [copied EXCEPT ![j] = @ \cup {job[j].at}]
          /\ TargetOver(j, FALSE)
       \/ /\ job[j].proc = "fail"
          /\ TargetOver(j, TRUE)
          /\ UNCHANGED copied
    /\ UNCHANGED <<confvars, loop, asked, failures, requests>>

\* Mutant: no timeout around the drains.
CopyNeverTimesOut(j) == FALSE /\ UNCHANGED <<j, vars>>

\* wait_for gives up on the drains; the process goes on, unread and unkilled.  The
\* wait for the exit, after the drains, has no timeout.
CopyTimesOut(j) ==
    /\ Is(j, "copy")
    /\ job[j].proc = "hung"
    /\ TargetOver(j, TRUE)
    /\ UNCHANGED <<confvars, loop, histvars, failures, requests>>

-----------------------------------------------------------------------------
(* The HTTP handlers; none suspends.                                       *)

ApiTrigger(j) ==
    /\ Request
    /\ j \in States
    /\ next' = [next EXCEPT ![j] = "due"]
    /\ asked' = [asked EXCEPT ![j] = TRUE]
    /\ UNCHANGED <<confvars, status, fails, job, loop, copied, failures>>

ApiSetEnabled(j, on) ==
    /\ Request
    /\ j \in States
    /\ enabled' = [enabled EXCEPT ![j] = on]
    /\ UNCHANGED <<life, name, statvars, job, loop, histvars, failures>>

\* PUT.  A taken name is refused with 409, but after the other fields, of which
\* only enabled matters here, are assigned.
ApiUpdate(j, on, n) ==
    /\ Request
    /\ j \in States
    /\ enabled' = [enabled EXCEPT ![j] = on]
    /\ name' = IF \E k \in States : name[k] = n THEN name ELSE [name EXCEPT ![j] = n]
    /\ UNCHANGED <<life, statvars, job, loop, histvars, failures>>

ApiDelete(j) ==
    /\ Request
    /\ j \in States
    /\ life' = [life EXCEPT ![j] = "gone"]
    /\ UNCHANGED <<name, enabled, statvars, job, loop, histvars, failures>>

ApiAdd(j, on) ==
    /\ Request
    /\ life[j] = "new"
    /\ \A k \in States : name[k] # name[j]
    /\ life' = [life EXCEPT ![j] = "listed"]
    /\ enabled' = [enabled EXCEPT ![j] = on]
    /\ UNCHANGED <<name, statvars, job, loop, histvars, failures>>

-----------------------------------------------------------------------------
(* The environment: the clock, and processes that hang.                    *)

TimeComes(j) ==
    /\ next[j] # "due"
    /\ next' = [next EXCEPT ![j] = "due"]
    /\ UNCHANGED <<confvars, status, fails, job, loop, histvars, failures, requests>>

\* A process keeps its output open for longer than the timeout ("hung"), or closes
\* it and does not exit ("lingers").
CopyHangs(j) ==
    /\ Hangs
    /\ Is(j, "copy")
    /\ job[j].proc = "run"
    /\ \E how \in {"hung", "lingers"} : job' = [job EXCEPT ![j].proc = how]
    /\ Failure
    /\ UNCHANGED <<confvars, statvars, loop, histvars, requests>>

-----------------------------------------------------------------------------
JobStep(j) == JobStarts(j) \/ CopyExits(j) \/ CopyReturns(j) \/ CopyTimesOut(j)

Arrivals(j) ==
    \/ ApiTrigger(j)
    \/ ApiDelete(j)
    \/ \E on \in BOOLEAN : ApiSetEnabled(j, on) \/ ApiAdd(j, on)
    \/ \E on \in BOOLEAN, n \in Names : ApiUpdate(j, on, n)

Next ==
    \/ LoopWakes
    \/ GatherReturns
    \/ \E j \in Jobs : JobStep(j) \/ Arrivals(j) \/ TimeComes(j) \/ CopyHangs(j)

\* The event loop runs what is ready, a process whose output is read ends or is given
\* up on, and time passes.  Not owed are requests, failures, and the exit of a process
\* that has closed its output.
Fairness ==
    /\ WF_vars(LoopWakes)
    /\ WF_vars(GatherReturns)
    /\ \A j \in Jobs : WF_vars(job[j].proc # "lingers" /\ JobStep(j)) /\ WF_vars(TimeComes(j))

Spec == Init /\ [][Next]_vars
FairSpec == Spec /\ Fairness

-----------------------------------------------------------------------------
JobTypes == [pc : {"idle", "queued", "copy"}, at : 1..Targets,
             proc : {"run", "ok", "fail", "hung", "lingers"}, failed : BOOLEAN]

\* Every variable keeps its type; a run never goes past its last target.
TypeOK ==
    /\ life \in [Jobs -> {"new", "listed", "gone"}]
    /\ name \in [Jobs -> Names]
    /\ enabled \in [Jobs -> BOOLEAN]
    /\ status \in [Jobs -> {"idle", "running", "ok", "failed"}]
    /\ fails \in [Jobs -> 0..MaxRetries]
    /\ next \in [Jobs -> {"due", "interval", "backoff"}]
    /\ job \in [Jobs -> JobTypes]
    /\ loop \in {"sleep", "gather"}
    /\ asked \in [Jobs -> BOOLEAN]
    /\ copied \in [Jobs -> SUBSET (1..Targets)]
    /\ failures \in 0..MaxFailures
    /\ requests \in 0..MaxRequests

\* A run begins only when no run of any job is in flight: a job that is deleted or
\* renamed while it runs, and re-added, is not run by two coroutines at a time.
RunsDoNotOverlap ==
    [][\A j, k \in Jobs : Is(j, "idle") /\ ~Is(j, "idle")' => Is(k, "idle")]_vars

\* A job shown OK copied every one of its targets in its last run, and one shown
\* FAILED missed at least one: a later target cannot hide an earlier failure.
VerdictCoversAllTargets ==
    \A j \in Jobs :
        /\ status[j] = "ok" => copied[j] = 1..Targets
        /\ status[j] = "failed" => copied[j] # 1..Targets

\* No process that closed its output lives on for ever: what the daemon relies on.
ExitsInTheEnd == \A j \in Jobs : []<>(job[j].proc # "lingers")

\* No job that is due is starved: however long the other jobs of the gather copy, or
\* keep their output open, it runs (or is disabled or deleted before).
DueJobRuns == ExitsInTheEnd => \A j \in Jobs : Due(j) ~> Is(j, "copy") \/ ~Due(j)

(* Promises of the documentation that the code does not keep *)

\* docs/api.md: a trigger runs the job immediately.  So from the trigger to the
\* start of a run the job must stay due.
TriggerIsHonoured == \A j \in Jobs : asked[j] => next[j] = "due"

\* docs/architecture.md: "All sync runs have a 1-hour timeout", so every run ends.
RunsEnd == \A j \in Jobs : ~Is(j, "idle") ~> Is(j, "idle")

=============================================================================
