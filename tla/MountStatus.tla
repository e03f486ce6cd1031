----------------------------- MODULE MountStatus -----------------------------
(***************************************************************************)
(* What the monitor promises about the part of a mount that others see:    *)
(* its status, retry count and backoff in /api/status, its events and its  *)
(* webhooks.  An outcome (HEALTHY with a recovery, ERROR with a failure)   *)
(* belongs to exactly one remount attempt that was begun before it; all    *)
(* else is a verdict of a check.  Probes, processes and the kernel are     *)
(* abstracted away.                                                        *)
(***************************************************************************)
EXTENDS Naturals

CONSTANTS
    Mounts,      \* the mounts
    Actors,      \* who may attempt to remount one: the monitor and requests
    MaxRetries   \* failures in a row after which a mount is backed off

VARIABLES
    status, retry, backoff,   \* as in MountMonitor
    shown, told,              \* the last event and the last webhook of a mount
    open                      \* per mount: the actors whose attempt is under way

vars == <<status, retry, backoff, shown, told, open>>

Init ==
    /\ status = [m \in Mounts |-> "unmounted"]
    /\ retry = [m \in Mounts |-> 0]
    /\ backoff = [m \in Mounts |-> "clear"]
    /\ shown = [m \in Mounts |-> "none"]
    /\ told = [m \in Mounts |-> "none"]
    /\ open = [m \in Mounts |-> {}]

Cleared(m) ==
    /\ retry' = [retry EXCEPT ![m] = 0]
    /\ backoff' = [backoff EXCEPT ![m] = "clear"]

\* A manual attempt forgives the failures so far.  One that breaks off at once
\* is never open.
Begin(m, a) ==
    /\ status' = [status EXCEPT ![m] = "mounting"]
    /\ a \notin open[m]
    /\ open' = [open EXCEPT ![m] = @ \cup {a}] \/ UNCHANGED open
    /\ Cleared(m) \/ UNCHANGED <<retry, backoff>>
    /\ UNCHANGED <<shown, told>>

Close(m, a) ==
    /\ a \in open[m]
    /\ open' = [open EXCEPT ![m] = @ \ {a}]

\* The attempt raises: no outcome is reported.
BreakOff(m, a) ==
    /\ Close(m, a)
    /\ UNCHANGED <<status, retry, backoff, shown, told>>

Succeed(m, a) ==
    /\ Close(m, a)
    /\ status' = [status EXCEPT ![m] = "healthy"]
    /\ shown' = [shown EXCEPT ![m] = "healthy"]
    /\ told' = [told EXCEPT ![m] = "recovery"]
    /\ Cleared(m)

Fail(m, a) ==
    /\ Close(m, a)
    /\ status' = [status EXCEPT ![m] = "error"]
    /\ shown' = [shown EXCEPT ![m] = "error"]
    /\ told' = [told EXCEPT ![m] = "failure"]
    /\ \/ retry[m] < MaxRetries /\ retry' = [retry EXCEPT ![m] = @ + 1]
       \/ retry[m] = MaxRetries /\ UNCHANGED retry
    /\ IF retry'[m] = MaxRetries
       THEN backoff' = [backoff EXCEPT ![m] = "running"]
       ELSE UNCHANGED backoff

\* A check found the mount disabled or down: no counter, event or webhook.
JudgeDown(m, s) ==
    /\ s \in {"disabled", "unmounted", "stale"}
    /\ status' = [status EXCEPT ![m] = s]
    /\ UNCHANGED <<retry, backoff, shown, told, open>>

\* A check found it up; when autofs keeps it up, the failures stay on record.
JudgeUp(m) ==
    /\ status' = [status EXCEPT ![m] = "healthy"]
    /\ \/ Cleared(m) /\ (shown' = [shown EXCEPT ![m] = "healthy"] \/ UNCHANGED shown)
       \/ UNCHANGED <<retry, backoff, shown>>
    /\ UNCHANGED <<told, open>>

Elapse(m) ==
    /\ backoff[m] = "running"
    /\ backoff' = [backoff EXCEPT ![m] = "elapsed"]
    /\ UNCHANGED <<status, retry, shown, told, open>>

Next ==
    \E m \in Mounts :
        \/ \E a \in Actors : Begin(m, a) \/ BreakOff(m, a) \/ Succeed(m, a) \/ Fail(m, a)
        \/ \E s \in {"disabled", "unmounted", "stale"} : JudgeDown(m, s)
        \/ JudgeUp(m)
        \/ Elapse(m)

Spec == Init /\ [][Next]_vars

=============================================================================
