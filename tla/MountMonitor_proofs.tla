------------------------ MODULE MountMonitor_proofs ------------------------
(***************************************************************************)
(* Proofs about the mount keeper, for any mounts, clients and bounds.      *)
(***************************************************************************)
EXTENDS MountMonitor, TLAPS

-----------------------------------------------------------------------------
(* What the helpers do to the types.                                       *)

\* A coroutine that has finished leaves a well-typed record behind.
LEMMA IdleType ==
    ASSUME NEW m \in Mounts
    PROVE  Idle(m) \in TaskTypes
BY ConstantsAssumption DEF Idle, TaskTypes, PCs, Statuses

\* A coroutine about to run a process on the mount's path is well typed.
LEMMA StartedType ==
    ASSUME TypeOK, NEW m \in Mounts
    PROVE  \A label \in {"mkdir", "mount", "umount", "usage"} :
               [Idle(m) EXCEPT !.pc = label, !.path = local[m]] \in TaskTypes
<1> TAKE label \in {"mkdir", "mount", "umount", "usage"}
<1>1. local[m] \in Paths /\ label \in PCs
  BY DEF TypeOK, PCs
<1> QED
  BY <1>1, IdleType DEF TaskTypes

\* Replacing one task by a well-typed one keeps the type of task.
LEMMA BecomeType ==
    ASSUME TypeOK, NEW m \in Mounts, NEW a \in Actors, NEW t \in TaskTypes,
           Become(m, a, t)
    PROVE  task' \in [Mounts -> [Actors -> TaskTypes]]
BY DEF TypeOK, Become

\* A counted fault stays within its bound.
LEMMA FaultType ==
    ASSUME TypeOK, NEW kind, Fault(kind)
    PROVE  faults' \in 0..MaxFaults
BY ConstantsAssumption DEF TypeOK, Fault

\* A counted request stays within its bound.
LEMMA RequestType ==
    ASSUME TypeOK, Request
    PROVE  requests' \in 0..MaxRequests
BY ConstantsAssumption DEF TypeOK, Request

\* Forgiving the failures of a mount keeps the types of both counters.
LEMMA ClearFailuresType ==
    ASSUME TypeOK, NEW m \in Mounts, ClearFailures(m)
    PROVE  /\ retry' \in [Mounts -> 0..MaxRetries]
           /\ backoff' \in [Mounts -> {"clear", "running", "elapsed"}]
BY ConstantsAssumption DEF TypeOK, ClearFailures

\* An attempt that begins, blocks or raises keeps the types of what it changes.
LEMMA RemountType ==
    ASSUME TypeOK, NEW m \in Mounts, NEW a \in Actors, Remount(m, a)
    PROVE  /\ task' \in [Mounts -> [Actors -> TaskTypes]]
           /\ faults' \in 0..MaxFaults
           /\ status' \in [Mounts -> Statuses]
           /\ outcome' \in [Mounts -> {"none", "mounted", "failed", "raised"}]
<1>1. \A label \in {"mkdir", "mount"} : [Idle(m) EXCEPT !.pc = label, !.path = local[m]] \in TaskTypes
  BY StartedType
<1>2. Idle(m) \in TaskTypes
  BY IdleType
<1>3. task' \in [Mounts -> [Actors -> TaskTypes]]
  BY <1>1, <1>2, BecomeType DEF Remount
<1>4. faults' \in 0..MaxFaults
  BY FaultType DEF Remount, TypeOK
<1>5. status' \in [Mounts -> Statuses]
  BY DEF Remount, TypeOK, Statuses
<1>6. outcome' \in [Mounts -> {"none", "mounted", "failed", "raised"}]
  BY DEF Remount, TypeOK
<1> QED
  BY <1>3, <1>4, <1>5, <1>6

\* The start state is well typed.
LEMMA InitTypeOK == Init => TypeOK
<1> SUFFICES ASSUME Init PROVE TypeOK
  OBVIOUS
<1>1. task \in [Mounts -> [Actors -> TaskTypes]]
  BY IdleType DEF Init
<1>2. orphans \subseteq Orphans
  BY DEF Init
<1> QED
  BY <1>1, <1>2, ConstantsAssumption DEF Init, TypeOK, Statuses, KernelStates

\* A step of the monitor's own check keeps the types.
LEMMA CheckStepTypeOK ==
    ASSUME TypeOK, NEW m \in Mounts, CheckStep(m)
    PROVE  TypeOK'
<1> USE DEF confvars, statvars, newsvars, worldvars
<1> DEFINE t == task[m][Checker]
<1>a. Checker \in Actors /\ t \in TaskTypes /\ Idle(m) \in TaskTypes
  BY IdleType DEF Actors, TypeOK
<1>b. ASSUME NEW late, DelayUnlessBackoff(m, late)
      PROVE  task' \in [Mounts -> [Actors -> TaskTypes]]
  <2> DEFINE next == IF InBackoff(m, late) THEN Idle(m) ELSE [Idle(m) EXCEPT !.pc = "delay"]
  <2>1. next \in TaskTypes
    BY <1>a DEF TaskTypes, PCs
  <2>2. Become(m, Checker, next)
    BY <1>b DEF DelayUnlessBackoff
  <2> QED
    BY <1>a, <2>1, <2>2, BecomeType
<1>1. CASE CheckDisabled(m)
  BY <1>1, <1>a, BecomeType DEF CheckDisabled, TypeOK, Statuses
<1>2. CASE CheckAutofs(m)
  BY <1>2, <1>a, BecomeType DEF CheckAutofs, TypeOK, Statuses
<1>3. CASE CheckUnlisted(m)
  BY <1>3, <1>b DEF CheckUnlisted, TypeOK, Statuses
<1>4. CASE CheckListed(m)
  <2> DEFINE next == [Idle(m) EXCEPT !.pc = "probe", !.path = local[m],
                                     !.prev = status[m], !.late = backoff[m] = "elapsed"]
  <2>1. next \in TaskTypes
    BY <1>a DEF TaskTypes, PCs, TypeOK
  <2>2. task' \in [Mounts -> [Actors -> TaskTypes]]
    BY <1>4, <1>a, <2>1, BecomeType DEF CheckListed
  <2> QED
    BY <1>4, <2>2 DEF CheckListed, TypeOK
<1>5. CASE ProbeAnswers(m)
  <2>1. [t EXCEPT !.proc = "ok"] \in TaskTypes /\ [t EXCEPT !.proc = "fail"] \in TaskTypes
    BY <1>a DEF TaskTypes
  <2>2. task' \in [Mounts -> [Actors -> TaskTypes]]
    BY <1>5, <1>a, <2>1, BecomeType DEF ProbeAnswers
  <2>3. faults' \in 0..MaxFaults
    BY <1>5, FaultType DEF ProbeAnswers, TypeOK
  <2> QED
    BY <1>5, <2>2, <2>3 DEF ProbeAnswers, TypeOK
<1>6. CASE ProbedHealthy(m)
  <2>1. task' \in [Mounts -> [Actors -> TaskTypes]]
    BY <1>6, <1>a, BecomeType DEF ProbedHealthy
  <2>2. retry' \in [Mounts -> 0..MaxRetries] /\ backoff' \in [Mounts -> {"clear", "running", "elapsed"}]
    BY <1>6, ClearFailuresType DEF ProbedHealthy
  <2>3. shown' \in [Mounts -> {"none", "healthy", "error"}]
    BY <1>6 DEF ProbedHealthy, Emit, TypeOK
  <2>4. status' \in [Mounts -> Statuses]
    BY <1>6 DEF ProbedHealthy, TypeOK, Statuses
  <2> QED
    BY <1>6, <2>1, <2>2, <2>3, <2>4 DEF ProbedHealthy, TypeOK
<1>7. CASE ProbedStale(m)
  <2>1. [t EXCEPT !.pc = "umount", !.path = local[m], !.proc = "run"] \in TaskTypes
    BY <1>a DEF TaskTypes, PCs, TypeOK
  <2>2. task' \in [Mounts -> [Actors -> TaskTypes]]
    BY <1>7, <1>a, <2>1, BecomeType DEF ProbedStale
  <2> QED
    BY <1>7, <2>2 DEF ProbedStale, TypeOK, Statuses
<1>8. CASE ProbedUnlisted(m)
  BY <1>8, <1>b DEF ProbedUnlisted, TypeOK, Statuses
<1>9. CASE CheckUnmounted(m)
  BY <1>9, <1>b DEF CheckUnmounted, TypeOK
<1>10. CASE DelayEnds(m)
  <2>1. /\ task' \in [Mounts -> [Actors -> TaskTypes]]
        /\ faults' \in 0..MaxFaults
        /\ status' \in [Mounts -> Statuses]
        /\ outcome' \in [Mounts -> {"none", "mounted", "failed", "raised"}]
    BY <1>10, <1>a, RemountType DEF DelayEnds
  <2> QED
    BY <1>10, <2>1 DEF DelayEnds, TypeOK
<1> QED
  BY <1>1, <1>2, <1>3, <1>4, <1>5, <1>6, <1>7, <1>8, <1>9, <1>10 DEF CheckStep

\* A step of an unmount or of a remount, whoever runs it, keeps the types.
LEMMA RemountStepTypeOK ==
    ASSUME TypeOK, NEW m \in Mounts, NEW a \in Actors, RemountStep(m, a)
    PROVE  TypeOK'
<1> USE DEF confvars, statvars, newsvars, worldvars
<1> DEFINE t == task[m][a]
<1>a. t \in TaskTypes /\ Idle(m) \in TaskTypes
  BY IdleType DEF TypeOK
<1>b. t.path \in Paths
  BY <1>a DEF TaskTypes
<1>c. [t EXCEPT !.proc = "ok"] \in TaskTypes /\ [t EXCEPT !.proc = "fail"] \in TaskTypes
  BY <1>a DEF TaskTypes
<1>d. ASSUME NEW op \in {"mount", "umount"}, Leaves(op, t.path)
      PROVE  orphans' \subseteq Orphans
  BY <1>b, <1>d DEF Leaves, Orphans, TypeOK
<1>1. CASE UnmountRuns(m, a)
  <2>1. task' \in [Mounts -> [Actors -> TaskTypes]]
    BY <1>1, <1>c, BecomeType DEF UnmountRuns
  <2>2. faults' \in 0..MaxFaults
    BY <1>1, FaultType DEF UnmountRuns, TypeOK
  <2>3. orphans' \subseteq Orphans
    BY <1>1, <1>d DEF UnmountRuns, TypeOK
  <2>4. kernel' \in [Paths -> KernelStates]
    BY <1>1, <1>b DEF UnmountRuns, TypeOK, KernelStates
  <2> QED
    BY <1>1, <2>1, <2>2, <2>3, <2>4 DEF UnmountRuns, TypeOK
<1>2. CASE MountRuns(m, a)
  <2>1. task' \in [Mounts -> [Actors -> TaskTypes]]
    BY <1>2, <1>c, BecomeType DEF MountRuns
  <2>2. faults' \in 0..MaxFaults
    BY <1>2, FaultType DEF MountRuns, TypeOK
  <2>3. orphans' \subseteq Orphans
    BY <1>2, <1>d DEF MountRuns, TypeOK
  <2>4. kernel' \in [Paths -> KernelStates]
    BY <1>2, <1>b DEF MountRuns, TypeOK, KernelStates
  <2> QED
    BY <1>2, <2>1, <2>2, <2>3, <2>4 DEF MountRuns, TypeOK
<1>3. CASE MountSucceeded(m, a)
  <2>1. task' \in [Mounts -> [Actors -> TaskTypes]]
    BY <1>3, <1>a, BecomeType DEF MountSucceeded
  <2>2. retry' \in [Mounts -> 0..MaxRetries] /\ backoff' \in [Mounts -> {"clear", "running", "elapsed"}]
    BY <1>3, ClearFailuresType DEF MountSucceeded
  <2>3. shown' \in [Mounts -> {"none", "healthy", "error"}] /\ status' \in [Mounts -> Statuses]
    BY <1>3 DEF MountSucceeded, Emit, TypeOK, Statuses
  <2>4. told' \in [Mounts -> {"none", "recovery", "failure"}] /\ outcome' \in [Mounts -> {"none", "mounted", "failed", "raised"}]
    BY <1>3 DEF MountSucceeded, TypeOK
  <2> QED
    BY <1>3, <2>1, <2>2, <2>3, <2>4 DEF MountSucceeded, TypeOK
<1>4. CASE MountFailed(m, a)
  <2> DEFINE exhausted == OneMoreRetry(m) = MaxRetries
             next(b) == IF b = a THEN Idle(m) ELSE [task[m][b] EXCEPT !.late = @ /\ ~exhausted]
  <2>1. \A b \in Actors : next(b) \in TaskTypes
    <3> TAKE b \in Actors
    <3>1. task[m][b] \in TaskTypes
      BY DEF TypeOK
    <3>2. (task[m][b].late /\ ~exhausted) \in BOOLEAN
      OBVIOUS
    <3> QED
      BY <1>a, <3>1, <3>2 DEF TaskTypes
  <2>2. task' \in [Mounts -> [Actors -> TaskTypes]]
    <3>1. task' = [task EXCEPT ![m] = [b \in Actors |-> next(b)]]
      BY <1>4 DEF MountFailed
    <3>2. [b \in Actors |-> next(b)] \in [Actors -> TaskTypes]
      BY <2>1
    <3> HIDE DEF next
    <3> QED
      BY <3>1, <3>2 DEF TypeOK
  <2>3. OneMoreRetry(m) \in 0..MaxRetries
    BY ConstantsAssumption DEF OneMoreRetry, TypeOK
  <2>4. retry' \in [Mounts -> 0..MaxRetries] /\ backoff' \in [Mounts -> {"clear", "running", "elapsed"}]
    BY <1>4, <2>3 DEF MountFailed, TypeOK
  <2>5. shown' \in [Mounts -> {"none", "healthy", "error"}] /\ status' \in [Mounts -> Statuses]
    BY <1>4 DEF MountFailed, Emit, TypeOK, Statuses
  <2>6. told' \in [Mounts -> {"none", "recovery", "failure"}] /\ outcome' \in [Mounts -> {"none", "mounted", "failed", "raised"}]
    BY <1>4 DEF MountFailed, TypeOK
  <2> QED
    BY <1>4, <2>2, <2>4, <2>5, <2>6 DEF MountFailed, TypeOK
<1> QED
  BY <1>1, <1>2, <1>3, <1>4 DEF RemountStep

\* An arriving request keeps the types.
LEMMA ArrivalsTypeOK ==
    ASSUME TypeOK, NEW m \in Mounts, Arrivals(m)
    PROVE  TypeOK'
<1> USE DEF confvars, statvars, newsvars, worldvars
<1>a. Request => requests' \in 0..MaxRequests
  BY RequestType
<1>b. \A label \in {"mkdir", "mount", "umount", "usage"} : [Idle(m) EXCEPT !.pc = label, !.path = local[m]] \in TaskTypes
  BY StartedType
<1>1. ASSUME NEW c \in Clients, ApiRemount(m, c)
      PROVE  TypeOK'
  <2>1. /\ task' \in [Mounts -> [Actors -> TaskTypes]]
        /\ faults' \in 0..MaxFaults
        /\ status' \in [Mounts -> Statuses]
        /\ outcome' \in [Mounts -> {"none", "mounted", "failed", "raised"}]
    BY <1>1, RemountType DEF ApiRemount, Actors
  <2>2. retry' \in [Mounts -> 0..MaxRetries] /\ backoff' \in [Mounts -> {"clear", "running", "elapsed"}]
    BY <1>1, ClearFailuresType DEF ApiRemount
  <2> QED
    BY <1>1, <1>a, <2>1, <2>2 DEF ApiRemount, TypeOK
<1>2. ASSUME NEW c \in Clients, ApiUnmount(m, c)
      PROVE  TypeOK'
  <2>1. task' \in [Mounts -> [Actors -> TaskTypes]]
    BY <1>2, <1>b, BecomeType DEF ApiUnmount, Actors
  <2> QED
    BY <1>2, <1>a, <2>1 DEF ApiUnmount, TypeOK
<1>3. ASSUME NEW on \in BOOLEAN, ApiSetEnabled(m, on)
      PROVE  TypeOK'
  BY <1>3, <1>a DEF ApiSetEnabled, TypeOK
<1>4. ASSUME NEW on \in BOOLEAN, ApiAdd(m, on)
      PROVE  TypeOK'
  BY <1>4, <1>a DEF ApiAdd, TypeOK
<1>5. ASSUME NEW p \in Paths, NEW on \in BOOLEAN, NEW n \in Names, ApiUpdate(m, p, on, n)
      PROVE  TypeOK'
  BY <1>5, <1>a DEF ApiUpdate, TypeOK
<1>6. CASE ApiDelete(m)
  BY <1>6, <1>a DEF ApiDelete, TypeOK
<1>7. ASSUME NEW c \in Clients, ApiStatus(m, c)
      PROVE  TypeOK'
  <2>1. task' \in [Mounts -> [Actors -> TaskTypes]]
    BY <1>7, <1>b, BecomeType DEF ApiStatus, Actors
  <2> QED
    BY <1>7, <1>a, <2>1 DEF ApiStatus, TypeOK
<1> QED
  BY <1>1, <1>2, <1>3, <1>4, <1>5, <1>6, <1>7 DEF Arrivals

\* Every step, and every stutter, keeps the types.
LEMMA NextTypeOK == TypeOK /\ [Next]_vars => TypeOK'
<1> SUFFICES ASSUME TypeOK, [Next]_vars PROVE TypeOK'
  OBVIOUS
<1> USE DEF confvars, statvars, newsvars, worldvars
<1>1. CASE StartRound
  <2>1. \A m \in Mounts :
          [task[m] EXCEPT ![Checker] = [Idle(m) EXCEPT !.pc = "queued"]] \in [Actors -> TaskTypes]
    <3> TAKE m \in Mounts
    <3>1. [Idle(m) EXCEPT !.pc = "queued"] \in TaskTypes
      BY IdleType DEF TaskTypes, PCs
    <3> QED
      BY <3>1 DEF TypeOK
  <2>2. task' \in [Mounts -> [Actors -> TaskTypes]]
    BY <1>1, <2>1 DEF StartRound, TypeOK
  <2> QED
    BY <1>1, <2>2 DEF StartRound, TypeOK
<1>2. CASE RoundEnds
  BY <1>2 DEF RoundEnds, TypeOK
<1>3. ASSUME NEW m \in Mounts, BackoffElapses(m)
      PROVE  TypeOK'
  BY <1>3 DEF BackoffElapses, TypeOK
<1>4. ASSUME NEW m \in Mounts, NEW c \in Clients, ApiUnmounted(m, c)
      PROVE  TypeOK'
  <2>1. task' \in [Mounts -> [Actors -> TaskTypes]]
    BY <1>4, IdleType, BecomeType DEF ApiUnmounted, Actors
  <2> QED
    BY <1>4, <2>1 DEF ApiUnmounted, TypeOK
<1>5. ASSUME NEW p \in Paths, KernelChanges(p)
      PROVE  TypeOK'
  <2>1. faults' \in 0..MaxFaults
    BY <1>5, FaultType DEF KernelChanges, TypeOK
  <2> QED
    BY <1>5, <2>1 DEF KernelChanges, TypeOK, KernelStates
<1>6. ASSUME NEW o \in Orphans, OrphanEnds(o)
      PROVE  TypeOK'
  BY <1>6 DEF OrphanEnds, Orphans, TypeOK, KernelStates
<1>7. CASE UNCHANGED vars
  BY <1>7 DEF vars, TypeOK
<1>8. ASSUME NEW m \in Mounts, NEW a \in Actors, MkdirReturns(m, a)
      PROVE  TypeOK'
  <2>1. [task[m][a] EXCEPT !.pc = "mount"] \in TaskTypes
    <3>1. task[m][a] \in TaskTypes
      BY DEF TypeOK
    <3> QED
      BY <3>1 DEF TaskTypes, PCs
  <2>2. task' \in [Mounts -> [Actors -> TaskTypes]]
    BY <1>8, <2>1, IdleType, BecomeType DEF MkdirReturns
  <2>3. outcome' \in [Mounts -> {"none", "mounted", "failed", "raised"}]
    BY <1>8 DEF MkdirReturns, TypeOK
  <2> QED
    BY <1>8, <2>2, <2>3 DEF MkdirReturns, TypeOK
<1>9. ASSUME NEW m \in Mounts, NEW c \in Clients, UsageReturns(m, c)
      PROVE  TypeOK'
  <2>1. task' \in [Mounts -> [Actors -> TaskTypes]]
    BY <1>9, IdleType, BecomeType DEF UsageReturns, Actors
  <2> QED
    BY <1>9, <2>1 DEF UsageReturns, TypeOK
<1> QED
  BY <1>1, <1>2, <1>3, <1>4, <1>5, <1>6, <1>7, <1>8, <1>9,
     CheckStepTypeOK, RemountStepTypeOK, ArrivalsTypeOK DEF Next

\* Type correctness of the mount keeper, for any constants.
THEOREM TypeCorrect == Spec => []TypeOK
<1> QED
  BY InitTypeOK, NextTypeOK, PTL DEF Spec

-----------------------------------------------------------------------------
(* Which coroutines work on which mounts.                                  *)

\* The loop sleeps only when every check of the last round is over.
SleepMeansIdle == loop = "sleep" => \A m \in Mounts : At(m, Checker, "idle")

\* Become touches one coroutine and no other.
LEMMA BecomeOnly ==
    ASSUME TypeOK, NEW m \in Mounts, NEW a \in Actors, NEW t, Become(m, a, t)
    PROVE  \A n \in Mounts, b \in Actors :
               task'[n][b] = IF n = m /\ b = a THEN t ELSE task[n][b]
BY DEF TypeOK, Become

\* A failed attempt ends its own coroutine and moves no other.
LEMMA FailureMoves ==
    ASSUME TypeOK, NEW m \in Mounts, NEW a \in Actors, MountFailed(m, a)
    PROVE  \A n \in Mounts, b \in Actors :
               task'[n][b].pc = IF n = m /\ b = a THEN "idle" ELSE task[n][b].pc
<1> DEFINE exhausted == OneMoreRetry(m) = MaxRetries
           next(b) == IF b = a THEN Idle(m) ELSE [task[m][b] EXCEPT !.late = @ /\ ~exhausted]
<1>1. task' = [task EXCEPT ![m] = [b \in Actors |-> next(b)]]
  BY DEF MountFailed
<1>2. \A n \in Mounts, b \in Actors : task'[n][b] = IF n = m THEN next(b) ELSE task[n][b]
  <2> HIDE DEF next
  <2> QED
    BY <1>1 DEF TypeOK
<1>3. \A b \in Actors : next(b).pc = IF b = a THEN "idle" ELSE task[m][b].pc
  BY DEF Idle, TypeOK, TaskTypes
<1> QED
  BY <1>2, <1>3

\* Only StartRound wakes a check that is over.
LEMMA IdleStaysIdle ==
    ASSUME TypeOK, Next, ~StartRound, NEW n \in Mounts, At(n, Checker, "idle")
    PROVE  At(n, Checker, "idle")'
<1> USE DEF At
<1>a. Checker \in Actors /\ \A c \in Clients : c \in Actors /\ c # Checker
  BY ConstantsAssumption DEF Actors
<1>b. ASSUME NEW m \in Mounts, NEW a \in Actors, NEW t, Become(m, a, t), m # n \/ a # Checker
      PROVE  At(n, Checker, "idle")'
  BY <1>a, <1>b, BecomeOnly
<1>1. ASSUME NEW m \in Mounts, CheckStep(m)
      PROVE  At(n, Checker, "idle")'
  <2>1. ~At(m, Checker, "idle")
    BY <1>1 DEF CheckStep, CheckDisabled, CheckAutofs, CheckUnlisted, CheckListed, ProbeAnswers,
                ProbedHealthy, ProbedStale, ProbedUnlisted, CheckUnmounted, DelayEnds
  <2>2. \E t : Become(m, Checker, t)
    BY <1>1 DEF CheckStep, CheckDisabled, CheckAutofs, CheckUnlisted, CheckListed, ProbeAnswers,
                ProbedHealthy, ProbedStale, ProbedUnlisted, CheckUnmounted, DelayEnds,
                DelayUnlessBackoff, Remount
  <2> QED
    BY <1>a, <1>b, <2>1, <2>2
<1>2. ASSUME NEW m \in Mounts, NEW a \in Actors, RemountStep(m, a)
      PROVE  At(n, Checker, "idle")'
  <2>1. ~At(m, a, "idle")
    BY <1>2 DEF RemountStep, UnmountRuns, MountRuns, MountSucceeded, MountFailed
  <2>2. CASE MountFailed(m, a)
    BY <1>a, <2>2, FailureMoves
  <2>3. CASE ~MountFailed(m, a)
    <3>1. \E t : Become(m, a, t)
      BY <1>2, <2>3 DEF RemountStep, UnmountRuns, MountRuns, MountSucceeded
    <3> QED
      BY <1>a, <1>b, <2>1, <3>1
  <2> QED
    BY <2>2, <2>3
<1>3. ASSUME NEW m \in Mounts, NEW c \in Clients,
             \/ ApiRemount(m, c) \/ ApiUnmount(m, c) \/ ApiStatus(m, c)
             \/ ApiUnmounted(m, c) \/ UsageReturns(m, c)
      PROVE  At(n, Checker, "idle")'
  <2>1. \E t : Become(m, c, t)
    BY <1>3 DEF ApiRemount, ApiUnmount, ApiStatus, ApiUnmounted, UsageReturns, Remount
  <2> QED
    BY <1>a, <1>b, <2>1
<1>4. ASSUME UNCHANGED task
      PROVE  At(n, Checker, "idle")'
  BY <1>4
<1>5. \A m \in Mounts, on \in BOOLEAN :
          ApiSetEnabled(m, on) \/ ApiAdd(m, on) \/ ApiDelete(m) \/ BackoffElapses(m) => UNCHANGED task
  BY DEF ApiSetEnabled, ApiAdd, ApiDelete, BackoffElapses
<1>6. \A m \in Mounts, p \in Paths, on \in BOOLEAN, k \in Names : ApiUpdate(m, p, on, k) => UNCHANGED task
  BY DEF ApiUpdate
<1>7. (RoundEnds \/ (\E p \in Paths : KernelChanges(p)) \/ (\E o \in Orphans : OrphanEnds(o))) => UNCHANGED task
  BY DEF RoundEnds, KernelChanges, OrphanEnds
<1>8. ASSUME NEW m \in Mounts, NEW a \in Actors, MkdirReturns(m, a)
      PROVE  At(n, Checker, "idle")'
  <2>1. ~At(m, a, "idle") /\ \E t : Become(m, a, t)
    BY <1>8 DEF MkdirReturns
  <2> QED
    BY <1>a, <1>b, <2>1
<1> QED
  BY <1>1, <1>2, <1>3, <1>4, <1>5, <1>6, <1>7, <1>8 DEF Next, Arrivals

\* The invariant the later proofs rest on.
Inv == TypeOK /\ SleepMeansIdle

\* No coroutine runs at the start.
LEMMA InitInv == Init => Inv
<1> SUFFICES ASSUME Init PROVE Inv
  OBVIOUS
<1>1. TypeOK
  BY InitTypeOK
<1>2. \A m \in Mounts : task[m][Checker] = Idle(m)
  BY DEF Init, Actors
<1>3. \A m \in Mounts : Idle(m).pc = "idle"
  BY DEF Idle
<1>4. SleepMeansIdle
  BY <1>2, <1>3 DEF SleepMeansIdle, At
<1> QED
  BY <1>1, <1>4 DEF Inv

\* RoundEnds waits for the checks, and while the loop sleeps none is begun.
LEMMA NextInv == Inv /\ [Next]_vars => Inv'
<1> SUFFICES ASSUME Inv, [Next]_vars PROVE Inv'
  OBVIOUS
<1>1. TypeOK /\ TypeOK'
  BY NextTypeOK DEF Inv
<1>2. SleepMeansIdle'
  <2>1. CASE StartRound
    BY <2>1 DEF StartRound, SleepMeansIdle
  <2>2. CASE RoundEnds
    BY <2>2 DEF RoundEnds, SleepMeansIdle, At
  <2>3. CASE Next /\ ~StartRound /\ ~RoundEnds
    <3>1. UNCHANGED loop
      <4>1. \A m \in Mounts : CheckStep(m) => UNCHANGED loop
        BY DEF CheckStep, CheckDisabled, CheckAutofs, CheckUnlisted, CheckListed, ProbeAnswers,
               ProbedHealthy, ProbedStale, ProbedUnlisted, CheckUnmounted, DelayEnds
      <4>2. \A m \in Mounts, a \in Actors : RemountStep(m, a) => UNCHANGED loop
        BY DEF RemountStep, UnmountRuns, MountRuns, MountSucceeded, MountFailed
      <4>3. \A m \in Mounts : Arrivals(m) => UNCHANGED loop
        BY DEF Arrivals, ApiRemount, ApiUnmount, ApiStatus, ApiSetEnabled, ApiAdd, ApiDelete, ApiUpdate
      <4>4. /\ \A m \in Mounts, c \in Clients : ApiUnmounted(m, c) \/ UsageReturns(m, c) => UNCHANGED loop
            /\ \A m \in Mounts, a \in Actors : MkdirReturns(m, a) => UNCHANGED loop
        BY DEF ApiUnmounted, UsageReturns, MkdirReturns
      <4>5. /\ \A m \in Mounts : BackoffElapses(m) => UNCHANGED loop
            /\ \A p \in Paths : KernelChanges(p) => UNCHANGED loop
            /\ \A o \in Orphans : OrphanEnds(o) => UNCHANGED loop
        BY DEF BackoffElapses, KernelChanges, OrphanEnds
      <4> QED
        BY <2>3, <4>1, <4>2, <4>3, <4>4, <4>5 DEF Next
    <3> QED
      BY <1>1, <2>3, <3>1, IdleStaysIdle DEF Inv, SleepMeansIdle
  <2>4. CASE UNCHANGED vars
    BY <2>4 DEF vars, Inv, SleepMeansIdle, At
  <2> QED
    BY <2>1, <2>2, <2>3, <2>4
<1> QED
  BY <1>1, <1>2 DEF Inv

\* The inductive invariant holds in every reachable state.
THEOREM InvHolds == Spec => []Inv
<1> QED
  BY InitInv, NextInv, PTL DEF Spec

\* However many mounts there are and whatever requests arrive, a check begins only
\* when no check of any mount is in flight (gather in _check_all).
THEOREM RoundsKeptApart == Spec => RoundsDoNotOverlap
<1>1. ASSUME Inv, [Next]_vars
      PROVE  [\A m, n \in Mounts :
                 At(m, Checker, "idle") /\ ~At(m, Checker, "idle")' => At(n, Checker, "idle")]_vars
  <2>1. CASE StartRound
    BY <1>1, <2>1 DEF StartRound, Inv, SleepMeansIdle
  <2>2. CASE Next /\ ~StartRound
    BY <1>1, <2>2, IdleStaysIdle DEF Inv
  <2> QED
    BY <1>1, <2>1, <2>2
<1> QED
  BY <1>1, InvHolds, PTL DEF Spec, RoundsDoNotOverlap

-----------------------------------------------------------------------------
(* The refinement: every step is a step of MountStatus or a stutter.       *)

\* Where a coroutine is inside an attempt that has begun.
Attempt == {"mkdir", "mount"}

\* What StatusContract substitutes for open.
Open == [m \in Mounts |-> {a \in Actors : InAttempt(m, a)}]

\* A coroutine that was not in mount() and is not now leaves Open alone.
LEMMA OpenSame ==
    ASSUME TypeOK, NEW m \in Mounts, NEW a \in Actors, NEW t, Become(m, a, t),
           ~InAttempt(m, a), t.pc \notin Attempt
    PROVE  Open' = Open
BY BecomeOnly DEF Open, InAttempt, Attempt, At

\* A coroutine that enters mount() opens its attempt.
LEMMA OpenBegins ==
    ASSUME TypeOK, NEW m \in Mounts, NEW a \in Actors, NEW t, Become(m, a, t),
           t.pc \in Attempt
    PROVE  Open' = [Open EXCEPT ![m] = @ \cup {a}]
<1> DEFINE S(n) == {b \in Actors : task[n][b].pc \in Attempt}
           T(n) == {b \in Actors : task'[n][b].pc \in Attempt}
<1>1. \A n \in Mounts : T(n) = IF n = m THEN S(m) \cup {a} ELSE S(n)
  BY BecomeOnly
<1>2. Open = [n \in Mounts |-> S(n)] /\ Open' = [n \in Mounts |-> T(n)]
  BY DEF Open, InAttempt, Attempt, At
<1> HIDE DEF S, T
<1> QED
  BY <1>1, <1>2

\* A coroutine that leaves mount() closes its attempt.
LEMMA OpenCloses ==
    ASSUME TypeOK, NEW m \in Mounts, NEW a \in Actors,
           \A n \in Mounts, b \in Actors :
               task'[n][b].pc = IF n = m /\ b = a THEN "idle" ELSE task[n][b].pc
    PROVE  Open' = [Open EXCEPT ![m] = @ \ {a}]
<1> DEFINE S(n) == {b \in Actors : task[n][b].pc \in Attempt}
           T(n) == {b \in Actors : task'[n][b].pc \in Attempt}
<1>1. \A n \in Mounts : T(n) = IF n = m THEN S(m) \ {a} ELSE S(n)
  BY DEF Attempt
<1>2. Open = [n \in Mounts |-> S(n)] /\ Open' = [n \in Mounts |-> T(n)]
  BY DEF Open, InAttempt, Attempt, At
<1> HIDE DEF S, T
<1> QED
  BY <1>1, <1>2

\* A check's next record after its verdict is never one of mount().
LEMMA DelayOpens ==
    ASSUME TypeOK, NEW m \in Mounts, NEW late, DelayUnlessBackoff(m, late),
           ~InAttempt(m, Checker)
    PROVE  Open' = Open
<1> DEFINE next == IF InBackoff(m, late) THEN Idle(m) ELSE [Idle(m) EXCEPT !.pc = "delay"]
<1>1. next.pc \notin Attempt
  BY DEF Idle, Attempt
<1>2. Become(m, Checker, next)
  BY DEF DelayUnlessBackoff
<1> QED
  BY <1>1, <1>2, OpenSame DEF Actors

\* An attempt that begins is open, unless it raises at once.
LEMMA RemountOpens ==
    ASSUME TypeOK, NEW m \in Mounts, NEW a \in Actors, Remount(m, a), ~InAttempt(m, a)
    PROVE  Open' = [Open EXCEPT ![m] = @ \cup {a}] \/ Open' = Open
<1> DEFINE next(label) == [Idle(m) EXCEPT !.pc = label, !.path = local[m]]
<1>1. (\A label \in Attempt : next(label).pc \in Attempt) /\ Idle(m).pc \notin Attempt
  BY DEF Idle, Attempt
<1>2. (\E label \in Attempt : Become(m, a, next(label))) \/ Become(m, a, Idle(m))
  BY DEF Remount, Attempt
<1> HIDE DEF next
<1> QED
  BY <1>1, <1>2, OpenBegins, OpenSame

\* What MountStatus sees of a step that is none of its own.
Stutter == UNCHANGED <<status, retry, backoff, shown, told, Open>>

\* Such a step is a stutter of the contract.
LEMMA StutterRefines == Stutter => UNCHANGED StatusContract!vars
BY DEF Stutter, Open, InAttempt, StatusContract!vars

\* The start state is one of the contract: no attempt is under way.
LEMMA InitRefines == Init => StatusContract!Init
<1> SUFFICES ASSUME Init PROVE StatusContract!Init
  OBVIOUS
<1>1. \A m \in Mounts : Idle(m).pc \notin Attempt
  BY DEF Idle, Attempt
<1>2. \A m \in Mounts, a \in Actors : ~InAttempt(m, a)
  BY <1>1 DEF Init, InAttempt, Attempt, At
<1>3. Open = [m \in Mounts |-> {}]
  BY <1>2 DEF Open
<1> QED
  BY <1>3 DEF Init, Open, InAttempt, StatusContract!Init

\* A step of a check is a verdict, the beginning of an attempt, or unseen.
LEMMA CheckStepRefines ==
    ASSUME Inv, NEW m \in Mounts, CheckStep(m)
    PROVE  [StatusContract!Next]_(StatusContract!vars)
<1> USE DEF confvars, statvars, newsvars, worldvars, InAttempt, Attempt
<1>a. TypeOK /\ Checker \in Actors
  BY DEF Inv, Actors
<1>b. Idle(m).pc \notin Attempt
  BY DEF Idle
<1>c. \A s \in {"disabled", "unmounted", "stale"} :
          StatusContract!JudgeDown(m, s) => StatusContract!Next
  BY DEF StatusContract!Next
<1>d. StatusContract!JudgeUp(m) => StatusContract!Next
  BY DEF StatusContract!Next
<1>1. CASE CheckDisabled(m)
  <2>1. Open' = Open
    BY <1>1, <1>a, <1>b, OpenSame DEF CheckDisabled, At
  <2>2. StatusContract!JudgeDown(m, "disabled")
    BY <1>1, <2>1 DEF CheckDisabled, Open, StatusContract!JudgeDown
  <2> QED
    BY <2>2, <1>c
<1>2. CASE CheckAutofs(m)
  <2>1. Open' = Open
    BY <1>2, <1>a, <1>b, OpenSame DEF CheckAutofs, At
  <2>2. StatusContract!JudgeUp(m)
    BY <1>2, <2>1 DEF CheckAutofs, Open, StatusContract!JudgeUp
  <2> QED
    BY <2>2, <1>d
<1>3. CASE CheckUnlisted(m)
  <2>1. Open' = Open
    BY <1>3, <1>a, DelayOpens DEF CheckUnlisted, At
  <2>2. StatusContract!JudgeDown(m, "unmounted")
    BY <1>3, <2>1 DEF CheckUnlisted, Open, StatusContract!JudgeDown
  <2> QED
    BY <2>2, <1>c
<1>4. CASE CheckListed(m)
  <2> DEFINE next == [Idle(m) EXCEPT !.pc = "probe", !.path = local[m],
                                     !.prev = status[m], !.late = backoff[m] = "elapsed"]
  <2>1. next.pc \notin Attempt
    BY DEF Idle
  <2>2. Become(m, Checker, next) /\ ~InAttempt(m, Checker)
    BY <1>4 DEF CheckListed, At
  <2>3. Open' = Open
    BY <1>a, <2>1, <2>2, OpenSame
  <2>4. Stutter
    BY <1>4, <2>3 DEF CheckListed, Stutter
  <2> QED
    BY <2>4, StutterRefines
<1>5. CASE ProbeAnswers(m)
  <2> DEFINE next(how) == [task[m][Checker] EXCEPT !.proc = how]
  <2>1. \A how \in {"ok", "fail"} : next(how).pc \notin Attempt
    BY <1>5, <1>a DEF ProbeAnswers, At, TypeOK, TaskTypes
  <2>2. ~InAttempt(m, Checker) /\ \E how \in {"ok", "fail"} : Become(m, Checker, next(how))
    BY <1>5 DEF ProbeAnswers, At
  <2>3. Open' = Open
    BY <1>a, <2>1, <2>2, OpenSame
  <2>4. Stutter
    BY <1>5, <2>3 DEF ProbeAnswers, Stutter
  <2> QED
    BY <2>4, StutterRefines
<1>6. CASE ProbedHealthy(m)
  <2>1. Open' = Open
    BY <1>6, <1>a, <1>b, OpenSame DEF ProbedHealthy, At
  <2>2. StatusContract!JudgeUp(m)
    BY <1>6, <2>1 DEF ProbedHealthy, ClearFailures, Emit, Open, StatusContract!JudgeUp, StatusContract!Cleared
  <2> QED
    BY <2>2, <1>d
<1>7. CASE ProbedStale(m)
  <2> DEFINE next == [task[m][Checker] EXCEPT !.pc = "umount", !.path = local[m], !.proc = "run"]
  <2>1. next.pc \notin Attempt
    BY <1>a DEF TypeOK, TaskTypes
  <2>2. Become(m, Checker, next) /\ ~InAttempt(m, Checker)
    BY <1>7 DEF ProbedStale, At
  <2>3. Open' = Open
    BY <1>a, <2>1, <2>2, OpenSame
  <2>4. StatusContract!JudgeDown(m, "stale")
    BY <1>7, <2>3 DEF ProbedStale, Open, StatusContract!JudgeDown
  <2> QED
    BY <2>4, <1>c
<1>8. CASE ProbedUnlisted(m)
  <2>1. Open' = Open
    BY <1>8, <1>a, DelayOpens DEF ProbedUnlisted, At
  <2>2. StatusContract!JudgeDown(m, "unmounted")
    BY <1>8, <2>1 DEF ProbedUnlisted, Open, StatusContract!JudgeDown
  <2> QED
    BY <2>2, <1>c
<1>9. CASE CheckUnmounted(m)
  <2>1. Open' = Open
    BY <1>9, <1>a, DelayOpens DEF CheckUnmounted, At
  <2>2. Stutter
    BY <1>9, <2>1 DEF CheckUnmounted, Stutter
  <2> QED
    BY <2>2, StutterRefines
<1>10. CASE DelayEnds(m)
  <2>1. Checker \notin Open[m]
    BY <1>10 DEF DelayEnds, Open, At
  <2>2. Open' = [Open EXCEPT ![m] = @ \cup {Checker}] \/ Open' = Open
    BY <1>10, <1>a, RemountOpens DEF DelayEnds, At
  <2>3. StatusContract!Begin(m, Checker)
    BY <1>10, <2>1, <2>2 DEF DelayEnds, Remount, Open, StatusContract!Begin
  <2> QED
    BY <1>a, <2>3 DEF StatusContract!Next
<1> QED
  BY <1>1, <1>2, <1>3, <1>4, <1>5, <1>6, <1>7, <1>8, <1>9, <1>10 DEF CheckStep

\* A step of a remount ends one attempt with its outcome, or is unseen.
LEMMA RemountStepRefines ==
    ASSUME Inv, NEW m \in Mounts, NEW a \in Actors, RemountStep(m, a)
    PROVE  [StatusContract!Next]_(StatusContract!vars)
<1> USE DEF confvars, statvars, newsvars, worldvars, InAttempt, Attempt
<1>a. TypeOK /\ task[m][a] \in TaskTypes
  BY DEF Inv, TypeOK
<1>b. ASSUME NEW how, Become(m, a, [task[m][a] EXCEPT !.proc = how])
      PROVE  Open' = Open
  <2> DEFINE next == [task[m][a] EXCEPT !.proc = how]
  <2>1. next.pc = task[m][a].pc
    BY <1>a DEF TaskTypes
  <2>2. \A n \in Mounts, b \in Actors : task'[n][b].pc = task[n][b].pc
    <3>1. Become(m, a, next)
      BY <1>b
    <3>2. \A n \in Mounts, b \in Actors : task'[n][b] = IF n = m /\ b = a THEN next ELSE task[n][b]
      <4> HIDE DEF next
      <4> QED
        BY <1>a, <3>1, BecomeOnly
    <3> HIDE DEF next
    <3> QED
      BY <2>1, <3>2
  <2> QED
    BY <2>2 DEF Open, At
<1>1. CASE UnmountRuns(m, a)
  <2>1. Open' = Open
    BY <1>1, <1>b DEF UnmountRuns
  <2>2. Stutter
    BY <1>1, <2>1 DEF UnmountRuns, Stutter
  <2> QED
    BY <2>2, StutterRefines
<1>2. CASE MountRuns(m, a)
  <2>1. Open' = Open
    BY <1>2, <1>b DEF MountRuns
  <2>2. Stutter
    BY <1>2, <2>1 DEF MountRuns, Stutter
  <2> QED
    BY <2>2, StutterRefines
<1>3. CASE MountSucceeded(m, a)
  <2>1. a \in Open[m]
    BY <1>3 DEF MountSucceeded, Open
  <2>2. Idle(m).pc = "idle"
    BY DEF Idle
  <2>3. Open' = [Open EXCEPT ![m] = @ \ {a}]
    <3>1. Become(m, a, Idle(m))
      BY <1>3 DEF MountSucceeded
    <3>2. \A n \in Mounts, b \in Actors :
              task'[n][b].pc = IF n = m /\ b = a THEN "idle" ELSE task[n][b].pc
      BY <1>a, <2>2, <3>1, BecomeOnly
    <3> QED
      BY <1>a, <3>2, OpenCloses
  <2>4. StatusContract!Succeed(m, a)
    BY <1>3, <2>1, <2>3 DEF MountSucceeded, ClearFailures, Emit, Open,
          StatusContract!Succeed, StatusContract!Close, StatusContract!Cleared
  <2> QED
    BY <2>4 DEF StatusContract!Next
<1>4. CASE MountFailed(m, a)
  <2>1. a \in Open[m]
    BY <1>4 DEF MountFailed, Open
  <2>2. Open' = [Open EXCEPT ![m] = @ \ {a}]
    BY <1>4, <1>a, FailureMoves, OpenCloses
  <2>3. StatusContract!Close(m, a)
    BY <2>1, <2>2 DEF Open, StatusContract!Close
  <2>4. \/ retry[m] < MaxRetries /\ retry' = [retry EXCEPT ![m] = @ + 1]
        \/ retry[m] = MaxRetries /\ UNCHANGED retry
    <3>1. retry \in [Mounts -> 0..MaxRetries] /\ retry' = [retry EXCEPT ![m] = OneMoreRetry(m)]
      BY <1>4, <1>a DEF MountFailed, TypeOK
    <3>2. CASE retry[m] < MaxRetries
      BY <3>1, <3>2 DEF OneMoreRetry
    <3>3. CASE ~(retry[m] < MaxRetries)
      <4>1. retry[m] = MaxRetries /\ OneMoreRetry(m) = retry[m]
        BY <3>1, <3>3, ConstantsAssumption DEF OneMoreRetry
      <4> QED
        BY <3>1, <4>1
    <3> QED
      BY <3>2, <3>3
  <2>5. retry'[m] = OneMoreRetry(m)
    BY <1>4, <1>a DEF MountFailed, TypeOK
  <2>6. IF retry'[m] = MaxRetries THEN backoff' = [backoff EXCEPT ![m] = "running"] ELSE UNCHANGED backoff
    BY <1>4, <2>5 DEF MountFailed
  <2>7. StatusContract!Fail(m, a)
    BY <1>4, <2>3, <2>4, <2>6 DEF MountFailed, Emit, StatusContract!Fail
  <2> QED
    BY <2>7 DEF StatusContract!Next
<1> QED
  BY <1>1, <1>2, <1>3, <1>4 DEF RemountStep

\* A mkdir that returns goes on with its attempt, unseen, or breaks it off.
LEMMA MkdirRefines ==
    ASSUME Inv, NEW m \in Mounts, NEW a \in Actors, MkdirReturns(m, a)
    PROVE  [StatusContract!Next]_(StatusContract!vars)
<1> USE DEF confvars, statvars, newsvars, worldvars, InAttempt, Attempt
<1>a. TypeOK /\ task[m][a] \in TaskTypes /\ task[m][a].pc = "mkdir"
  BY DEF Inv, TypeOK, MkdirReturns, At
<1>1. CASE Become(m, a, [task[m][a] EXCEPT !.pc = "mount"])
  <2> DEFINE next == [task[m][a] EXCEPT !.pc = "mount"]
  <2>1. next.pc = "mount"
    BY <1>a DEF TaskTypes
  <2>2. \A n \in Mounts, b \in Actors : task'[n][b] = IF n = m /\ b = a THEN next ELSE task[n][b]
    <3> HIDE DEF next
    <3> QED
      BY <1>1, <1>a, BecomeOnly DEF next
  <2>3. Open' = Open
    <3> HIDE DEF next
    <3> QED
      BY <1>a, <2>1, <2>2 DEF Open, At
  <2>4. Stutter
    BY <1>1, <2>3 DEF MkdirReturns, Stutter
  <2> QED
    BY <2>4, StutterRefines
<1>2. CASE Become(m, a, Idle(m))
  <2>1. a \in Open[m]
    BY <1>a DEF Open, At
  <2>2. \A n \in Mounts, b \in Actors :
            task'[n][b].pc = IF n = m /\ b = a THEN "idle" ELSE task[n][b].pc
    BY <1>2, <1>a, BecomeOnly DEF Idle
  <2>3. Open' = [Open EXCEPT ![m] = @ \ {a}]
    BY <1>a, <2>2, OpenCloses
  <2>4. StatusContract!BreakOff(m, a)
    BY <2>1, <2>3 DEF MkdirReturns, Open, StatusContract!BreakOff, StatusContract!Close
  <2> QED
    BY <2>4 DEF StatusContract!Next
<1> QED
  BY <1>1, <1>2 DEF MkdirReturns

\* A request begins an attempt, or is unseen.
LEMMA ArrivalsRefine ==
    ASSUME Inv, NEW m \in Mounts, Arrivals(m)
    PROVE  [StatusContract!Next]_(StatusContract!vars)
<1> USE DEF confvars, statvars, newsvars, worldvars, InAttempt, Attempt
<1>a. TypeOK /\ \A c \in Clients : c \in Actors
  BY DEF Inv, Actors
<1>1. ASSUME NEW c \in Clients, ApiRemount(m, c)
      PROVE  StatusContract!Next
  <2>1. c \notin Open[m]
    BY <1>1, <1>a DEF ApiRemount, Open, At
  <2>2. Open' = [Open EXCEPT ![m] = @ \cup {c}] \/ Open' = Open
    BY <1>1, <1>a, RemountOpens DEF ApiRemount, At
  <2>3. StatusContract!Begin(m, c)
    BY <1>1, <2>1, <2>2 DEF ApiRemount, Remount, ClearFailures, Open, StatusContract!Begin, StatusContract!Cleared
  <2> QED
    BY <1>a, <2>3 DEF StatusContract!Next
<1>2. ASSUME NEW c \in Clients, ApiUnmount(m, c)
      PROVE  Stutter
  <2> DEFINE next == [Idle(m) EXCEPT !.pc = "umount", !.path = local[m]]
  <2>1. next.pc \notin Attempt /\ Become(m, c, next) /\ ~InAttempt(m, c)
    BY <1>2 DEF ApiUnmount, Idle, At
  <2>2. Open' = Open
    BY <1>a, <2>1, OpenSame
  <2> QED
    BY <1>2, <2>2 DEF ApiUnmount, Stutter
<1>3. UNCHANGED task => Open' = Open
  BY DEF Open, At
<1>4. ASSUME NEW on \in BOOLEAN, ApiSetEnabled(m, on) \/ ApiAdd(m, on)
      PROVE  Stutter
  BY <1>3, <1>4 DEF ApiSetEnabled, ApiAdd, Stutter
<1>5. ASSUME NEW p \in Paths, NEW on \in BOOLEAN, NEW n \in Names, ApiUpdate(m, p, on, n)
      PROVE  Stutter
  BY <1>3, <1>5 DEF ApiUpdate, Stutter
<1>6. ASSUME ApiDelete(m)
      PROVE  Stutter
  BY <1>3, <1>6 DEF ApiDelete, Stutter
<1>7. ASSUME NEW c \in Clients, ApiStatus(m, c)
      PROVE  Stutter
  <2> DEFINE next == [Idle(m) EXCEPT !.pc = "usage", !.path = local[m]]
  <2>1. next.pc \notin Attempt /\ Become(m, c, next) /\ ~InAttempt(m, c)
    BY <1>7 DEF ApiStatus, Idle, At
  <2>2. Open' = Open
    BY <1>a, <2>1, OpenSame
  <2> QED
    BY <1>7, <2>2 DEF ApiStatus, Stutter
<1> QED
  BY <1>1, <1>2, <1>4, <1>5, <1>6, <1>7, StutterRefines DEF Arrivals

\* Every step of the mount keeper is a step of the contract or a stutter.
LEMMA NextRefines == Inv /\ [Next]_vars => [StatusContract!Next]_(StatusContract!vars)
<1> SUFFICES ASSUME Inv, [Next]_vars PROVE [StatusContract!Next]_(StatusContract!vars)
  OBVIOUS
<1> USE DEF confvars, statvars, newsvars, worldvars, InAttempt, Attempt
<1>a. TypeOK
  BY DEF Inv
<1>b. UNCHANGED task => Open' = Open
  BY DEF Open, At
<1>1. CASE StartRound
  <2> DEFINE next(m) == IF m \in States
                        THEN [task[m] EXCEPT ![Checker] = [Idle(m) EXCEPT !.pc = "queued"]]
                        ELSE task[m]
  <2>1. \A m \in Mounts, a \in Actors : task'[m][a] = next(m)[a]
    BY <1>1 DEF StartRound
  <2>2. \A m \in Mounts, a \in Actors :
            task'[m][a].pc = IF m \in States /\ a = Checker THEN "queued" ELSE task[m][a].pc
    <3> TAKE m \in Mounts, a \in Actors
    <3>1. task[m] \in [Actors -> TaskTypes]
      BY <1>a DEF TypeOK
    <3>2. [Idle(m) EXCEPT !.pc = "queued"].pc = "queued"
      BY DEF Idle
    <3> QED
      BY <2>1, <3>1, <3>2
  <2>3. \A m \in Mounts : task[m][Checker].pc = "idle"
    BY <1>1 DEF StartRound, Inv, SleepMeansIdle, At
  <2>4. Open' = Open
    BY <2>2, <2>3 DEF Open, At
  <2>5. Stutter
    BY <1>1, <2>4 DEF StartRound, Stutter
  <2> QED
    BY <2>5, StutterRefines
<1>2. CASE RoundEnds
  BY <1>2, <1>b, StutterRefines DEF RoundEnds, Stutter
<1>3. ASSUME NEW m \in Mounts, BackoffElapses(m)
      PROVE  StatusContract!Next
  <2>1. StatusContract!Elapse(m)
    BY <1>3, <1>b DEF BackoffElapses, Open, StatusContract!Elapse
  <2> QED
    BY <2>1 DEF StatusContract!Next
<1>4. ASSUME NEW m \in Mounts, NEW c \in Clients, ApiUnmounted(m, c)
      PROVE  Stutter
  <2>1. c \in Actors /\ Idle(m).pc \notin Attempt /\ ~InAttempt(m, c)
    BY <1>4 DEF ApiUnmounted, Actors, Idle, At
  <2>2. Open' = Open
    BY <1>4, <1>a, <2>1, OpenSame DEF ApiUnmounted
  <2> QED
    BY <1>4, <2>2 DEF ApiUnmounted, Stutter
<1>5. ASSUME NEW p \in Paths, KernelChanges(p)
      PROVE  Stutter
  BY <1>5, <1>b DEF KernelChanges, Stutter
<1>6. ASSUME NEW o \in Orphans, OrphanEnds(o)
      PROVE  Stutter
  BY <1>6, <1>b DEF OrphanEnds, Stutter
<1>7. CASE UNCHANGED vars
  BY <1>7, <1>b, StutterRefines DEF vars, Stutter
<1>8. ASSUME NEW m \in Mounts, NEW c \in Clients, UsageReturns(m, c)
      PROVE  Stutter
  <2>1. c \in Actors /\ Idle(m).pc \notin Attempt /\ ~InAttempt(m, c)
    BY <1>8 DEF UsageReturns, Actors, Idle, At
  <2>2. Open' = Open
    BY <1>8, <1>a, <2>1, OpenSame DEF UsageReturns
  <2> QED
    BY <1>8, <2>2 DEF UsageReturns, Stutter
<1>9. ASSUME NEW m \in Mounts, NEW a \in Actors, MkdirReturns(m, a)
      PROVE  [StatusContract!Next]_(StatusContract!vars)
  BY <1>9, MkdirRefines
<1> QED
  BY <1>1, <1>2, <1>3, <1>4, <1>5, <1>6, <1>7, <1>8, <1>9, StutterRefines,
     CheckStepRefines, RemountStepRefines, ArrivalsRefine DEF Next

\* The mount keeper implements MountStatus: every outcome that the API, the events
\* and the webhooks report is that of one attempt begun before, reported once.
THEOREM Refinement == Spec => RefinesMountStatus
<1> QED
  BY InitRefines, InvHolds, NextRefines, PTL DEF Spec, RefinesMountStatus, StatusContract!Spec

-----------------------------------------------------------------------------
(* What follows for the status, the retry count and the events.  Each of   *)
(* these invariants is preserved by the steps of the contract, so by       *)
(* NextRefines by those of the mount keeper.                               *)

\* An event stream alone shows every mount in ERROR as failed (_emit in _remount).
THEOREM ErrorsAreAnnounced == Spec => []ErrorIsAnnounced
<1>1. Init => ErrorIsAnnounced
  BY DEF Init, ErrorIsAnnounced
<1>2. ASSUME Inv, ErrorIsAnnounced, [StatusContract!Next]_(StatusContract!vars)
      PROVE  ErrorIsAnnounced'
  <2> USE DEF ErrorIsAnnounced
  <2>a. status \in [Mounts -> Statuses] /\ shown \in [Mounts -> {"none", "healthy", "error"}]
    BY <1>2 DEF Inv, TypeOK
  <2>1. ASSUME NEW m \in Mounts, NEW a \in Actors, StatusContract!Begin(m, a)
        PROVE  ErrorIsAnnounced'
    BY <1>2, <2>a, <2>1 DEF StatusContract!Begin
  <2>2. ASSUME NEW m \in Mounts, NEW a \in Actors, StatusContract!Succeed(m, a)
        PROVE  ErrorIsAnnounced'
    BY <1>2, <2>a, <2>2 DEF StatusContract!Succeed
  <2>3. ASSUME NEW m \in Mounts, NEW a \in Actors, StatusContract!Fail(m, a)
        PROVE  ErrorIsAnnounced'
    BY <1>2, <2>a, <2>3 DEF StatusContract!Fail
  <2>4. ASSUME NEW m \in Mounts, NEW s \in {"disabled", "unmounted", "stale"}, StatusContract!JudgeDown(m, s)
        PROVE  ErrorIsAnnounced'
    BY <1>2, <2>a, <2>4 DEF StatusContract!JudgeDown
  <2>5. ASSUME NEW m \in Mounts, StatusContract!JudgeUp(m)
        PROVE  ErrorIsAnnounced'
    BY <1>2, <2>a, <2>5 DEF StatusContract!JudgeUp
  <2>6. ASSUME NEW m \in Mounts, StatusContract!Elapse(m)
        PROVE  ErrorIsAnnounced'
    BY <1>2, <2>6 DEF StatusContract!Elapse
  <2>7. CASE UNCHANGED StatusContract!vars
    BY <1>2, <2>7 DEF StatusContract!vars
  <2>8. ASSUME NEW m \in Mounts, NEW a \in Actors, StatusContract!BreakOff(m, a)
        PROVE  ErrorIsAnnounced'
    BY <1>2, <2>8 DEF StatusContract!BreakOff
  <2> QED
    BY <1>2, <2>1, <2>2, <2>3, <2>4, <2>5, <2>6, <2>7, <2>8 DEF StatusContract!Next
<1> QED
  BY <1>1, <1>2, InvHolds, NextRefines, PTL DEF Spec

\* A mount has a backoff deadline exactly when its failures since the last success
\* or manual remount have reached max_retries (_remount, trigger_remount).
THEOREM BackoffMeansExhausted == Spec => []BackoffIffExhausted
<1>1. Init => BackoffIffExhausted
  <2> SUFFICES ASSUME Init, NEW m \in Mounts
               PROVE  ~(retry[m] = MaxRetries /\ MaxRetries > 0) /\ backoff[m] = "clear"
    BY DEF BackoffIffExhausted
  <2>1. MaxRetries \in Nat
    BY ConstantsAssumption
  <2>2. retry[m] = 0 /\ backoff[m] = "clear"
    BY DEF Init
  <2> QED
    BY <2>1, <2>2
<1>2. ASSUME Inv, BackoffIffExhausted, [StatusContract!Next]_(StatusContract!vars)
      PROVE  BackoffIffExhausted'
  <2> USE DEF BackoffIffExhausted
  <2>a. /\ retry \in [Mounts -> 0..MaxRetries]
        /\ backoff \in [Mounts -> {"clear", "running", "elapsed"}]
        /\ MaxRetries \in Nat
    BY <1>2, ConstantsAssumption DEF Inv, TypeOK
  <2>b. ASSUME NEW m \in Mounts, StatusContract!Cleared(m)
        PROVE  BackoffIffExhausted'
    BY <1>2, <2>a, <2>b DEF StatusContract!Cleared
  <2>c. ASSUME UNCHANGED <<retry, backoff>>
        PROVE  BackoffIffExhausted'
    BY <1>2, <2>c
  <2>1. ASSUME NEW m \in Mounts, NEW a \in Actors, StatusContract!Begin(m, a)
        PROVE  BackoffIffExhausted'
    BY <2>1, <2>b, <2>c DEF StatusContract!Begin
  <2>2. ASSUME NEW m \in Mounts, NEW a \in Actors, StatusContract!Succeed(m, a)
        PROVE  BackoffIffExhausted'
    BY <2>2, <2>b DEF StatusContract!Succeed
  <2>3. ASSUME NEW m \in Mounts, NEW a \in Actors, StatusContract!Fail(m, a)
        PROVE  BackoffIffExhausted'
    BY <1>2, <2>a, <2>3 DEF StatusContract!Fail
  <2>4. ASSUME NEW m \in Mounts, NEW s \in {"disabled", "unmounted", "stale"}, StatusContract!JudgeDown(m, s)
        PROVE  BackoffIffExhausted'
    BY <2>4, <2>c DEF StatusContract!JudgeDown
  <2>5. ASSUME NEW m \in Mounts, StatusContract!JudgeUp(m)
        PROVE  BackoffIffExhausted'
    BY <2>5, <2>b, <2>c DEF StatusContract!JudgeUp
  <2>6. ASSUME NEW m \in Mounts, StatusContract!Elapse(m)
        PROVE  BackoffIffExhausted'
    BY <1>2, <2>a, <2>6 DEF StatusContract!Elapse
  <2>7. CASE UNCHANGED StatusContract!vars
    BY <2>7, <2>c DEF StatusContract!vars
  <2>8. ASSUME NEW m \in Mounts, NEW a \in Actors, StatusContract!BreakOff(m, a)
        PROVE  BackoffIffExhausted'
    BY <2>8, <2>c DEF StatusContract!BreakOff
  <2> QED
    BY <1>2, <2>1, <2>2, <2>3, <2>4, <2>5, <2>6, <2>7, <2>8 DEF StatusContract!Next
<1> QED
  BY <1>1, <1>2, InvHolds, NextRefines, PTL DEF Spec

\* What MountingIsExplained says of one mount.
Explained(m) == status[m] = "mounting" => outcome[m] = "raised" \/ \E a \in Actors : InAttempt(m, a)

\* A step of one coroutine that was in no attempt leaves every attempt where it was.
LEMMA AttemptsStay ==
    ASSUME TypeOK, NEW m \in Mounts, NEW n \in Mounts, NEW a \in Actors, NEW t, Become(n, a, t),
           m # n \/ ~InAttempt(n, a)
    PROVE  \A b \in Actors : InAttempt(m, b) => InAttempt(m, b)'
BY BecomeOnly DEF InAttempt, At

\* An attempt that begins sets MOUNTING and is under way, blocked, or has raised.
LEMMA RemountExplained ==
    ASSUME TypeOK, NEW m \in Mounts, Explained(m), NEW n \in Mounts, NEW a \in Actors,
           Remount(n, a), ~InAttempt(n, a)
    PROVE  Explained(m)'
<1> DEFINE next(label) == [Idle(n) EXCEPT !.pc = label, !.path = local[n]]
<1>1. \A label \in {"mkdir", "mount"} : next(label).pc = label
  BY DEF Idle
<1>2. CASE m = n /\ outcome' = [outcome EXCEPT ![n] = "raised"]
  BY <1>2 DEF Explained, TypeOK
<1>3. CASE m = n /\ \E label \in {"mkdir", "mount"} : Become(n, a, next(label))
  <2> HIDE DEF next
  <2> QED
    BY <1>1, <1>3, BecomeOnly DEF Explained, InAttempt, At
<1>4. CASE m # n
  <2>1. status'[m] = status[m] /\ outcome'[m] = outcome[m]
    BY <1>4 DEF Remount, TypeOK
  <2>2. \E t : Become(n, a, t)
    BY DEF Remount
  <2> QED
    BY <1>4, <2>1, <2>2, AttemptsStay DEF Explained
<1> QED
  BY <1>2, <1>3, <1>4 DEF Remount

\* Every step keeps a mount that is MOUNTING explained, or gives it another status.
LEMMA MountingExplained ==
    ASSUME Inv, Next, NEW m \in Mounts, Explained(m)
    PROVE  Explained(m)'
<1> USE DEF confvars, statvars, newsvars, worldvars
<1>a. TypeOK /\ Checker \in Actors /\ \A c \in Clients : c \in Actors
  BY DEF Inv, Actors
<1>b. status \in [Mounts -> Statuses] /\ outcome \in [Mounts -> {"none", "mounted", "failed", "raised"}]
  BY <1>a DEF TypeOK
<1>c. \A n \in Mounts : Idle(n).pc = "idle"
  BY DEF Idle
<1>d. ASSUME NEW n \in Mounts, NEW a \in Actors, NEW t, Become(n, a, t), ~InAttempt(n, a),
             status'[m] # "mounting" \/ UNCHANGED status, UNCHANGED outcome
      PROVE  Explained(m)'
  BY <1>a, <1>d, AttemptsStay DEF Explained
<1>e. ASSUME UNCHANGED <<task, status, outcome>>
      PROVE  Explained(m)'
  BY <1>e DEF Explained, InAttempt, At
<1>1. ASSUME NEW n \in Mounts, CheckStep(n)
      PROVE  Explained(m)'
  <2>1. CASE DelayEnds(n)
    <3>1. Remount(n, Checker) /\ ~InAttempt(n, Checker)
      BY <2>1 DEF DelayEnds, InAttempt, At
    <3> QED
      BY <1>a, <3>1, RemountExplained
  <2>2. CASE ~DelayEnds(n)
    <3>1. \E t : Become(n, Checker, t)
      BY <1>1, <2>2 DEF CheckStep, CheckDisabled, CheckAutofs, CheckUnlisted, CheckListed, ProbeAnswers,
            ProbedHealthy, ProbedStale, ProbedUnlisted, CheckUnmounted, DelayUnlessBackoff
    <3>2. ~InAttempt(n, Checker)
      BY <1>1, <2>2 DEF CheckStep, CheckDisabled, CheckAutofs, CheckUnlisted, CheckListed, ProbeAnswers,
            ProbedHealthy, ProbedStale, ProbedUnlisted, CheckUnmounted, InAttempt, At
    <3>3. UNCHANGED outcome
      BY <1>1, <2>2 DEF CheckStep, CheckDisabled, CheckAutofs, CheckUnlisted, CheckListed, ProbeAnswers,
            ProbedHealthy, ProbedStale, ProbedUnlisted, CheckUnmounted
    <3>4. UNCHANGED status \/ \E s \in Statuses \ {"mounting"} : status' = [status EXCEPT ![n] = s]
      BY <1>1, <2>2 DEF CheckStep, CheckDisabled, CheckAutofs, CheckUnlisted, CheckListed, ProbeAnswers,
            ProbedHealthy, ProbedStale, ProbedUnlisted, CheckUnmounted, Statuses
    <3>5. status'[m] = "mounting" => status[m] = "mounting"
      BY <1>b, <3>4
    <3> QED
      BY <1>a, <3>1, <3>2, <3>3, <3>5, AttemptsStay DEF Explained
  <2> QED
    BY <2>1, <2>2
<1>2. ASSUME NEW n \in Mounts, NEW a \in Actors, RemountStep(n, a)
      PROVE  Explained(m)'
  <2>1. CASE UnmountRuns(n, a)
    <3>1. ~InAttempt(n, a) /\ (\E t : Become(n, a, t)) /\ UNCHANGED <<status, outcome>>
      BY <2>1 DEF UnmountRuns, InAttempt, At
    <3> QED
      BY <1>d, <3>1
  <2>2. CASE MountRuns(n, a)
    <3>1. \A how : [task[n][a] EXCEPT !.proc = how].pc = task[n][a].pc
      BY <1>a DEF TypeOK, TaskTypes
    <3>2. PICK how \in {"ok", "fail"} : Become(n, a, [task[n][a] EXCEPT !.proc = how])
      BY <2>2 DEF MountRuns
    <3> DEFINE next == [task[n][a] EXCEPT !.proc = how]
    <3>3. next.pc = task[n][a].pc /\ Become(n, a, next)
      BY <3>1, <3>2
    <3> HIDE DEF next
    <3>4. \A b \in Actors : task'[m][b].pc = task[m][b].pc
      BY <1>a, <3>3, BecomeOnly
    <3> QED
      BY <2>2, <3>4 DEF MountRuns, Explained, InAttempt, At
  <2>3. CASE MountSucceeded(n, a)
    <3>1. Become(n, a, Idle(n)) /\ status' = [status EXCEPT ![n] = "healthy"] /\ outcome' = [outcome EXCEPT ![n] = "mounted"]
      BY <2>3 DEF MountSucceeded
    <3>2. CASE m = n
      BY <1>b, <3>1, <3>2 DEF Explained
    <3>3. CASE m # n
      <4>1. status'[m] = status[m] /\ outcome'[m] = outcome[m]
        BY <1>b, <3>1, <3>3
      <4> QED
        BY <1>a, <3>1, <3>3, <4>1, AttemptsStay DEF Explained
    <3> QED
      BY <3>2, <3>3
  <2>4. CASE MountFailed(n, a)
    <3>1. status' = [status EXCEPT ![n] = "error"] /\ outcome' = [outcome EXCEPT ![n] = "failed"]
      BY <2>4 DEF MountFailed
    <3>2. CASE m = n
      BY <1>b, <3>1, <3>2 DEF Explained
    <3>3. CASE m # n
      <4>1. status'[m] = status[m] /\ outcome'[m] = outcome[m]
        BY <1>b, <3>1, <3>3
      <4>2. \A b \in Actors : task'[m][b].pc = task[m][b].pc
        BY <1>a, <2>4, <3>3, FailureMoves
      <4> QED
        BY <4>1, <4>2 DEF Explained, InAttempt, At
    <3> QED
      BY <3>2, <3>3
  <2> QED
    BY <1>2, <2>1, <2>2, <2>3, <2>4 DEF RemountStep
<1>3. ASSUME NEW n \in Mounts, NEW a \in Actors, MkdirReturns(n, a)
      PROVE  Explained(m)'
  <2>1. CASE Become(n, a, Idle(n)) /\ outcome' = [outcome EXCEPT ![n] = "raised"]
    <3>1. CASE m = n
      BY <1>b, <2>1, <3>1 DEF Explained
    <3>2. CASE m # n
      <4>1. status'[m] = status[m] /\ outcome'[m] = outcome[m]
        BY <1>3, <1>b, <2>1, <3>2 DEF MkdirReturns
      <4> QED
        BY <1>a, <2>1, <3>2, <4>1, AttemptsStay DEF Explained
    <3> QED
      BY <3>1, <3>2
  <2>2. CASE Become(n, a, [task[n][a] EXCEPT !.pc = "mount"]) /\ UNCHANGED outcome
    <3> DEFINE next == [task[n][a] EXCEPT !.pc = "mount"]
    <3>1. next.pc = "mount" /\ Become(n, a, next)
      BY <1>a, <2>2 DEF TypeOK, TaskTypes
    <3> HIDE DEF next
    <3>2. \A b \in Actors : InAttempt(m, b) => InAttempt(m, b)'
      BY <1>a, <3>1, BecomeOnly DEF InAttempt, At
    <3> QED
      BY <1>3, <2>2, <3>2 DEF MkdirReturns, Explained
  <2> QED
    BY <1>3, <2>1, <2>2 DEF MkdirReturns
<1>4. ASSUME NEW n \in Mounts, NEW c \in Clients, ApiRemount(n, c)
      PROVE  Explained(m)'
  <2>1. Remount(n, c) /\ ~InAttempt(n, c)
    BY <1>4 DEF ApiRemount, InAttempt, At
  <2> QED
    BY <1>a, <2>1, RemountExplained
<1>5. ASSUME NEW n \in Mounts, NEW c \in Clients,
             ApiUnmount(n, c) \/ ApiStatus(n, c) \/ ApiUnmounted(n, c) \/ UsageReturns(n, c)
      PROVE  Explained(m)'
  <2>1. ~InAttempt(n, c) /\ (\E t : Become(n, c, t)) /\ UNCHANGED <<status, outcome>>
    BY <1>5 DEF ApiUnmount, ApiStatus, ApiUnmounted, UsageReturns, InAttempt, At
  <2> QED
    BY <1>a, <1>d, <2>1
<1>6. ASSUME NEW n \in Mounts, Arrivals(n)
      PROVE  Explained(m)'
  <2>1. ASSUME NEW on \in BOOLEAN, ApiSetEnabled(n, on) \/ ApiAdd(n, on) \/ ApiDelete(n)
        PROVE  Explained(m)'
    BY <1>e, <2>1 DEF ApiSetEnabled, ApiAdd, ApiDelete
  <2>2. ASSUME NEW on \in BOOLEAN, NEW p \in Paths, NEW k \in Names, ApiUpdate(n, p, on, k)
        PROVE  Explained(m)'
    BY <1>e, <2>2 DEF ApiUpdate
  <2> QED
    BY <1>4, <1>5, <1>6, <2>1, <2>2 DEF Arrivals
<1>7. /\ RoundEnds => UNCHANGED <<task, status, outcome>>
      /\ \A n \in Mounts : BackoffElapses(n) => UNCHANGED <<task, status, outcome>>
      /\ \A p \in Paths : KernelChanges(p) => UNCHANGED <<task, status, outcome>>
      /\ \A o \in Orphans : OrphanEnds(o) => UNCHANGED <<task, status, outcome>>
  BY DEF RoundEnds, BackoffElapses, KernelChanges, OrphanEnds
<1>8. CASE StartRound
  <2>1. task[m] \in [Actors -> TaskTypes] /\ task[m][Checker].pc = "idle"
    BY <1>8, <1>a DEF StartRound, Inv, SleepMeansIdle, At, TypeOK
  <2>2. \A b \in Actors : b # Checker => task'[m][b] = task[m][b]
    BY <1>8, <2>1 DEF StartRound
  <2> QED
    BY <1>8, <2>1, <2>2 DEF StartRound, Explained, InAttempt, At
<1> QED
  BY <1>1, <1>2, <1>3, <1>5, <1>6, <1>7, <1>8, <1>e DEF Next

\* A mount shown MOUNTING is being mounted, blocked in the mkdir of its mount point,
\* or the latest attempt at it raised: however many attempts overlap, and whatever
\* dies, hangs or fails under them, none that was brought to an end leaves it so.
THEOREM MountingIsAccounted == Spec => []MountingIsExplained
<1>1. Init => MountingIsExplained
  BY DEF Init, MountingIsExplained
<1>2. Inv /\ MountingIsExplained /\ [Next]_vars => MountingIsExplained'
  <2> SUFFICES ASSUME Inv, MountingIsExplained, [Next]_vars, NEW m \in Mounts
               PROVE  Explained(m)'
    BY DEF MountingIsExplained, Explained
  <2>1. Explained(m)
    BY DEF MountingIsExplained, Explained
  <2>2. CASE UNCHANGED vars
    BY <2>1, <2>2 DEF vars, statvars, newsvars, Explained, InAttempt, At
  <2> QED
    BY <2>1, <2>2, MountingExplained
<1> QED
  BY <1>1, <1>2, InvHolds, PTL DEF Spec

-----------------------------------------------------------------------------
(* The monitor alone never starts an attempt while the backoff runs.       *)

\* Where a coroutine may act on a decision about the backoff.
Attempting(m) == At(m, Checker, "delay") \/ InAttempt(m, Checker)

\* Without HTTP clients, a step that leaves a check attempting either found it so
\* and set no backoff, or has just seen that the backoff does not run.
LEMMA AttemptsAreAllowed ==
    ASSUME Inv, Next, Clients = {}, BackoffHonoured, NEW m \in Mounts, Attempting(m)'
    PROVE  backoff'[m] # "running"
<1> USE DEF confvars, statvars, newsvars, worldvars, InAttempt
<1>a. TypeOK /\ TypeOK' /\ Checker \in Actors /\ \A a \in Actors : a = Checker
  BY NextTypeOK DEF Inv, Actors
<1>b. backoff \in [Mounts -> {"clear", "running", "elapsed"}]
  BY <1>a DEF TypeOK
<1>c. Attempting(m) => backoff[m] # "running"
  BY DEF BackoffHonoured, Attempting
<1>d. ASSUME NEW n \in Mounts, NEW a \in Actors, NEW t, Become(n, a, t), m # n
      PROVE  Attempting(m)
  BY <1>a, <1>d, BecomeOnly DEF Attempting, At
<1>e. ASSUME NEW n \in Mounts, NEW late, DelayUnlessBackoff(n, late), UNCHANGED backoff
      PROVE  backoff'[m] # "running"
  <2> DEFINE next == IF InBackoff(n, late) THEN Idle(n) ELSE [Idle(n) EXCEPT !.pc = "delay"]
  <2>1. Become(n, Checker, next)
    BY <1>e DEF DelayUnlessBackoff
  <2>2. CASE m # n
    <3> HIDE DEF next
    <3> QED
      BY <1>a, <1>c, <1>d, <1>e, <2>1, <2>2
  <2>3. CASE m = n /\ InBackoff(n, late)
    <3>1. task'[m][Checker] = Idle(n) /\ Idle(n).pc = "idle"
      BY <1>a, <2>1, <2>3, BecomeOnly DEF Idle
    <3> QED
      BY <3>1 DEF Attempting, At
  <2>4. CASE m = n /\ ~InBackoff(n, late)
    BY <1>e, <2>4 DEF InBackoff
  <2> QED
    BY <2>2, <2>3, <2>4
<1>f. ASSUME NEW n \in Mounts, NEW t, Become(n, Checker, t), t.pc \notin {"delay", "mkdir", "mount"},
             backoff' = backoff \/ backoff' = [backoff EXCEPT ![n] = "clear"]
      PROVE  backoff'[m] # "running"
  <2>1. CASE m = n
    BY <1>a, <1>f, <2>1, BecomeOnly DEF Attempting, At
  <2>2. CASE m # n
    BY <1>a, <1>b, <1>c, <1>d, <1>f, <2>2
  <2> QED
    BY <2>1, <2>2
<1>g. ASSUME Attempting(m), UNCHANGED backoff
      PROVE  backoff'[m] # "running"
  BY <1>c, <1>g
<1>h. \A n \in Mounts : Idle(n).pc = "idle"
  BY DEF Idle
<1>i. \A n \in Mounts : task[n][Checker] \in TaskTypes
  BY <1>a DEF TypeOK
<1>1. ASSUME NEW n \in Mounts, CheckStep(n)
      PROVE  backoff'[m] # "running"
  <2>1. CASE CheckDisabled(n) \/ CheckAutofs(n) \/ ProbedHealthy(n)
    BY <1>f, <1>h, <2>1 DEF CheckDisabled, CheckAutofs, ProbedHealthy, ClearFailures
  <2>2. CASE CheckUnlisted(n) \/ ProbedUnlisted(n) \/ CheckUnmounted(n)
    BY <1>e, <2>2 DEF CheckUnlisted, ProbedUnlisted, CheckUnmounted
  <2>3. CASE CheckListed(n)
    <3> DEFINE next == [Idle(n) EXCEPT !.pc = "probe", !.path = local[n],
                                       !.prev = status[n], !.late = backoff[n] = "elapsed"]
    <3>1. next.pc = "probe"
      BY DEF Idle
    <3>2. Become(n, Checker, next) /\ UNCHANGED backoff
      BY <2>3 DEF CheckListed
    <3> HIDE DEF next
    <3> QED
      BY <1>f, <3>1, <3>2
  <2>4. CASE ProbeAnswers(n)
    <3> DEFINE next(how) == [task[n][Checker] EXCEPT !.proc = how]
    <3>1. \A how : next(how).pc = "probe"
      BY <1>i, <2>4 DEF ProbeAnswers, At, TaskTypes
    <3>2. (\E how : Become(n, Checker, next(how))) /\ UNCHANGED backoff
      BY <2>4 DEF ProbeAnswers
    <3> HIDE DEF next
    <3> QED
      BY <1>f, <3>1, <3>2
  <2>5. CASE ProbedStale(n)
    <3> DEFINE next == [task[n][Checker] EXCEPT !.pc = "umount", !.path = local[n], !.proc = "run"]
    <3>1. next.pc = "umount"
      BY <1>i DEF TaskTypes
    <3>2. Become(n, Checker, next) /\ UNCHANGED backoff
      BY <2>5 DEF ProbedStale
    <3> HIDE DEF next
    <3> QED
      BY <1>f, <3>1, <3>2
  <2>6. CASE DelayEnds(n)
    <3>1. (\E t : Become(n, Checker, t)) /\ Attempting(n) /\ UNCHANGED backoff
      BY <2>6 DEF DelayEnds, Remount, Attempting
    <3> QED
      BY <1>d, <1>g, <3>1, <1>a
  <2> QED
    BY <1>1, <2>1, <2>2, <2>3, <2>4, <2>5, <2>6 DEF CheckStep
<1>2. ASSUME NEW n \in Mounts, NEW a \in Actors, RemountStep(n, a)
      PROVE  backoff'[m] # "running"
  <2>1. a = Checker
    BY <1>a
  <2>2. CASE UnmountRuns(n, a)
    <3> DEFINE next == [task[n][Checker] EXCEPT !.proc = "ok"]
    <3>1. next.pc = "umount"
      BY <1>i, <2>1, <2>2 DEF UnmountRuns, At, TaskTypes
    <3>2. Become(n, Checker, next) /\ UNCHANGED backoff
      BY <2>1, <2>2 DEF UnmountRuns
    <3> HIDE DEF next
    <3> QED
      BY <1>f, <3>1, <3>2
  <2>3. CASE MountRuns(n, a)
    <3>1. (\E t : Become(n, Checker, t)) /\ Attempting(n) /\ UNCHANGED backoff
      BY <2>1, <2>3 DEF MountRuns, Attempting
    <3> QED
      BY <1>d, <1>g, <3>1, <1>a
  <2>4. CASE MountSucceeded(n, a)
    BY <1>f, <1>h, <2>1, <2>4 DEF MountSucceeded, ClearFailures
  <2>5. CASE MountFailed(n, a)
    <3>1. m # n /\ Attempting(m)
      BY <1>a, <2>1, <2>5, FailureMoves DEF Attempting, At
    <3>2. backoff'[m] = backoff[m]
      BY <1>b, <2>5, <3>1 DEF MountFailed
    <3> QED
      BY <1>c, <3>1, <3>2
  <2> QED
    BY <1>2, <2>2, <2>3, <2>4, <2>5 DEF RemountStep
<1>3. ASSUME UNCHANGED <<task, backoff>>
      PROVE  backoff'[m] # "running"
  BY <1>3, <1>c DEF Attempting, At
<1>4. ASSUME NEW n \in Mounts, Arrivals(n)
      PROVE  UNCHANGED <<task, backoff>>
  BY <1>4 DEF Arrivals, ApiSetEnabled, ApiAdd, ApiDelete, ApiUpdate
<1>5. /\ RoundEnds => UNCHANGED <<task, backoff>>
      /\ \A p \in Paths : KernelChanges(p) => UNCHANGED <<task, backoff>>
      /\ \A o \in Orphans : OrphanEnds(o) => UNCHANGED <<task, backoff>>
  BY DEF RoundEnds, KernelChanges, OrphanEnds
<1>6. ASSUME NEW n \in Mounts, BackoffElapses(n)
      PROVE  backoff'[m] # "running"
  <2>1. Attempting(m)
    BY <1>6 DEF BackoffElapses, Attempting, At
  <2> QED
    BY <1>b, <1>c, <1>6, <2>1 DEF BackoffElapses
<1>7. CASE StartRound
  <2>1. task'[m][Checker].pc \in {"queued", "idle"}
    <3>1. task[m] \in [Actors -> TaskTypes] /\ task[m][Checker].pc = "idle"
      BY <1>7, <1>a DEF StartRound, Inv, SleepMeansIdle, At, TypeOK
    <3>2. [Idle(m) EXCEPT !.pc = "queued"].pc = "queued"
      BY DEF Idle
    <3> QED
      BY <1>7, <1>a, <3>1, <3>2 DEF StartRound
  <2> QED
    BY <2>1 DEF Attempting, At
<1>8. ASSUME NEW n \in Mounts, NEW a \in Actors, MkdirReturns(n, a)
      PROVE  backoff'[m] # "running"
  <2>1. a = Checker
    BY <1>a
  <2>2. (\E t : Become(n, Checker, t)) /\ Attempting(n) /\ UNCHANGED backoff
    BY <1>8, <2>1 DEF MkdirReturns, Attempting
  <2> QED
    BY <1>d, <1>g, <2>2, <1>a
<1>9. \A n \in Mounts, c \in Clients : ~ApiUnmounted(n, c) /\ ~UsageReturns(n, c)
  OBVIOUS
<1> QED
  BY <1>1, <1>2, <1>3, <1>4, <1>5, <1>6, <1>7, <1>8, <1>9 DEF Next

\* Without manual remounts the monitor never starts an attempt on a mount whose
\* backoff is running, for any number of mounts and any max_retries (_check_one).
THEOREM BackoffIsHonoured == Spec => []BackoffHonoured
<1>1. Init => BackoffHonoured
  BY DEF Init, BackoffHonoured
<1>2. Inv /\ BackoffHonoured /\ [Next]_vars => BackoffHonoured'
  <2> SUFFICES ASSUME Inv, BackoffHonoured, [Next]_vars, Clients = {}, NEW m \in Mounts, Attempting(m)'
               PROVE  backoff'[m] # "running"
    BY DEF BackoffHonoured, Attempting
  <2>1. CASE Next
    BY <2>1, AttemptsAreAllowed
  <2>2. CASE UNCHANGED vars
    BY <2>2 DEF vars, statvars, BackoffHonoured, Attempting, InAttempt, At
  <2> QED
    BY <2>1, <2>2
<1> QED
  BY <1>1, <1>2, InvHolds, PTL DEF Spec

=============================================================================
