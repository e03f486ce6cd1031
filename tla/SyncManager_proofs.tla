------------------------- MODULE SyncManager_proofs -------------------------
(***************************************************************************)
(* Proofs about the sync jobs, for any jobs, targets and bounds.           *)
(***************************************************************************)
EXTENDS SyncManager, TLAPS

-----------------------------------------------------------------------------
(* Type correctness                                                        *)

\* The locals a run starts with are well typed.
LEMMA IdleType ==
    /\ Idle \in JobTypes
    /\ [Idle EXCEPT !.pc = "queued"] \in JobTypes
    /\ [Idle EXCEPT !.pc = "copy", !.proc = "run"] \in JobTypes
<1>1. 1 \in 1..Targets
  BY ConstantsAssumption
<1>2. Idle \in JobTypes
  BY <1>1 DEF Idle, JobTypes
<1> QED
  BY <1>2 DEF JobTypes

\* The locals of a run that turns to a target are well typed.
LEMMA LaunchType ==
    ASSUME NEW run \in JobTypes, NEW at \in 1..Targets, NEW failed \in BOOLEAN
    PROVE  [[run EXCEPT !.at = at, !.failed = failed] EXCEPT !.pc = "copy", !.proc = "run"]
               \in JobTypes
BY DEF JobTypes

\* One more failure stays within the saturated count.
LEMMA OneMoreFailType ==
    ASSUME TypeOK, NEW j \in Jobs
    PROVE  OneMoreFail(j) \in 0..MaxRetries
BY ConstantsAssumption DEF TypeOK, OneMoreFail

\* The end of a target, whether the run goes on or is over, keeps the types.
LEMMA TargetOverType ==
    ASSUME TypeOK, NEW j \in Jobs, NEW thisFailed \in BOOLEAN, TargetOver(j, thisFailed)
    PROVE  /\ status' \in [Jobs -> {"idle", "running", "ok", "failed"}]
           /\ fails' \in [Jobs -> 0..MaxRetries]
           /\ next' \in [Jobs -> {"due", "interval", "backoff"}]
           /\ job' \in [Jobs -> JobTypes]
<1> DEFINE failed == AnyTargetFailed(j, thisFailed)
<1>1. job[j] \in JobTypes /\ job[j].at \in 1..Targets /\ failed \in BOOLEAN
  BY DEF TypeOK, JobTypes, AnyTargetFailed
<1>2. CASE job[j].at < Targets
  <2> DEFINE run == [[job[j] EXCEPT !.at = @ + 1, !.failed = failed]
                        EXCEPT !.pc = "copy", !.proc = "run"]
  <2>1. job[j].at + 1 \in 1..Targets
    BY <1>1, <1>2, ConstantsAssumption
  <2>2. run \in JobTypes
    BY <1>1, <2>1, LaunchType
  <2>3. job' = [job EXCEPT ![j] = run] /\ UNCHANGED statvars
    BY <1>2 DEF TargetOver, Launch
  <2> QED
    BY <2>2, <2>3 DEF TypeOK, statvars
<1>3. CASE ~(job[j].at < Targets)
  <2>1. JobEnds(j, failed)
    BY <1>3 DEF TargetOver
  <2> QED
    BY <2>1, IdleType, OneMoreFailType, ConstantsAssumption DEF TypeOK, JobEnds
<1> QED
  BY <1>2, <1>3

\* The start state is well typed.
LEMMA InitTypeOK == Init => TypeOK
BY IdleType, ConstantsAssumption DEF Init, TypeOK

\* Every step of a run keeps the types.
LEMMA JobStepTypeOK ==
    ASSUME TypeOK, NEW j \in Jobs, JobStep(j)
    PROVE  TypeOK'
<1> USE DEF confvars, statvars, histvars
<1>1. CASE JobStarts(j)
  BY <1>1, IdleType DEF JobStarts, Launch, TypeOK
<1>2. CASE CopyExits(j)
  <2>1. job' \in [Jobs -> JobTypes]
    <3>1. PICK how \in {"ok", "fail"} : job' = [job EXCEPT ![j] = [job[j] EXCEPT !.proc = how]]
      BY <1>2 DEF CopyExits
    <3>2. [job[j] EXCEPT !.proc = how] \in JobTypes
      BY DEF TypeOK, JobTypes
    <3> QED
      BY <3>1, <3>2 DEF TypeOK
  <2>2. failures' \in 0..MaxFailures
    BY <1>2, ConstantsAssumption DEF CopyExits, Failure, TypeOK
  <2> QED
    BY <1>2, <2>1, <2>2 DEF CopyExits, TypeOK
<1>3. CASE CopyReturns(j)
  <2>1. PICK thisFailed \in BOOLEAN : TargetOver(j, thisFailed)
    BY <1>3 DEF CopyReturns
  <2>2. copied' \in [Jobs -> SUBSET (1..Targets)]
    <3>1. job[j].at \in 1..Targets
      BY DEF TypeOK, JobTypes
    <3>2. copied[j] \cup {job[j].at} \in SUBSET (1..Targets)
      BY <3>1 DEF TypeOK
    <3> QED
      BY <1>3, <3>2 DEF CopyReturns, TypeOK
  <2> QED
    BY <1>3, <2>1, <2>2, TargetOverType DEF CopyReturns, TypeOK
<1>4. CASE CopyTimesOut(j)
  BY <1>4, TargetOverType DEF CopyTimesOut, TypeOK
<1> QED
  BY <1>1, <1>2, <1>3, <1>4 DEF JobStep

\* Every request keeps the types.
LEMMA ArrivalsTypeOK ==
    ASSUME TypeOK, NEW j \in Jobs, Arrivals(j)
    PROVE  TypeOK'
<1> USE ConstantsAssumption DEF confvars, statvars, histvars, Request, TypeOK
<1>1. CASE ApiTrigger(j)
  BY <1>1 DEF ApiTrigger
<1>2. CASE ApiDelete(j)
  BY <1>2 DEF ApiDelete
<1>3. ASSUME NEW on \in BOOLEAN, ApiSetEnabled(j, on) PROVE TypeOK'
  BY <1>3 DEF ApiSetEnabled
<1>4. ASSUME NEW on \in BOOLEAN, ApiAdd(j, on) PROVE TypeOK'
  BY <1>4 DEF ApiAdd
<1>5. ASSUME NEW on \in BOOLEAN, NEW n \in Names, ApiUpdate(j, on, n) PROVE TypeOK'
  BY <1>5 DEF ApiUpdate
<1> QED
  BY <1>1, <1>2, <1>3, <1>4, <1>5 DEF Arrivals

\* Every step, or none, keeps the types.
LEMMA NextTypeOK ==
    ASSUME TypeOK, [Next]_vars
    PROVE  TypeOK'
<1> USE DEF confvars, statvars, histvars
<1>1. CASE LoopWakes
  BY <1>1, IdleType DEF LoopWakes, TypeOK
<1>2. CASE GatherReturns
  BY <1>2 DEF GatherReturns, TypeOK
<1>3. ASSUME NEW j \in Jobs, TimeComes(j) PROVE TypeOK'
  BY <1>3 DEF TimeComes, TypeOK
<1>4. ASSUME NEW j \in Jobs, CopyHangs(j) PROVE TypeOK'
  <2>1. job' \in [Jobs -> JobTypes]
    BY <1>4 DEF CopyHangs, TypeOK, JobTypes
  <2>2. failures' \in 0..MaxFailures
    BY <1>4, ConstantsAssumption DEF CopyHangs, Failure, TypeOK
  <2> QED
    BY <1>4, <2>1, <2>2 DEF CopyHangs, TypeOK
<1>5. CASE UNCHANGED vars
  BY <1>5 DEF vars, TypeOK
<1> QED
  BY <1>1, <1>2, <1>3, <1>4, <1>5, JobStepTypeOK, ArrivalsTypeOK DEF Next

\* Whatever the jobs, targets, failures and requests, every variable of the sync
\* manager keeps its type, and no run goes past its last target.
THEOREM TypeCorrect == Spec => []TypeOK
<1>1. TypeOK /\ [Next]_vars => TypeOK'
  BY NextTypeOK
<1> QED
  BY <1>1, InitTypeOK, PTL DEF Spec

-----------------------------------------------------------------------------
(* Runs of the gather do not overlap                                       *)

\* While the loop sleeps no run is under way: the gather waited for all of them.
SleepMeansIdle == loop = "sleep" => \A j \in Jobs : Is(j, "idle")

\* Outside the loop's own steps a job that is idle stays idle.
LEMMA IdleStaysIdle ==
    ASSUME TypeOK, [Next]_vars, ~LoopWakes, NEW k \in Jobs, Is(k, "idle")
    PROVE  Is(k, "idle")'
<1> USE DEF Is
<1>1. CASE GatherReturns \/ UNCHANGED vars
  BY <1>1 DEF GatherReturns, vars
<1>2. ASSUME NEW j \in Jobs, JobStep(j) PROVE Is(k, "idle")'
  <2>1. j # k
    BY <1>2 DEF JobStep, JobStarts, CopyExits, CopyReturns, CopyTimesOut
  <2>2. \E r : job' = [job EXCEPT ![j] = r]
    BY <1>2 DEF JobStep, JobStarts, CopyExits, CopyReturns, CopyTimesOut,
                TargetOver, JobEnds, Launch
  <2> QED
    BY <2>1, <2>2 DEF TypeOK
<1>3. ASSUME NEW j \in Jobs, Arrivals(j) PROVE Is(k, "idle")'
  BY <1>3 DEF Arrivals, ApiTrigger, ApiDelete, ApiSetEnabled, ApiAdd, ApiUpdate
<1>4. ASSUME NEW j \in Jobs, TimeComes(j) \/ CopyHangs(j) PROVE Is(k, "idle")'
  BY <1>4 DEF TimeComes, CopyHangs, TypeOK
<1> QED
  BY <1>1, <1>2, <1>3, <1>4 DEF Next

\* Only the loop itself changes whether it sleeps.
LEMMA LoopKept ==
    ASSUME [Next]_vars, ~LoopWakes, ~GatherReturns
    PROVE  UNCHANGED loop
<1>1. ASSUME NEW j \in Jobs, JobStep(j) \/ Arrivals(j) \/ TimeComes(j) \/ CopyHangs(j)
      PROVE  UNCHANGED loop
  BY <1>1 DEF JobStep, JobStarts, CopyExits, CopyReturns, CopyTimesOut, Arrivals,
              ApiTrigger, ApiDelete, ApiSetEnabled, ApiAdd, ApiUpdate, TimeComes, CopyHangs
<1> QED
  BY <1>1 DEF Next, vars

\* Every step, or none, keeps the loop from sleeping beside a run.
LEMMA NextSleepMeansIdle ==
    ASSUME TypeOK, SleepMeansIdle, [Next]_vars
    PROVE  SleepMeansIdle'
<1>1. CASE LoopWakes
  BY <1>1 DEF LoopWakes, SleepMeansIdle
<1>2. CASE GatherReturns
  BY <1>2 DEF GatherReturns, SleepMeansIdle, Is
<1>3. CASE ~LoopWakes /\ ~GatherReturns
  BY <1>3, LoopKept, IdleStaysIdle DEF SleepMeansIdle
<1> QED
  BY <1>1, <1>2, <1>3

-----------------------------------------------------------------------------
(* What a run has copied                                                   *)

\* The targets of a run before the current one.
Before(j) == 1..(job[j].at - 1)

\* A run under way knows whether it missed a target: failed is set exactly when
\* one of the targets before the current one was not copied.
Accounts(j) ==
    Is(j, "copy") =>
        /\ status[j] = "running"
        /\ copied[j] \subseteq Before(j)
        /\ job[j].failed <=> copied[j] # Before(j)

\* VerdictCoversAllTargets, of one job.
Verdict(j) ==
    /\ status[j] = "ok" => copied[j] = 1..Targets
    /\ status[j] = "failed" => copied[j] # 1..Targets

RunKnowsItsFailure == \A j \in Jobs : Accounts(j)

Inv == TypeOK /\ SleepMeansIdle /\ RunKnowsItsFailure /\ VerdictCoversAllTargets

\* A job that a step leaves alone keeps its account and its verdict.
LEMMA UntouchedKeeps ==
    ASSUME NEW j \in Jobs, Accounts(j), Verdict(j),
           job'[j] = job[j], status'[j] = status[j], copied'[j] = copied[j]
    PROVE  Accounts(j)' /\ Verdict(j)'
BY DEF Accounts, Verdict, Is, Before

\* Adding an element that neither set has does not make different sets equal.
LEMMA AddSame ==
    ASSUME NEW S, NEW T, NEW x, x \notin S, x \notin T
    PROVE  S = T <=> S \cup {x} = T \cup {x}
<1>1. ASSUME S \cup {x} = T \cup {x} PROVE S = T
  <2>1. S = (S \cup {x}) \ {x} /\ T = (T \cup {x}) \ {x}
    OBVIOUS
  <2> QED
    BY <1>1, <2>1
<1> QED
  BY <1>1

\* The end of a target: with the copies made so far, done, the account is right
\* of the next target, and the verdict right when there is none.
LEMMA TargetOverAccounts ==
    ASSUME TypeOK, NEW j \in Jobs, Is(j, "copy"), Accounts(j),
           NEW thisFailed \in BOOLEAN, TargetOver(j, thisFailed),
           copied' = IF thisFailed THEN copied
                     ELSE [copied EXCEPT ![j] = @ \cup {job[j].at}]
    PROVE  Accounts(j)' /\ Verdict(j)'
<1> DEFINE at == job[j].at
           failed == AnyTargetFailed(j, thisFailed)
<1>1. at \in 1..Targets /\ job[j].failed \in BOOLEAN /\ Targets \in Nat
  BY ConstantsAssumption DEF TypeOK, JobTypes
<1>2. /\ status[j] = "running"
      /\ copied[j] \subseteq 1..(at - 1)
      /\ job[j].failed <=> copied[j] # 1..(at - 1)
  BY DEF Accounts, Before
<1>3. copied'[j] = IF thisFailed THEN copied[j] ELSE copied[j] \cup {at}
  BY DEF TypeOK
<1>4. /\ copied'[j] \subseteq 1..at
      /\ failed <=> copied'[j] # 1..at
  <2>1. at \notin copied[j] /\ 1..at = 1..(at - 1) \cup {at} /\ at \notin 1..(at - 1)
    BY <1>1, <1>2
  <2>2. CASE thisFailed
    BY <1>2, <1>3, <2>1, <2>2 DEF AnyTargetFailed
  <2>3. CASE ~thisFailed
    <3>1. copied'[j] = copied[j] \cup {at} /\ (failed <=> copied[j] # 1..(at - 1))
      BY <1>2, <1>3, <2>3 DEF AnyTargetFailed
    <3>2. copied[j] # 1..(at - 1) <=> copied[j] \cup {at} # 1..(at - 1) \cup {at}
      BY <2>1, AddSame
    <3> QED
      BY <1>2, <2>1, <3>1, <3>2
  <2> QED
    BY <2>2, <2>3
<1>5. CASE at < Targets
  <2>1. job'[j] = [[job[j] EXCEPT !.at = @ + 1, !.failed = failed]
                      EXCEPT !.pc = "copy", !.proc = "run"]
    BY <1>5 DEF TargetOver, Launch, TypeOK
  <2>2. status'[j] = "running"
    BY <1>2, <1>5 DEF TargetOver, statvars
  <2>3. job'[j].at = at + 1 /\ job'[j].failed = failed
    BY <2>1 DEF TypeOK, JobTypes
  <2>4. 1..(job'[j].at - 1) = 1..at
    BY <1>1, <2>3
  <2> QED
    BY <1>4, <2>2, <2>3, <2>4 DEF Accounts, Verdict, Before
<1>6. CASE ~(at < Targets)
  <2>1. JobEnds(j, failed) /\ at = Targets
    BY <1>1, <1>6 DEF TargetOver
  <2>2. job'[j].pc = "idle" /\ status'[j] = IF failed THEN "failed" ELSE "ok"
    BY <2>1 DEF JobEnds, Idle, TypeOK
  <2> QED
    BY <1>4, <2>1, <2>2 DEF Accounts, Verdict, Is
<1> QED
  BY <1>5, <1>6

\* A step of the run of one job leaves every account and verdict right.
LEMMA JobStepAccounts ==
    ASSUME Inv, NEW j \in Jobs, JobStep(j), NEW k \in Jobs
    PROVE  Accounts(k)' /\ Verdict(k)'
<1>0. Accounts(k) /\ Verdict(k) /\ Accounts(j) /\ TypeOK
  BY DEF Inv, RunKnowsItsFailure, VerdictCoversAllTargets, Verdict
<1>1. CASE j # k
  <2>1. job'[k] = job[k] /\ status'[k] = status[k] /\ copied'[k] = copied[k]
    BY <1>0, <1>1 DEF JobStep, JobStarts, CopyExits, CopyReturns, CopyTimesOut, TypeOK,
                      TargetOver, JobEnds, Launch, statvars, histvars
  <2> QED
    BY <1>0, <2>1, UntouchedKeeps
<1>2. CASE j = k
  <2>1. CASE JobStarts(j)
    <3>1. /\ job'[j].at = 1 /\ ~job'[j].failed
          /\ status'[j] = "running" /\ copied'[j] = {}
      BY <1>0, <2>1 DEF JobStarts, Launch, Idle, TypeOK
    <3> QED
      BY <1>2, <3>1 DEF Accounts, Verdict, Before
  <2>2. CASE CopyExits(j)
    <3>1. /\ job'[j].at = job[j].at /\ job'[j].failed = job[j].failed
          /\ job'[j].pc = job[j].pc
          /\ status'[j] = status[j] /\ copied'[j] = copied[j]
      BY <1>0, <2>2 DEF CopyExits, TypeOK, JobTypes, statvars, histvars
    <3> QED
      BY <1>0, <1>2, <3>1 DEF Accounts, Verdict, Before, Is
  <2>3. CASE CopyReturns(j)
    <3>1. PICK thisFailed \in BOOLEAN :
              /\ TargetOver(j, thisFailed)
              /\ copied' = IF thisFailed THEN copied
                           ELSE [copied EXCEPT ![j] = @ \cup {job[j].at}]
      BY <2>3 DEF CopyReturns
    <3> QED
      BY <1>0, <1>2, <2>3, <3>1, TargetOverAccounts DEF CopyReturns
  <2>4. CASE CopyTimesOut(j)
    BY <1>0, <1>2, <2>4, TargetOverAccounts DEF CopyTimesOut, histvars
  <2> QED
    BY <2>1, <2>2, <2>3, <2>4 DEF JobStep
<1> QED
  BY <1>1, <1>2

\* Every step, or none, leaves every account and verdict right.
LEMMA NextAccounts ==
    ASSUME Inv, [Next]_vars, NEW k \in Jobs
    PROVE  Accounts(k)' /\ Verdict(k)'
<1> USE DEF statvars, histvars
<1>0. Accounts(k) /\ Verdict(k) /\ TypeOK
  BY DEF Inv, RunKnowsItsFailure, VerdictCoversAllTargets, Verdict
<1>1. CASE LoopWakes
  <2>1. Is(k, "idle") /\ status'[k] = status[k] /\ copied'[k] = copied[k]
    BY <1>1 DEF LoopWakes, Inv, SleepMeansIdle
  <2>2. job'[k].pc # "copy"
    BY <1>1, <2>1 DEF LoopWakes, Idle, Is
  <2> QED
    BY <1>0, <2>1, <2>2 DEF Accounts, Verdict, Is
<1>2. CASE GatherReturns \/ UNCHANGED vars
  BY <1>0, <1>2, UntouchedKeeps DEF GatherReturns, vars
<1>3. ASSUME NEW j \in Jobs, Arrivals(j) PROVE Accounts(k)' /\ Verdict(k)'
  <2>1. job'[k] = job[k] /\ status'[k] = status[k] /\ copied'[k] = copied[k]
    BY <1>3 DEF Arrivals, ApiTrigger, ApiDelete, ApiSetEnabled, ApiAdd, ApiUpdate
  <2> QED
    BY <1>0, <2>1, UntouchedKeeps
<1>4. ASSUME NEW j \in Jobs, TimeComes(j) PROVE Accounts(k)' /\ Verdict(k)'
  BY <1>0, <1>4, UntouchedKeeps DEF TimeComes
<1>5. ASSUME NEW j \in Jobs, CopyHangs(j) PROVE Accounts(k)' /\ Verdict(k)'
  <2>1. /\ job'[k].at = job[k].at /\ job'[k].failed = job[k].failed
        /\ job'[k].pc = job[k].pc
        /\ status'[k] = status[k] /\ copied'[k] = copied[k]
    BY <1>0, <1>5 DEF CopyHangs, TypeOK, JobTypes
  <2> QED
    BY <1>0, <2>1 DEF Accounts, Verdict, Before, Is
<1> QED
  BY <1>1, <1>2, <1>3, <1>4, <1>5, JobStepAccounts DEF Next

\* The inductive invariant of the sync manager.
LEMMA InvHolds == Spec => []Inv
<1>1. Init => Inv
  <2>1. Init => SleepMeansIdle /\ RunKnowsItsFailure /\ VerdictCoversAllTargets
    BY DEF Init, SleepMeansIdle, RunKnowsItsFailure, Accounts, VerdictCoversAllTargets, Is, Idle
  <2> QED
    BY <2>1, InitTypeOK DEF Inv
<1>2. Inv /\ [Next]_vars => Inv'
  <2> SUFFICES ASSUME Inv, [Next]_vars PROVE Inv'
    OBVIOUS
  <2>1. TypeOK' /\ SleepMeansIdle'
    BY NextTypeOK, NextSleepMeansIdle DEF Inv
  <2>2. \A k \in Jobs : Accounts(k)' /\ Verdict(k)'
    BY NextAccounts
  <2>3. RunKnowsItsFailure' /\ VerdictCoversAllTargets'
    BY <2>2 DEF RunKnowsItsFailure, VerdictCoversAllTargets, Verdict
  <2> QED
    BY <2>1, <2>3 DEF Inv
<1> QED
  BY <1>1, <1>2, PTL DEF Spec

\* A job shown OK copied all of its targets in its last run and one shown FAILED
\* did not, for any number of targets and any order of failures and time-outs.
THEOREM VerdictIsRight == Spec => []VerdictCoversAllTargets
<1>1. Inv => VerdictCoversAllTargets
  BY DEF Inv
<1> QED
  BY <1>1, InvHolds, PTL

\* No run begins while a run of any job is under way, whatever is deleted, renamed,
\* added or triggered meanwhile.
THEOREM RunsKeptApart == Spec => RunsDoNotOverlap
<1> DEFINE Begins == \A j, k \in Jobs : Is(j, "idle") /\ ~Is(j, "idle")' => Is(k, "idle")
<1>1. Inv /\ [Next]_vars => [Begins]_vars
  <2> SUFFICES ASSUME Inv, [Next]_vars, NEW j \in Jobs, NEW k \in Jobs,
                      Is(j, "idle"), ~Is(j, "idle")'
               PROVE  Is(k, "idle")
    OBVIOUS
  <2>1. LoopWakes
    BY IdleStaysIdle DEF Inv
  <2> QED
    BY <2>1 DEF LoopWakes, Inv, SleepMeansIdle
<1> QED
  BY <1>1, InvHolds, PTL DEF Spec, RunsDoNotOverlap

=============================================================================
