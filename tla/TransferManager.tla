--------------------------- MODULE TransferManager ---------------------------
(***************************************************************************)
(* One-shot file transfers: TransferManager and TransferState of           *)
(* transfer.py with the handlers of /api/transfers, the subprocess of each *)
(* _run task, the history kept in transfers.json, and the daemon stopping, *)
(* crashing and starting again.                                            *)
(*                                                                         *)
(* start, resume and cancel never suspend, so each is one step; _run is    *)
(* split at its awaits.  Commands, output, timestamps and error texts are  *)
(* left out.                                                               *)
(***************************************************************************)
EXTENDS Naturals, SequencesExt

CONSTANTS
    Transfers,   \* transfer ids, each drawn once (uuid4)
    Runs,        \* _run tasks: the bound on starts and resumes of a behaviour
    None,        \* no value: _proc before the first launch, the transfer of an unused run
    MaxHistory,  \* _MAX_HISTORY
    MaxCrashes,  \* bound on the stops and crashes of a behaviour
    MaxFailures, \* bound on the saves of a behaviour that fail
    TornWrites   \* whether a crash may catch _save_to_disk in mid-write

ASSUME ConstantsAssumption ==
    /\ None \notin Runs \cup Transfers
    /\ MaxHistory \in Nat \ {0}
    /\ MaxCrashes \in Nat
    /\ MaxFailures \in Nat
    /\ TornWrites \in BOOLEAN

Active   == {"pending", "running"}
Final    == {"done", "failed", "cancelled"}
Statuses == Active \cup Final \cup {"interrupted"}
Resumable == {"interrupted", "failed", "cancelled"}

\* A run awaits its first slot of the loop ("ready"), create_subprocess_exec
\* ("exec"), both drains ("drain") or the exit ("wait").
InFlight == {"ready", "exec", "drain", "wait"}
Exited   == {"exit0", "exitN"}

VARIABLES
    up,        \* the daemon runs
    known,     \* keys of _transfers
    history,   \* _history, newest first
    status,    \* status of each TransferState ("none" where there is no object)
    proc,      \* the run whose subprocess _proc holds
    run,       \* per run: where it is, its transfer, its subprocess
    disk,      \* what loading transfers.json would find
    saved,     \* history: whether the last save or load of the history succeeded
    failures,  \* saves that failed
    crashes

memory == <<known, history, status, proc>>
filevars == <<disk, saved, failures>>
vars == <<up, memory, run, filevars, crashes>>

Init ==
    /\ up = TRUE
    /\ known = {}
    /\ history = <<>>
    /\ status = [t \in Transfers |-> "none"]
    /\ proc = [t \in Transfers |-> None]
    /\ run = [r \in Runs |-> [pc |-> "free", tid |-> None, os |-> "none"]]
    /\ disk = <<>>
    /\ saved = TRUE
    /\ failures = 0
    /\ crashes = 0

SetStatus(t, s) == status' = [status EXCEPT ![t] = s]

Records(list, st) == [i \in DOMAIN list |-> [id |-> list[i], status |-> st[list[i]]]]

\* write_text truncates the file before it writes, so a save that fails leaves the
\* old records or none; the error is logged and the caller carries on.
Writes(records) ==
    \/ disk' = records /\ saved' = TRUE /\ UNCHANGED failures
    \/ /\ failures < MaxFailures
       /\ failures' = failures + 1
       /\ saved' = FALSE
       /\ disk' \in {disk, <<>>}

\* Mutant: a save that still sees the status from before the step.
SaveBeforeChange == Writes(Records(history', status))

\* _save_to_disk, at the end of the step that changed the history or a status.
Save == Writes(Records(history', status'))

Spawn(r, t) ==
    /\ run[r].pc = "free"
    /\ run' = [run EXCEPT ![r] = [pc |-> "ready", tid |-> t, os |-> "none"]]

-----------------------------------------------------------------------------
(* The HTTP requests.                                                      *)

\* Mutants: no bound on the history; eviction that forgets the dict entry.
KeepAll(ids, all) == history' = ids /\ known' = all
EvictFromListOnly(ids, all) ==
    /\ history' = IF Len(ids) > MaxHistory THEN SubSeq(ids, 1, Len(ids) - 1) ELSE ids
    /\ known' = all

\* The oldest entry goes once there is one too many, whatever its state.
Evict(ids, all) ==
    IF Len(ids) > MaxHistory
    THEN /\ history' = SubSeq(ids, 1, Len(ids) - 1)
         /\ known' = all \ {ids[Len(ids)]}
    ELSE history' = ids /\ known' = all

Start(t, r) ==
    /\ up
    /\ status[t] = "none"
    /\ t \notin known
    /\ t \notin {disk[i].id : i \in DOMAIN disk}
    /\ \A s \in Runs : run[s].tid # t
    /\ SetStatus(t, "pending")
    /\ Evict(<<t>> \o history, known \cup {t})
    /\ Spawn(r, t)
    /\ Save
    /\ UNCHANGED <<up, proc, crashes>>

Resume(t, r) ==
    /\ up
    /\ t \in known
    /\ status[t] \in Resumable
    /\ SetStatus(t, "pending")
    /\ history' = <<t>> \o RemoveFirst(history, t)
    /\ Spawn(r, t)
    /\ Save
    /\ UNCHANGED <<up, known, proc, crashes>>

\* SIGTERM goes to the subprocess _proc holds, if there is one and it lives.  The
\* answer to a start names the transfer, and by the time a client asks for it the
\* first task, which was queued before the answer, has begun; that of a resume,
\* whose request may come together with a cancel, need not have.
Cancel(t) ==
    LET p == proc[t] IN
    /\ up
    /\ t \in known
    /\ status[t] \in Active
    /\ \E r \in Runs : run[r].tid = t /\ run[r].pc # "ready"
    /\ SetStatus(t, "cancelled")
    /\ IF p # None /\ run[p].os = "alive"
       THEN run' = [run EXCEPT ![p].os = "termed"]
       ELSE UNCHANGED run
    /\ UNCHANGED <<up, known, history, proc, crashes>>
    /\ Save

-----------------------------------------------------------------------------
(* TransferManager._run                                                    *)

Moves(r, from, to) ==
    /\ up
    /\ run[r].pc = from
    /\ run' = [run EXCEPT ![r].pc = to]

\* RUNNING, whatever the status was meanwhile; then the process is launched
\* before the coroutine first suspends.
RunStarts(r) ==
    /\ up
    /\ run[r].pc = "ready"
    /\ SetStatus(run[r].tid, "running")
    /\ run' = [run EXCEPT ![r].pc = "exec", ![r].os = "alive"]
    /\ UNCHANGED <<up, known, history, proc, filevars, crashes>>

\* The tool is not installed, or launching it fails in another way.
RunCannotStart(r) ==
    /\ Moves(r, "ready", "over")
    /\ SetStatus(run[r].tid, "failed")
    /\ UNCHANGED <<up, known, history, proc, crashes>>
    /\ Save

ExecReturns(r) ==
    /\ Moves(r, "exec", "drain")
    /\ proc' = [proc EXCEPT ![run[r].tid] = r]
    /\ UNCHANGED <<up, known, history, status, filevars, crashes>>

\* At end of file, or at the next line once the transfer is CANCELLED.
DrainReturns(r) ==
    /\ Moves(r, "drain", "wait")
    /\ run[r].os \in Exited \/ status[run[r].tid] = "cancelled"
    /\ UNCHANGED <<up, memory, filevars, crashes>>

\* Mutant: a run that ends when its transfer was already settled sets no status.
ResultIfRunning(r) ==
    LET t == run[r].tid IN
    IF status[t] # "running" THEN UNCHANGED status
    ELSE IF run[r].os = "exit0" THEN SetStatus(t, "done") ELSE UNCHANGED status

Result(r) ==
    LET t == run[r].tid IN
    IF status[t] = "cancelled" THEN UNCHANGED status
    ELSE IF run[r].os = "exit0" THEN SetStatus(t, "done") ELSE SetStatus(t, "failed")

RunEnds(r) ==
    /\ Moves(r, "wait", "over")
    /\ run[r].os \in Exited
    /\ Result(r)
    /\ UNCHANGED <<up, known, history, proc, crashes>>
    /\ Save

-----------------------------------------------------------------------------
(* Subprocesses, and the daemon going down and up.                         *)

ProcExits(r) ==
    /\ run[r].os \in {"alive", "termed"}
    /\ \E how \in Exited : run' = [run EXCEPT ![r].os = how]
    /\ UNCHANGED <<up, memory, filevars, crashes>>

Goes ==
    /\ up
    /\ up' = FALSE
    /\ crashes < MaxCrashes
    /\ crashes' = crashes + 1
    /\ known' = {}
    /\ history' = <<>>
    /\ status' = [t \in Transfers |-> "none"]
    /\ proc' = [t \in Transfers |-> None]
    /\ run' = [r \in Runs |-> IF run[r].pc \in InFlight THEN [run[r] EXCEPT !.pc = "over"] ELSE run[r]]

\* The tasks are cancelled, and the finally of each that had started saves.
Shutdown ==
    /\ Goes
    /\ IF \E r \in Runs : run[r].pc \in InFlight \ {"ready"}
       THEN Writes(Records(history, status))
       ELSE UNCHANGED filevars

\* write_text truncates the file first: a crash inside it leaves no JSON.
Crash ==
    /\ Goes
    /\ disk' = disk \/ (TornWrites /\ disk' = <<>>)
    /\ UNCHANGED <<saved, failures>>

\* Mutant: the daemon takes the saved statuses as they are.
LoadedAsSaved(s) == s

Loaded(s) == IF s \in Active THEN "interrupted" ELSE s

\* __init__ and _load_from_disk
Restart ==
    /\ ~up
    /\ up' = TRUE
    /\ history' = [i \in DOMAIN disk |-> disk[i].id]
    /\ known' = {disk[i].id : i \in DOMAIN disk}
    /\ status' = [t \in Transfers |->
                    IF \E i \in DOMAIN disk : disk[i].id = t
                    THEN Loaded(disk[CHOOSE i \in DOMAIN disk : disk[i].id = t].status)
                    ELSE "none"]
    /\ saved' = TRUE
    /\ UNCHANGED <<proc, run, disk, failures, crashes>>

-----------------------------------------------------------------------------
RunStep(r) ==
    RunStarts(r) \/ RunCannotStart(r) \/ ExecReturns(r) \/ DrainReturns(r) \/ RunEnds(r)

Next ==
    \/ \E t \in Transfers, r \in Runs : Start(t, r) \/ Resume(t, r)
    \/ \E t \in Transfers : Cancel(t)
    \/ \E r \in Runs : RunStep(r) \/ ProcExits(r)
    \/ Shutdown
    \/ Crash
    \/ Restart

\* A process whose output is read, or that was sent SIGTERM, exits some day; one
\* whose pipe nobody reads may block on it for ever.
ExitsWhenServed(r) == (run[r].pc = "drain" \/ run[r].os = "termed") /\ ProcExits(r)

Fairness ==
    /\ \A r \in Runs : WF_vars(RunStep(r)) /\ WF_vars(ExitsWhenServed(r))

Spec == Init /\ [][Next]_vars
FairSpec == Spec /\ Fairness

-----------------------------------------------------------------------------
\* Every variable keeps its type; the history list never exceeds _MAX_HISTORY.
TypeOK ==
    /\ up \in BOOLEAN
    /\ known \subseteq Transfers
    /\ history \in Seq(Transfers) /\ Len(history) <= MaxHistory
    /\ status \in [Transfers -> Statuses \cup {"none"}]
    /\ proc \in [Transfers -> Runs \cup {None}]
    /\ run \in [Runs -> [pc : InFlight \cup {"free", "over"}, tid : Transfers \cup {None},
                         os : {"none", "alive", "termed"} \cup Exited]]
    /\ disk \in Seq([id : Transfers, status : Statuses])
    /\ saved \in BOOLEAN
    /\ failures \in 0..MaxFailures
    /\ crashes \in 0..MaxCrashes

\* The list and the dict of the manager name the same transfers, each once,
\* through evictions, resumes that reorder the list, and reloads.
HistoryMatchesKnown ==
    /\ known = {history[i] : i \in DOMAIN history}
    /\ \A i, j \in DOMAIN history : history[i] = history[j] => i = j

\* A transfer shown PENDING or RUNNING is really being worked on: no order of
\* cancel, resume, a late end of an old run and a restart leaves it so for good.
ActiveHasRun ==
    \A t \in Transfers :
        status[t] \in Active => \E r \in Runs : run[r].tid = t /\ run[r].pc \in InFlight

\* Unless the last save failed, a daemon killed now knows every transfer again,
\* and how each that has ended did end: a save that succeeds makes good what
\* failed ones before it lost.
HistoryIsDurable ==
    up /\ saved =>
        \A t \in known : \E i \in DOMAIN disk :
            /\ disk[i].id = t
            /\ status[t] \in Final => disk[i].status = status[t]

\* Every transfer shown PENDING or RUNNING reaches another status (or the daemon
\* goes down): a cancelled or superseded run never blocks the current one.
ActiveEnds ==
    \A t \in Transfers : status[t] \in Active ~> status[t] \notin Active

(* Promises of docstrings that the code does not keep *)

\* cancel: "Sends SIGTERM to the subprocess if it is still running."
CancelledIsSignalled ==
    \A t \in Transfers, r \in Runs :
        status[t] = "cancelled" /\ run[r].tid = t /\ run[r].pc \in InFlight
            => run[r].os # "alive"

\* cancel: "Cancel a pending or running transfer."  Only a resume or a restart may
\* give a cancelled transfer another status.
CancelledStays ==
    [][\A t \in Transfers :
          status[t] = "cancelled" /\ up' => status'[t] \in {"cancelled", "pending"}]_vars

\* TransferManager: "State is persisted to transfers.json in the config directory
\* so that interrupted transfers can be resumed after a daemon restart."
KnownIsPersisted == up => known \subseteq {disk[i].id : i \in DOMAIN disk}

=============================================================================
