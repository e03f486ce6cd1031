----------------------------- MODULE ControlPlane -----------------------------
(***************************************************************************)
(* The daemon's configuration while it runs: the AppConfig of the process, *)
(* the jobs Monitor and SyncManager watch, config.toml, the handlers of    *)
(* /api/mounts, /api/syncs, /api/hosts, /api/settings and                  *)
(* /api/notifications (api.py), save (config.py), SIGHUP and start         *)
(* (main.py), a user who edits the file, and the daemon stopping or        *)
(* crashing at any moment.                                                 *)
(*                                                                         *)
(* A handler never suspends: its change of memory is one step, and until   *)
(* its save has ended only the user and a crash come in between.  Requests *)
(* answered 404 or 409 without any change are left out.                    *)
(***************************************************************************)
EXTENDS ConfigFile

CONSTANTS
    Payloads,     \* per kind, what requests say of a job
    HandEdits,    \* what the user may put in the file
    InitialFiles, \* what the file may be at first
    MaxRequests, MaxReloads, MaxStarts,  \* bounds of a behaviour
    MaxUpsets     \* bound on hand edits and writes that end early, together

\* A user leaves a file that start would accept; reload does not validate.
ASSUME ControlAssumption ==
    /\ \A k \in Kinds : Payloads[k] \subseteq Details(k)
    /\ \A f \in HandEdits \cup (InitialFiles \ {Absent}) : IsConfig(f) /\ Valid(f) /\ Resolved(f)
    /\ {MaxRequests, MaxUpsets, MaxReloads, MaxStarts} \subseteq Nat

VARIABLES
    up,        \* the daemon runs
    settings,  \* config.daemon and config.notifications
    hosts,     \* config.hosts
    jobs,      \* config.mounts and config.syncs: each object, and whether the
               \* watched job of that name is the same object
    states,    \* Monitor.states and SyncManager.states: the config of each
    step,      \* where save is: "idle", "saving" or "written"
    temp,      \* the temporary file of that save
    short,     \* the last write of a temporary file ended early
    reply,     \* the answer of the last request, until something else happens
    file,      \* config.toml
    reloaded,  \* there was a reload since the daemon started
    requests, edits, reloads, starts, shorts

memory == <<settings, hosts, jobs, states>>
counters == <<requests, edits, reloads, starts, shorts>>
vars == <<up, memory, step, temp, short, reply, file, reloaded, counters>>

None == [k \in Kinds |-> <<>>]

Init ==
    /\ up = FALSE
    /\ settings = Defaults /\ hosts = <<>> /\ jobs = None /\ states = None
    /\ step = "idle" /\ temp = Absent /\ short = FALSE /\ reply = "none"
    /\ file \in InitialFiles
    /\ reloaded = FALSE
    /\ requests = 0 /\ edits = 0 /\ reloads = 0 /\ starts = 0 /\ shorts = 0

JobsOf(entries) == [i \in DOMAIN entries |-> entries[i].job]

\* What save renders.
Content ==
    [settings |-> settings, hosts |-> hosts, jobs |-> [k \in Kinds |-> JobsOf(jobs[k])]]

SharedNames(k) == {jobs[k][i].job.name : i \in {x \in DOMAIN jobs[k] : jobs[k][x].shared}}

-----------------------------------------------------------------------------
(* Requests.  A handler that changed the configuration saves it.           *)

Request ==
    /\ up /\ step = "idle"
    /\ requests < MaxRequests
    /\ requests' = requests + 1
    /\ UNCHANGED <<up, temp, short, file, reloaded, edits, reloads, starts, shorts>>

Saves == step' = "saving" /\ reply' = "none"

\* _resolve_remote: the first host of that name supplies the server.
Resolves(p) == p.host = NoHost \/ Known(hosts, p.host)

Built(n, p) ==
    [name |-> n, on |-> p.on, tool |-> p.tool, host |-> p.host,
     server |-> IF p.host = NoHost THEN p.server ELSE hosts[FirstNamed(hosts, p.host)].server,
     text |-> p.text]

\* The watched object n becomes job j; the list shows it where it is the same object.
Edited(entries, n, j) ==
    [i \in DOMAIN entries |->
        IF entries[i].shared /\ entries[i].job.name = n
        THEN [entries[i] EXCEPT !.job = j] ELSE entries[i]]

Edit(k, n, j) ==
    /\ jobs' = [jobs EXCEPT ![k] = Edited(@, n, j)]
    /\ states' = [states EXCEPT ![k][n] = j]
    /\ UNCHANGED <<settings, hosts>>

\* self.states[n] = a new state.
Watching(watched, n, j) ==
    [x \in DOMAIN watched \cup {n} |-> IF x = n THEN j ELSE watched[x]]

AddJob(k, n, p) ==
    /\ Request
    /\ n \notin DOMAIN states[k]
    /\ Resolves(p)
    /\ LET j == Built(n, p) IN
       /\ jobs' = [jobs EXCEPT ![k] = Append(@, [job |-> j, shared |-> TRUE])]
       /\ states' = [states EXCEPT ![k] = Watching(@, n, j)]
    /\ UNCHANGED <<settings, hosts>>
    /\ Saves

UpdateJob(k, n, p) ==
    /\ Request
    /\ n \in DOMAIN states[k]
    /\ Resolves(p)
    /\ Edit(k, n, Built(n, p))
    /\ Saves

\* Mutant: the rename trusts that the list holds the watched object.
KeepReplaced(entries, n, j) == entries

\* After an edit that renamed the object: the first entry still named n makes
\* way for it.  Such an entry is a copy that came with a reload.
Replaced(entries, n, j) ==
    LET i == SelectInSeq(entries, LAMBDA e : e.job.name = n) IN
    IF i = 0 THEN entries ELSE ReplaceAt(entries, i, [job |-> j, shared |-> TRUE])

RenameJob(k, n, m, p) ==
    LET j == Built(m, p) IN
    /\ Request
    /\ n \in DOMAIN states[k] /\ m \notin DOMAIN states[k]
    /\ Resolves(p)
    /\ jobs' = [jobs EXCEPT ![k] = Replaced(Edited(@, n, j), n, j)]
    /\ states' = [states EXCEPT ![k] = Watching(Restrict(@, DOMAIN @ \ {n}), m, j)]
    /\ UNCHANGED <<settings, hosts>>
    /\ Saves

\* The new name is taken: 409, after the other fields were assigned.
RenameConflicts(k, n, m, p) ==
    /\ Request
    /\ {n, m} \subseteq DOMAIN states[k] /\ m # n
    /\ Resolves(p)
    /\ Edit(k, n, Built(n, p))
    /\ reply' = "error"
    /\ UNCHANGED step

DeleteJob(k, n) ==
    /\ Request
    /\ n \in DOMAIN states[k]
    /\ jobs' = [jobs EXCEPT ![k] = Without(@, {e \in ToSet(@) : e.job.name = n})]
    /\ states' = [states EXCEPT ![k] = Restrict(@, DOMAIN @ \ {n})]
    /\ UNCHANGED <<settings, hosts>>
    /\ Saves

SetEnabled(k, n, on) ==
    /\ Request
    /\ n \in DOMAIN states[k]
    /\ Edit(k, n, [states[k][n] EXCEPT !.on = on])
    /\ Saves

SwitchBackend(n) ==
    /\ Request
    /\ n \in DOMAIN states["mount"]
    /\ Edit("mount", n, [states["mount"][n] EXCEPT !.tool = IF @ = "sshfs" THEN "rclone" ELSE "sshfs"])
    /\ Saves

UpdateSettings(s) ==
    /\ Request
    /\ settings' = s
    /\ UNCHANGED <<hosts, jobs, states>>
    /\ Saves

AddHost(h) ==
    /\ Request
    /\ ~Known(hosts, h.name)
    /\ hosts' = Append(hosts, h)
    /\ UNCHANGED <<settings, jobs, states>>
    /\ Saves

\* Mutant: the cascade forgets the syncs.
MovedMounts(k, j, n, m) == IF k = "mount" /\ j.host = n THEN [j EXCEPT !.host = m] ELSE j

\* The cascade of a host rename, on one job of the lists.
Moved(k, j, n, m) == IF j.host = n THEN [j EXCEPT !.host = m] ELSE j

UpdateHost(n, h) ==
    LET mine == FirstNamed(hosts, n)
        m == h.name
    IN
    /\ Request
    /\ Known(hosts, n)
    /\ m # n => HostsNamed(hosts, m) \subseteq {mine}
    /\ hosts' = [hosts EXCEPT ![mine] = h]
    /\ jobs' = [k \in Kinds |-> [i \in DOMAIN jobs[k] |->
                    [jobs[k][i] EXCEPT !.job = Moved(k, @, n, m)]]]
    /\ states' = [k \in Kinds |-> [x \in DOMAIN states[k] |->
                    IF x \in SharedNames(k) THEN Moved(k, states[k][x], n, m) ELSE states[k][x]]]
    /\ UNCHANGED settings
    /\ Saves

\* A name that no host has is deleted and saved like any other.
DeleteHost(n) ==
    /\ Request
    /\ \A k \in Kinds : ~Refers(JobsOf(jobs[k]), n)
    /\ hosts' = Without(hosts, {h \in ToSet(hosts) : h.name = n})
    /\ UNCHANGED <<settings, jobs, states>>
    /\ Saves

-----------------------------------------------------------------------------
(* AppConfig.save                                                          *)

HasMounts(f) == Readable(f) /\ f.jobs["mount"] # <<>>

\* Mutant: the guard refuses every save with fewer mounts than the file has.
RefusesFewer == Readable(file) /\ Len(jobs["mount"]) < Len(file.jobs["mount"])

\* The guard against wiping the mounts.  A file that cannot be read has none.
Refused == jobs["mount"] = <<>> /\ HasMounts(file)

\* The handler is not told.
SaveRefused ==
    /\ step = "saving"
    /\ Refused
    /\ step' = "idle" /\ reply' = "ok"
    /\ UNCHANGED <<up, memory, temp, short, file, reloaded, counters>>

\* Mutant: the file is opened for writing and filled in place.
WriteInPlace ==
    /\ temp' = Rendering(Content) /\ file' = Broken
    /\ UNCHANGED <<short, shorts>>

\* How much was written is not looked at.
WriteTemp ==
    /\ short' \in BOOLEAN
    /\ short' => edits + shorts < MaxUpsets
    /\ temp' \in Renderings(Content, short')
    /\ shorts' = IF short' THEN shorts + 1 ELSE shorts
    /\ UNCHANGED file

\* The temporary file is written, and config.toml copied to config.bak, which no
\* code reads.
SaveWrites ==
    /\ step = "saving"
    /\ ~Refused
    /\ WriteTemp
    /\ step' = "written"
    /\ UNCHANGED <<up, memory, reply, reloaded, requests, edits, reloads, starts>>

SaveReplaces ==
    /\ step = "written"
    /\ file' = temp
    /\ temp' = Absent
    /\ step' = "idle" /\ reply' = "ok"
    /\ UNCHANGED <<up, memory, short, reloaded, counters>>

\* No space left at all, no permission: the temporary file goes, and the answer
\* is a 500.
SaveFails ==
    /\ step \in {"saving", "written"}
    /\ ~(step = "saving" /\ Refused)
    /\ temp' = Absent
    /\ step' = "idle" /\ reply' = "error"
    /\ UNCHANGED <<up, memory, short, file, reloaded, counters>>

-----------------------------------------------------------------------------
(* Reload, start, stop and crash, and the user at the file.                *)

\* The job of that name.
JobNamed(js, n) == js[SelectInSeq(js, LAMBDA j : j.name = n)]

Becomes(f) ==
    LET c == Load(f) IN
    /\ settings' = c.settings
    /\ jobs' = [k \in Kinds |-> [i \in DOMAIN c.jobs[k] |->
                   [job |-> c.jobs[k][i], shared |-> k = "mount" /\ c.jobs[k][i].name \notin DOMAIN states[k]]]]
    /\ states' = [states EXCEPT !["mount"] =
                     [n \in {c.jobs["mount"][i].name : i \in DOMAIN c.jobs["mount"]} |->
                         IF n \in DOMAIN @ THEN @[n]
                         ELSE JobNamed(c.jobs["mount"], n)]]

\* _do_reload, for the SIGHUP the watcher found.  A mount that stays keeps its
\* state and with it its old MountConfig; hosts and SyncManager are not touched.
Reload ==
    /\ up /\ step = "idle"
    /\ file # Broken
    /\ reloads < MaxReloads
    /\ reloads' = reloads + 1
    /\ reloaded' = TRUE
    /\ Becomes(file)
    /\ reply' = "none"
    /\ UNCHANGED <<up, hosts, step, temp, short, file, requests, edits, starts, shorts>>

\* start and _run: a file that is broken or not valid stops the daemon at once.
Start ==
    LET c == Load(file) IN
    /\ ~up
    /\ starts < MaxStarts
    /\ file # Broken /\ Valid(c)
    /\ up' = TRUE
    /\ starts' = starts + 1
    /\ reloaded' = FALSE
    /\ settings' = c.settings
    /\ hosts' = c.hosts
    /\ jobs' = [k \in Kinds |-> [i \in DOMAIN c.jobs[k] |-> [job |-> c.jobs[k][i], shared |-> TRUE]]]
    /\ states' = [k \in Kinds |->
                     [n \in {c.jobs[k][i].name : i \in DOMAIN c.jobs[k]} |->
                         JobNamed(c.jobs[k], n)]]
    /\ UNCHANGED <<step, temp, short, reply, file, requests, edits, reloads, shorts>>

\* SIGTERM between two requests, or a crash anywhere: nothing is written, and a
\* temporary file left behind is never read.
Stop ==
    /\ up
    /\ up' = FALSE
    /\ settings' = Defaults /\ hosts' = <<>> /\ jobs' = None /\ states' = None
    /\ step' = "idle" /\ temp' = Absent /\ short' = FALSE /\ reply' = "none"
    /\ reloaded' = FALSE
    /\ UNCHANGED <<file, counters>>

HandEdit ==
    /\ edits + shorts < MaxUpsets
    /\ edits' = edits + 1
    /\ \E f \in HandEdits \cup {Absent, Broken} : f # file /\ file' = f
    /\ reply' = "none"
    /\ UNCHANGED <<up, memory, step, temp, short, reloaded, requests, reloads, starts, shorts>>

-----------------------------------------------------------------------------
JobRequest(k) ==
    \/ \E n \in JobNames[k], p \in Payloads[k] :
         \/ AddJob(k, n, p)
         \/ UpdateJob(k, n, p)
         \/ \E m \in JobNames[k] : RenameJob(k, n, m, p) \/ RenameConflicts(k, n, m, p)
    \/ \E n \in JobNames[k] : DeleteJob(k, n) \/ \E on \in BOOLEAN : SetEnabled(k, n, on)

Next ==
    \/ \E k \in Kinds : JobRequest(k)
    \/ \E n \in JobNames["mount"] : SwitchBackend(n)
    \/ \E s \in Settings : UpdateSettings(s)
    \/ \E h \in Host : AddHost(h) \/ \E n \in HostNames : UpdateHost(n, h)
    \/ \E n \in HostNames : DeleteHost(n)
    \/ SaveRefused \/ SaveWrites \/ SaveReplaces \/ SaveFails
    \/ Reload \/ Start \/ Stop \/ HandEdit

Spec == Init /\ [][Next]_vars

-----------------------------------------------------------------------------
\* Every variable keeps its type.
TypeOK ==
    /\ {up, reloaded, short} \subseteq BOOLEAN
    /\ settings \in Settings
    /\ hosts \in Seq(Host)
    /\ DOMAIN jobs = Kinds /\ DOMAIN states = Kinds
    /\ \A k \in Kinds :
         /\ jobs[k] \in Seq([job : Job(k), shared : BOOLEAN])
         /\ DOMAIN states[k] \subseteq JobNames[k]
         /\ \A n \in DOMAIN states[k] : states[k][n] \in Job(k) /\ states[k][n].name = n
    /\ step \in {"idle", "saving", "written"}
    /\ reply \in {"none", "ok", "error"}
    /\ \A f \in {temp, file} : Readable(f) => IsConfig(f)
    /\ requests \in 0..MaxRequests /\ edits \in 0..MaxUpsets
    /\ reloads \in 0..MaxReloads /\ starts \in 0..MaxStarts /\ shorts \in 0..MaxUpsets

\* The list that save writes and the jobs that are watched name the same jobs,
\* each once: for mounts through every order of requests, reloads and restarts,
\* for syncs as long as there was no reload, which leaves SyncManager behind.
NamesAgree ==
    up => \A k \in Kinds : k = "mount" \/ ~reloaded =>
        /\ Distinct(JobsOf(jobs[k]))
        /\ {jobs[k][i].job.name : i \in DOMAIN jobs[k]} = DOMAIN states[k]

\* What is watched is what the file says.
WatchedIsSaved == \A k \in Kinds : ToSet(file.jobs[k]) = Range(states[k])

\* Every string is read as it was saved.
Plain(c) == Rendering(c) = c

\* A request answered with success is on disk, all of it and with whatever an
\* earlier request left unsaved (a 409 after assignments, a save that failed):
\* a crash right after it loses nothing but what quotes and backslashes spoil.
\* Exempt are a daemon that was reloaded, whose watched objects are no longer the
\* saved ones, one without mounts, and a write that ended early.
AnsweredIsDurable ==
    up /\ reply = "ok" /\ ~reloaded /\ jobs["mount"] # <<>> /\ ~short =>
        /\ file = Rendering(Content)
        /\ Plain(Content) => WatchedIsSaved

\* No job ever refers to a host that is missing, in memory or in the file, while
\* hosts are renamed and deleted, jobs migrated, saves refused or cut short (a
\* reload brings jobs without their hosts).
HostsResolve ==
    reloads = 0 => /\ up => Resolved(Content)
                   /\ Readable(file) => Resolved(Load(file))

\* But for the user's own edits, the file goes from one configuration of the
\* daemon to another whole one: neither a crash, a failure nor an edit in the
\* middle of a save shows a part of it, only a write that ended early.
FileChangesWhole ==
    [][edits' = edits /\ file' # file => up /\ file' \in Renderings(Content, short)]_vars

(* Promises of the documentation that the code does not keep *)

\* "API write endpoints [...] mutate _config and call cfg.save() immediately.
\* Changes survive restart without a separate reload step."  (The refusal to save
\* an empty list of mounts, which other pages describe, is exempt.)
ChangesSurviveRestart ==
    up /\ reply = "ok" /\ jobs["mount"] # <<>> => WatchedIsSaved

\* The same promise, as far as there being a configuration at all to start from:
\* a quote in the options of a job is answered with success all the same.
AnsweredIsReadable ==
    up /\ reply = "ok" /\ jobs["mount"] # <<>> /\ ~short => Readable(file)

\* docs/configuration.md: "Config is written back atomically: written to a `.tmp`
\* sibling, `os.fsync()`d, then `os.replace()`d."  The file is at all times the
\* one before the save or the whole of the new one.
ReplacedWhole ==
    [][edits' = edits /\ file' # file => file' = Rendering(Content)]_vars

\* FAQ.md, of the migration: it "[c]reates a `HostConfig` entry for each unique
\* host" and makes the jobs refer to them.  The host a migrated job refers to,
\* looked up by name as the handlers do, is the one its remote string names.
MigratedToOwnHost ==
    up /\ requests = 0 /\ reloads = 0 =>
        \A k \in Kinds : \A n \in DOMAIN states[k] :
            LET j == states[k][n] IN
            j.server # Local /\ Known(hosts, j.host) => hosts[FirstNamed(hosts, j.host)].server = j.server

=============================================================================
