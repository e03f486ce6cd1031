------------------------------ MODULE ConfigFile ------------------------------
(***************************************************************************)
(* config.toml and what AppConfig.load makes of it (config.py): the jobs   *)
(* (mounts and syncs), the hosts they refer to, the migration of jobs that *)
(* still name their server in free text, and the checks before a start.    *)
(*                                                                         *)
(* Of a job the module keeps what the handlers, the migration and a reload *)
(* tell apart: its name, enabled, its tool, the server its remote string   *)
(* names, the host it refers to, and one text for its options, identity    *)
(* and paths.  A sync has one remote side here; the other is a path of     *)
(* this machine.  Ports and the [api] section are left out.                *)
(*                                                                         *)
(* save puts every string between two quotes as it is, so what is read     *)
(* back is another string, or not TOML at all, when there is a quote or a  *)
(* backslash in it.  Of the texts and the settings (a webhook URL, a log   *)
(* file) the constant Reads says which; names and servers are taken to be  *)
(* free of both, and no text to continue on a line of its own.             *)
(***************************************************************************)
EXTENDS Naturals, SequencesExt

CONSTANTS
    JobNames,    \* the names requests and files use for each kind of job
    HostNames,   \* names of hosts, the hostname of every server among them
    Servers,     \* user@hostname
    HostnameOf,  \* the hostname of each server
    Local,       \* the server of a remote string without a colon
    NoHost,      \* an empty host_name
    Settings,    \* values of [daemon] and [notifications] together
    Defaults,    \* the one a missing file stands for
    Texts,       \* the options, identity and paths of a job together
    Reads,       \* what each of these is once it was saved and read
    Garbled,     \* nothing that can be read
    Absent,      \* no config.toml
    Broken       \* a config.toml that load cannot read

Kinds == {"mount", "sync"}

ASSUME FileAssumption ==
    /\ DOMAIN JobNames = Kinds
    /\ HostnameOf \in [Servers -> HostNames]
    /\ Local \notin Servers
    /\ NoHost \notin HostNames
    /\ HostNames \cap Servers = {}
    /\ Defaults \in Settings
    /\ Garbled \notin Settings \cup Texts
    /\ DOMAIN Reads = Settings \cup Texts
    /\ \A s \in Settings : Reads[s] \in Settings \cup {Garbled}
    /\ \A t \in Texts : Reads[t] \in Texts \cup {Garbled}

Tools(k) == IF k = "mount" THEN {"sshfs", "rclone"} ELSE {"rsync", "lsyncd", "rclone"}

\* What a request or a file says of a job besides its name.
Details(k) ==
    [on : BOOLEAN, tool : Tools(k), server : Servers \cup {Local}, host : HostNames \cup {NoHost},
     text : Texts]

Job(k) ==
    [name : JobNames[k], on : BOOLEAN, tool : Tools(k),
     server : Servers \cup {Local}, host : HostNames \cup {NoHost}, text : Texts]
Host == [name : HostNames, server : Servers]

IsConfig(c) ==
    /\ DOMAIN c = {"settings", "hosts", "jobs"}
    /\ c.settings \in Settings
    /\ c.hosts \in Seq(Host)
    /\ DOMAIN c.jobs = Kinds
    /\ \A k \in Kinds : c.jobs[k] \in Seq(Job(k))

\* AppConfig(): no mounts at all.
NoConfig == [settings |-> Defaults, hosts |-> <<>>, jobs |-> [k \in Kinds |-> <<>>]]

Readable(f) == f \notin {Absent, Broken}

\* [x for x in list if x not in set]
Without(list, set) ==
    FoldLeft(LAMBDA kept, x : IF x \in set THEN kept ELSE Append(kept, x), <<>>, list)

HostsNamed(hs, n) == {i \in DOMAIN hs : hs[i].name = n}
Known(hs, n) == HostsNamed(hs, n) # {}

\* next(h for h in hosts if h.name == name)
FirstNamed(hs, n) == Min(HostsNamed(hs, n))

Refers(js, n) == \E i \in DOMAIN js : js[i].host = n

\* Every host a job refers to is there.
Resolved(c) ==
    \A k \in Kinds : \A i \in DOMAIN c.jobs[k] :
        c.jobs[k][i].host # NoHost => Known(c.hosts, c.jobs[k][i].host)

Distinct(js) == \A i, j \in DOMAIN js : js[i].name = js[j].name => i = j

\* validate, as far as names go.
Valid(c) == \A k \in Kinds : Distinct(c.jobs[k])

-----------------------------------------------------------------------------
(* What save writes of a configuration, as load reads it                   *)

ReadBack(j) == [j EXCEPT !.text = Reads[@]]

Quotable(c) ==
    /\ Reads[c.settings] # Garbled
    /\ \A k \in Kinds : \A i \in DOMAIN c.jobs[k] : Reads[c.jobs[k][i].text] # Garbled

\* The whole of it.
Rendering(c) ==
    IF Quotable(c)
    THEN [c EXCEPT !.settings = Reads[@],
                   !.jobs = [k \in Kinds |-> [i \in DOMAIN @[k] |-> ReadBack(@[k][i])]]]
    ELSE Broken

\* Its beginnings that end with a table: settings, hosts, mounts, syncs.  A table
\* cut at the end of a line, whose other fields would be missing or the default
\* ones, is left out.
Beginnings(c) ==
    {NoConfig}
    \cup {[c EXCEPT !.hosts = hs, !.jobs = NoConfig.jobs] : hs \in Prefixes(c.hosts)}
    \cup {[c EXCEPT !.jobs = [NoConfig.jobs EXCEPT !["mount"] = ms]] : ms \in Prefixes(c.jobs["mount"])}
    \cup {[c EXCEPT !.jobs["sync"] = ss] : ss \in Prefixes(c.jobs["sync"])}

\* What may be in the temporary file: os.write may end early, and its count is
\* not looked at.  A cut in the middle of a line is read as nothing.
Renderings(c, cut) ==
    IF cut THEN {Broken} \cup {Rendering(b) : b \in Beginnings(c)} ELSE {Rendering(c)}

-----------------------------------------------------------------------------
(* _migrate_to_hosts                                                       *)

Unmigrated(j) == j.host = NoHost /\ j.server # Local

Enter(dict, h) ==
    IF Known(dict, h.name) THEN ReplaceAt(dict, FirstNamed(dict, h.name), h) ELSE Append(dict, h)

\* The dict by name the migration starts from: of hosts with one name the last
\* stays, in the place of the first.
ByName(hs) == FoldLeft(Enter, <<>>, hs)

\* Mutant: the host is named by the key of the lookup.
CreateByKey(new, j) ==
    IF Unmigrated(j) /\ \A i \in DOMAIN new : new[i].server # j.server
    THEN Append(new, [name |-> j.server, server |-> j.server])
    ELSE new

\* The lookup is by user@hostname in a dict by name: it finds the hosts created
\* here, never one the file has.
Create(new, j) ==
    IF Unmigrated(j) /\ \A i \in DOMAIN new : new[i].server # j.server
    THEN Append(new, [name |-> HostnameOf[j.server], server |-> j.server])
    ELSE new

\* One host per server of an unmigrated job, in the order of mounts, then syncs.
Created(c) == FoldLeft(Create, <<>>, c.jobs["mount"] \o c.jobs["sync"])

Migrated(j) == IF Unmigrated(j) THEN [j EXCEPT !.host = HostnameOf[j.server]] ELSE j

Migrate(c) ==
    [c EXCEPT !.hosts = ByName(@) \o Created(c),
              !.jobs = [k \in Kinds |-> [i \in DOMAIN @[k] |-> Migrated(@[k][i])]]]

\* load of a file that can be read.  No code writes the config.toml.bak it would
\* restore mounts from: save names its copy config.bak.
Load(f) == IF f = Absent THEN NoConfig ELSE Migrate(f)

=============================================================================
