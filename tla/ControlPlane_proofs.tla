-------------------------- MODULE ControlPlane_proofs --------------------------
(***************************************************************************)
(* Proofs about saving the configuration, and about the names and hosts of *)
(* the jobs in it, for any jobs, hosts, requests, hand edits, reloads,     *)
(* crashes and restarts.                                                   *)
(***************************************************************************)
EXTENDS ControlPlane, ConfigFile_proofs, TLAPS

\* A save is under way only in a running daemon; its temporary file holds what
\* the memory says, or a beginning of it; and an answer of success is given when
\* the file does.
SaveInv ==
    /\ edits \in Nat
    /\ step # "idle" => up
    /\ step = "written" => temp \in Renderings(Content, short)
    /\ ~up => reply = "none"
    /\ reply = "ok" => step = "idle" /\ (jobs["mount"] = <<>> \/ file \in Renderings(Content, short))

\* The requests of the API.
AnyRequest ==
    \/ \E k \in Kinds : JobRequest(k)
    \/ \E n \in JobNames["mount"] : SwitchBackend(n)
    \/ \E s \in Settings : UpdateSettings(s)
    \/ \E h \in Host : AddHost(h) \/ \E n \in HostNames : UpdateHost(n, h)
    \/ \E n \in HostNames : DeleteHost(n)

\* What all requests have in common: they find no save under way, leave the file
\* alone, and either begin a save or report an error.
LEMMA RequestsAlike ==
    ASSUME AnyRequest
    PROVE  /\ Request
           /\ Saves \/ (reply' = "error" /\ step' = step)
<1>1. ASSUME NEW k \in Kinds, JobRequest(k)
      PROVE  Request /\ (Saves \/ (reply' = "error" /\ step' = step))
  BY <1>1 DEF JobRequest, AddJob, UpdateJob, RenameJob, RenameConflicts, DeleteJob, SetEnabled
<1>2. ASSUME \/ \E n \in JobNames["mount"] : SwitchBackend(n)
             \/ \E s \in Settings : UpdateSettings(s)
             \/ \E h \in Host : AddHost(h) \/ \E n \in HostNames : UpdateHost(n, h)
             \/ \E n \in HostNames : DeleteHost(n)
      PROVE  Request /\ Saves
  BY <1>2 DEF SwitchBackend, UpdateSettings, AddHost, UpdateHost, DeleteHost
<1> QED
  BY <1>1, <1>2 DEF AnyRequest

\* The configuration to save is a function of the memory.
LEMMA ContentKept ==
    ASSUME UNCHANGED memory
    PROVE  Content' = Content
BY DEF memory, Content, JobsOf

\* So is what a save makes of it, given whether the write is cut.
LEMMA RenderingsKept ==
    ASSUME UNCHANGED memory
    PROVE  Renderings(Content, short)' = Renderings(Content, short')
BY ContentKept DEF Renderings, Rendering, Beginnings, Quotable

\* Every step keeps the invariant, and changes the file as a whole.
LEMMA SaveStep ==
    ASSUME SaveInv, [Next]_vars
    PROVE  /\ SaveInv'
           /\ edits' = edits /\ file' # file => up /\ file' \in Renderings(Content, short)
<1> USE DEF SaveInv
<1>1. CASE AnyRequest
  BY <1>1, RequestsAlike DEF Request, Saves
<1>2. CASE SaveRefused
  BY <1>2 DEF SaveRefused, Refused, counters, memory
<1>3. CASE SaveWrites
  <2>1. temp' \in Renderings(Content, short')
    BY <1>3 DEF SaveWrites, WriteTemp
  <2>2. Renderings(Content, short)' = Renderings(Content, short')
    BY <1>3, RenderingsKept DEF SaveWrites
  <2>3. /\ step = "saving" /\ step' = "written" /\ up /\ reply # "ok"
        /\ up' = up /\ reply' = reply /\ file' = file /\ edits' = edits
    BY <1>3 DEF SaveWrites, WriteTemp
  <2> HIDE DEF SaveInv
  <2>4. temp' \in Renderings(Content, short)'
    BY <2>1, <2>2
  <2>5. edits' \in Nat
    BY <2>3 DEF SaveInv
  <2> QED
    BY <2>3, <2>4, <2>5 DEF SaveInv
<1>4. CASE SaveReplaces
  <2>1. Renderings(Content, short)' = Renderings(Content, short)
    BY <1>4, RenderingsKept DEF SaveReplaces
  <2> QED
    BY <1>4, <2>1 DEF SaveReplaces, counters
<1>5. CASE SaveFails
  BY <1>5 DEF SaveFails, counters
<1>6. CASE Reload
  BY <1>6 DEF Reload
<1>7. CASE Start
  BY <1>7 DEF Start
<1>8. CASE Stop
  BY <1>8 DEF Stop, counters
<1>9. CASE HandEdit
  <2>1. Renderings(Content, short)' = Renderings(Content, short)
    BY <1>9, RenderingsKept DEF HandEdit
  <2> QED
    BY <1>9, <2>1 DEF HandEdit
<1>10. CASE UNCHANGED vars
  <2>1. Renderings(Content, short)' = Renderings(Content, short)
    BY <1>10, RenderingsKept DEF vars
  <2> QED
    BY <1>10, <2>1 DEF vars, counters, memory
<1> QED
  BY <1>1, <1>2, <1>3, <1>4, <1>5, <1>6, <1>7, <1>8, <1>9, <1>10 DEF Next, AnyRequest

\* The invariant holds of every behaviour.
LEMMA SaveInvHolds == Spec => []SaveInv
<1>1. Init => SaveInv
  BY DEF Init, SaveInv
<1>2. SaveInv /\ [Next]_vars => SaveInv'
  BY SaveStep
<1> QED
  BY <1>1, <1>2, PTL DEF Spec

\* Wherever a crash, a failure or a hand edit strikes, a save shows the file
\* either as it was or with the whole of the new configuration, or, if the write
\* ended early, with a beginning of the new one or nothing that can be read.
THEOREM FileIsWhole == Spec => FileChangesWhole
<1>1. SaveInv /\ [Next]_vars =>
        [edits' = edits /\ file' # file => up /\ file' \in Renderings(Content, short)]_vars
  BY SaveStep
<1> QED
  BY <1>1, SaveInvHolds, PTL DEF Spec, FileChangesWhole

\* An answer of success of a daemon with mounts, reloaded or not, means that the
\* file holds what rendering and reading make of its configuration (after a write
\* that ended early, of a beginning of it); and the configuration itself when no
\* string of it has a quote or a backslash.  (That the watched jobs are the ones
\* of that configuration, AnsweredIsDurable, fails after a reload.)
THEOREM AnsweredIsSaved ==
    Spec => [](up /\ reply = "ok" /\ jobs["mount"] # <<>> =>
                 /\ file \in Renderings(Content, short)
                 /\ ~short /\ Plain(Content) => file = Content)
<1>1. SaveInv => (up /\ reply = "ok" /\ jobs["mount"] # <<>> =>
                    /\ file \in Renderings(Content, short)
                    /\ ~short /\ Plain(Content) => file = Content)
  BY DEF SaveInv, Renderings, Plain
<1> QED
  BY <1>1, SaveInvHolds, PTL

-----------------------------------------------------------------------------
(* The lists of jobs and the watched jobs.  The lemmas are about any list  *)
(* of entries and any function of watched jobs of one kind.                *)

Entry(k) == [job : Job(k), shared : BOOLEAN]

Typed(k, list, watched) ==
    /\ list \in Seq(Entry(k))
    /\ DOMAIN watched \subseteq JobNames[k]
    /\ \A n \in DOMAIN watched : watched[n] \in Job(k) /\ watched[n].name = n

\* The two name the same jobs, each once.
Matching(list, watched) ==
    /\ Distinct(JobsOf(list))
    /\ {list[i].job.name : i \in DOMAIN list} = DOMAIN watched

\* The list holds the watched objects themselves.
Same(list, watched) ==
    /\ Matching(list, watched)
    /\ \A i \in DOMAIN list : list[i].shared /\ list[i].job = watched[list[i].job.name]

HostsAmong(list, hs) ==
    \A i \in DOMAIN list : list[i].job.host # NoHost => Known(hs, list[i].job.host)

\* The changes of the handlers, by name.
AddedTo(list, j) == Append(list, [job |-> j, shared |-> TRUE])
DeletedFrom(list, n) == Without(list, {e \in ToSet(list) : e.job.name = n})
RenamedIn(list, n, j) == Replaced(Edited(list, n, j), n, j)
MovedIn(k, list, n, m) == [i \in DOMAIN list |-> [list[i] EXCEPT !.job = Moved(k, @, n, m)]]
Forgetting(watched, n) == Restrict(watched, DOMAIN watched \ {n})
Renaming(watched, n, m, j) == Watching(Forgetting(watched, n), m, j)
Rewatched(watched, js) ==
    [n \in {js[i].name : i \in DOMAIN js} |-> IF n \in DOMAIN watched THEN watched[n] ELSE JobNamed(js, n)]
MovedTo(k, list, watched, n, m) ==
    [x \in DOMAIN watched |->
        IF x \in {list[i].job.name : i \in {y \in DOMAIN list : list[y].shared}}
        THEN Moved(k, watched[x], n, m) ELSE watched[x]]

\* What is invariant of the jobs of one kind: the lists agree until a reload, and
\* the mounts' names even after one.
Good(k, list, watched, hs) ==
    /\ Typed(k, list, watched)
    /\ k = "mount" \/ ~reloaded => Matching(list, watched)
    /\ ~reloaded => Same(list, watched)
    /\ reloads = 0 => HostsAmong(list, hs)

MemoryInv ==
    /\ settings \in Settings
    /\ hosts \in Seq(Host)
    /\ DOMAIN jobs = Kinds /\ DOMAIN states = Kinds
    /\ \A k \in Kinds : Good(k, jobs[k], states[k], hosts)

\* The file, and the temporary file that may become it.
FileInv ==
    /\ \A f \in {temp, file} : Readable(f) => IsConfig(f)
    /\ Readable(file) => Distinct(file.jobs["mount"])
    /\ reloads = 0 => (Readable(file) => Resolved(file))

ControlInv ==
    /\ up \in BOOLEAN /\ reloaded \in BOOLEAN /\ short \in BOOLEAN
    /\ step \in {"idle", "saving", "written"}
    /\ reply \in {"none", "ok", "error"}
    /\ requests \in 0..MaxRequests /\ edits \in 0..MaxUpsets
    /\ reloads \in 0..MaxReloads /\ starts \in 0..MaxStarts /\ shorts \in 0..MaxUpsets
    /\ reloads = 0 => ~reloaded

\* The inductive invariant of the control plane.
Inv == SaveInv /\ MemoryInv /\ FileInv /\ ControlInv

-----------------------------------------------------------------------------
(* What each change of a list and its watched jobs keeps                   *)

\* A list of entries, index by index.
LEMMA EntriesOf ==
    ASSUME NEW k, NEW list \in Seq(Entry(k))
    PROVE  /\ Len(list) \in Nat /\ DOMAIN list = 1..Len(list)
           /\ \A i \in DOMAIN list : /\ list[i] \in Entry(k)
                                     /\ list[i].job \in Job(k) /\ list[i].shared \in BOOLEAN
                                     /\ list[i] = [job |-> list[i].job, shared |-> list[i].shared]
<1>1. Len(list) \in Nat /\ DOMAIN list = 1..Len(list) /\ \A i \in DOMAIN list : list[i] \in Entry(k)
  OBVIOUS
<1> QED
  BY <1>1 DEF Entry

\* Putting a list together index by index.
LEMMA IsList ==
    ASSUME NEW k, NEW list \in Seq(Entry(k)), NEW new, DOMAIN new = DOMAIN list,
           new = [i \in DOMAIN new |-> new[i]], \A i \in DOMAIN list : new[i] \in Entry(k)
    PROVE  new \in Seq(Entry(k))
<1>1. new \in [1..Len(list) -> Entry(k)] /\ Len(list) \in Nat
  BY EntriesOf
<1> QED
  BY <1>1

\* Matching, index by index and name by name.
LEMMA MatchingIs ==
    ASSUME NEW list, NEW w
    PROVE  Matching(list, w) <=>
             /\ \A i, x \in DOMAIN list : list[i].job.name = list[x].job.name => i = x
             /\ \A i \in DOMAIN list : list[i].job.name \in DOMAIN w
             /\ \A n \in DOMAIN w : \E i \in DOMAIN list : list[i].job.name = n
<1>1. Distinct(JobsOf(list)) <=>
        \A i, x \in DOMAIN list : list[i].job.name = list[x].job.name => i = x
  BY DEF Distinct, JobsOf
<1>2. {list[i].job.name : i \in DOMAIN list} = DOMAIN w <=>
        /\ \A i \in DOMAIN list : list[i].job.name \in DOMAIN w
        /\ \A n \in DOMAIN w : \E i \in DOMAIN list : list[i].job.name = n
  OBVIOUS
<1> QED
  BY <1>1, <1>2 DEF Matching

\* A change that keeps every name keeps the lists matching.
LEMMA NamesKept ==
    ASSUME NEW list, NEW w, NEW list2, NEW w2, DOMAIN list2 = DOMAIN list, DOMAIN w2 = DOMAIN w,
           \A i \in DOMAIN list : list2[i].job.name = list[i].job.name
    PROVE  Matching(list, w) => Matching(list2, w2)
BY MatchingIs

\* A job is added under a name that is not watched.
LEMMA Added ==
    ASSUME NEW k \in Kinds, NEW list, NEW w, Typed(k, list, w),
           NEW n \in JobNames[k], n \notin DOMAIN w, NEW j \in Job(k), j.name = n,
           NEW list2, list2 = AddedTo(list, j),
           NEW w2, w2 = Watching(w, n, j), NEW hs
    PROVE  /\ Typed(k, list2, w2)
           /\ Matching(list, w) => Matching(list2, w2)
           /\ Same(list, w) => Same(list2, w2)
           /\ HostsAmong(list, hs) /\ (j.host = NoHost \/ Known(hs, j.host)) => HostsAmong(list2, hs)
<1> DEFINE e == [job |-> j, shared |-> TRUE]
           z == Len(list) + 1
<1>1. e \in Entry(k) /\ e.job = j /\ e.shared = TRUE
  BY DEF Entry
<1>2. list \in Seq(Entry(k))
  BY DEF Typed
<1> HIDE DEF e
<1>3. /\ list2 \in Seq(Entry(k)) /\ DOMAIN list2 = DOMAIN list \cup {z} /\ list2[z] = e
      /\ z \notin DOMAIN list
      /\ \A i \in DOMAIN list : list2[i] = list[i]
  BY <1>1, <1>2 DEF e, AddedTo
<1> HIDE DEF z
<1>4. /\ DOMAIN w2 = DOMAIN w \cup {n} /\ w2[n] = j
      /\ \A x \in DOMAIN w : x # n /\ w2[x] = w[x]
  BY DEF Watching
<1>5. Typed(k, list2, w2)
  BY <1>3, <1>4 DEF Typed
<1>6. Matching(list, w) => Matching(list2, w2)
  <2> SUFFICES ASSUME Matching(list, w) PROVE Matching(list2, w2)
    OBVIOUS
  <2>1. /\ \A i, x \in DOMAIN list : list[i].job.name = list[x].job.name => i = x
        /\ \A i \in DOMAIN list : list[i].job.name \in DOMAIN w
        /\ \A x \in DOMAIN w : \E i \in DOMAIN list : list[i].job.name = x
    BY MatchingIs
  <2>2. list2[z].job.name = n /\ \A i \in DOMAIN list : list2[i].job.name = list[i].job.name
    BY <1>1, <1>3
  <2>3. \A i, x \in DOMAIN list2 : list2[i].job.name = list2[x].job.name => i = x
    BY <2>1, <2>2, <1>3
  <2>4. \A i \in DOMAIN list2 : list2[i].job.name \in DOMAIN w2
    BY <2>1, <2>2, <1>3, <1>4
  <2>5. \A x \in DOMAIN w2 : \E i \in DOMAIN list2 : list2[i].job.name = x
    BY <2>1, <2>2, <1>3, <1>4
  <2> QED
    BY <2>3, <2>4, <2>5, MatchingIs
<1>7. ASSUME Same(list, w) PROVE Same(list2, w2)
  <2>1. \A i \in DOMAIN list : list[i].job.name \in DOMAIN w
    BY <1>7, MatchingIs DEF Same
  <2>2. ASSUME NEW i \in DOMAIN list2
        PROVE  list2[i].shared /\ list2[i].job = w2[list2[i].job.name]
    BY <2>1, <1>1, <1>3, <1>4, <1>7 DEF Same
  <2> QED
    BY <2>2, <1>6, <1>7 DEF Same
<1>8. HostsAmong(list, hs) /\ (j.host = NoHost \/ Known(hs, j.host)) => HostsAmong(list2, hs)
  BY <1>1, <1>3 DEF HostsAmong
<1> QED
  BY <1>5, <1>6, <1>7, <1>8

\* What Edited does to each entry.
LEMMA EditedIs ==
    ASSUME NEW k, NEW list \in Seq(Entry(k)), NEW n, NEW j \in Job(k),
           NEW list2, list2 = Edited(list, n, j)
    PROVE  /\ list2 \in Seq(Entry(k)) /\ DOMAIN list2 = DOMAIN list
           /\ \A i \in DOMAIN list :
                IF list[i].shared /\ list[i].job.name = n
                THEN list2[i].job = j /\ list2[i].shared
                ELSE list2[i] = list[i]
<1> DEFINE Hit(i) == list[i].shared /\ list[i].job.name = n
<1>1. \A i \in DOMAIN list : /\ list[i] \in Entry(k)
                             /\ list[i] = [job |-> list[i].job, shared |-> list[i].shared]
  BY EntriesOf
<1>2. /\ DOMAIN list2 = DOMAIN list
      /\ \A i \in DOMAIN list : list2[i] = IF Hit(i) THEN [list[i] EXCEPT !.job = j] ELSE list[i]
      /\ list2 = [i \in DOMAIN list2 |-> list2[i]]
  BY DEF Edited
<1>3. ASSUME NEW i \in DOMAIN list
      PROVE  /\ IF Hit(i) THEN list2[i].job = j /\ list2[i].shared ELSE list2[i] = list[i]
             /\ list2[i] \in Entry(k)
  <2>1. CASE Hit(i)
    <3>1. list2[i] = [list[i] EXCEPT !.job = j]
      BY <1>2, <2>1
    <3>2. list2[i] = [job |-> j, shared |-> list[i].shared] /\ list[i].shared \in BOOLEAN
      BY <1>1, <3>1 DEF Entry
    <3> QED
      BY <2>1, <3>2 DEF Entry
  <2>2. CASE ~Hit(i)
    BY <1>1, <1>2, <2>2
  <2> QED
    BY <2>1, <2>2
<1>4. list2 \in Seq(Entry(k))
  BY <1>2, <1>3, IsList
<1> QED
  BY <1>2, <1>3, <1>4

\* A watched job is changed under its name.
LEMMA EditedInPlace ==
    ASSUME NEW k \in Kinds, NEW list, NEW w, Typed(k, list, w),
           NEW n \in DOMAIN w, NEW j \in Job(k), j.name = n,
           NEW list2, list2 = Edited(list, n, j),
           NEW w2, w2 = [w EXCEPT ![n] = j], NEW hs
    PROVE  /\ Typed(k, list2, w2)
           /\ Matching(list, w) => Matching(list2, w2)
           /\ Same(list, w) => Same(list2, w2)
           /\ /\ HostsAmong(list, hs)
              /\ j.host = NoHost \/ Known(hs, j.host) \/ (Same(list, w) /\ j.host = w[n].host)
              => HostsAmong(list2, hs)
<1> DEFINE Hit(i) == list[i].shared /\ list[i].job.name = n
<1>1. list \in Seq(Entry(k))
  BY DEF Typed
<1>2. /\ list2 \in Seq(Entry(k)) /\ DOMAIN list2 = DOMAIN list
      /\ \A i \in DOMAIN list :
           IF Hit(i) THEN list2[i].job = j /\ list2[i].shared ELSE list2[i] = list[i]
  BY <1>1, EditedIs
<1>3. \A i \in DOMAIN list : list2[i].job.name = list[i].job.name
  BY <1>2
<1>4. DOMAIN w2 = DOMAIN w /\ w2[n] = j /\ \A x \in DOMAIN w : x # n => w2[x] = w[x]
  OBVIOUS
<1>5. Typed(k, list2, w2)
  BY <1>2, <1>4 DEF Typed
<1>6. Matching(list, w) => Matching(list2, w2)
  <2>1. /\ DOMAIN list2 = DOMAIN list /\ DOMAIN w2 = DOMAIN w
        /\ \A i \in DOMAIN list : list2[i].job.name = list[i].job.name
    BY <1>2, <1>3, <1>4
  <2> QED
    BY <2>1, NamesKept
<1>7. ASSUME Same(list, w) PROVE Same(list2, w2)
  <2>1. \A i \in DOMAIN list : list[i].job.name \in DOMAIN w
    BY <1>7, MatchingIs DEF Same
  <2>2. ASSUME NEW i \in DOMAIN list2
        PROVE  list2[i].shared /\ list2[i].job = w2[list2[i].job.name]
    <3>1. list[i].shared /\ list[i].job = w[list[i].job.name]
      BY <1>2, <1>7 DEF Same
    <3> QED
      BY <2>1, <3>1, <1>2, <1>3, <1>4
  <2> QED
    BY <2>2, <1>6, <1>7 DEF Same
<1>8. ASSUME HostsAmong(list, hs),
             j.host = NoHost \/ Known(hs, j.host) \/ (Same(list, w) /\ j.host = w[n].host)
      PROVE  HostsAmong(list2, hs)
  <2> SUFFICES ASSUME NEW i \in DOMAIN list2, list2[i].job.host # NoHost
               PROVE  Known(hs, list2[i].job.host)
    BY DEF HostsAmong
  <2>1. CASE Hit(i)
    <3>1. list2[i].job = j
      BY <1>2, <1>3, <2>1
    <3>2. Same(list, w) => w[n] = list[i].job
      BY <1>2, <2>1 DEF Same
    <3> QED
      BY <1>2, <1>8, <3>1, <3>2 DEF HostsAmong
  <2>2. CASE ~Hit(i)
    BY <1>2, <1>3, <1>8, <2>2 DEF HostsAmong
  <2> QED
    BY <2>1, <2>2
<1> QED
  BY <1>5, <1>6, <1>7, <1>8

\* A watched job is changed and renamed to a name that is not watched.
LEMMA Renamed ==
    ASSUME NEW k \in Kinds, NEW list, NEW w, Typed(k, list, w),
           NEW n \in DOMAIN w, NEW m \in JobNames[k], m \notin DOMAIN w,
           NEW j \in Job(k), j.name = m,
           NEW list2, list2 = RenamedIn(list, n, j),
           NEW w2, w2 = Renaming(w, n, m, j), NEW hs
    PROVE  /\ Typed(k, list2, w2)
           /\ Matching(list, w) => Matching(list2, w2)
           /\ Same(list, w) => Same(list2, w2)
           /\ HostsAmong(list, hs) /\ (j.host = NoHost \/ Known(hs, j.host)) => HostsAmong(list2, hs)
<1> DEFINE list1 == Edited(list, n, j)
           e == [job |-> j, shared |-> TRUE]
           I == {i \in 1..Len(list1) : list1[i].job.name = n}
           Hit(i) == list[i].shared /\ list[i].job.name = n
<1>1. list \in Seq(Entry(k)) /\ e \in Entry(k) /\ e.job = j /\ e.shared
  BY DEF Typed, Entry
<1>2. /\ list1 \in Seq(Entry(k)) /\ DOMAIN list1 = DOMAIN list
      /\ \A i \in DOMAIN list :
           IF Hit(i) THEN list1[i].job = j /\ list1[i].shared ELSE list1[i] = list[i]
  BY <1>1, EditedIs
<1>3. I # {} => Min(I) \in I /\ Min(I) # 0
  <2>1. I \subseteq Nat /\ \A s \in I : s # 0
    OBVIOUS
  <2> HIDE DEF I
  <2> QED
    BY <2>1, MinIn
<1>4. list2 = IF I = {} THEN list1 ELSE [list1 EXCEPT ![Min(I)] = e]
  BY <1>3 DEF RenamedIn, Replaced, SelectInSeq, ReplaceAt
<1>5. \A i \in I : i \in DOMAIN list /\ ~Hit(i) /\ list[i].job.name = n /\ list1[i] = list[i]
  <2>1. \A i \in I : i \in DOMAIN list1 /\ list1[i].job.name = n
    BY <1>2
  <2> HIDE DEF I, list1
  <2> QED
    BY <2>1, <1>2
<1>6. \A i \in DOMAIN list : list[i].job.name = n => Hit(i) \/ i \in I
  <2>1. DOMAIN list1 = 1..Len(list1)
    BY <1>2
  <2> QED
    BY <1>2, <2>1
<1> HIDE DEF e, list1, I
<1>7. /\ list2 \in Seq(Entry(k)) /\ DOMAIN list2 = DOMAIN list
      /\ \A i \in DOMAIN list :
           list2[i] = list[i] \/ (list2[i].job = j /\ list2[i].shared /\ list[i].job.name = n)
  <2>1. CASE I = {}
    BY <2>1, <1>2, <1>4
  <2>2. CASE I # {}
    <3> DEFINE f == Min(I)
    <3>1. f \in DOMAIN list1 /\ list[f].job.name = n /\ list2 = [list1 EXCEPT ![f] = e]
      BY <2>2, <1>2, <1>4, <1>5, <1>3
    <3> HIDE DEF f
    <3>2. list1 \in [1..Len(list1) -> Entry(k)] /\ Len(list1) \in Nat
      BY <1>2
    <3>3. list2 \in [1..Len(list1) -> Entry(k)]
      BY <3>1, <3>2, <1>1
    <3>4. list2 \in Seq(Entry(k)) /\ DOMAIN list2 = DOMAIN list1
      BY <3>1, <3>2, <3>3
    <3>5. \A i \in DOMAIN list1 : list2[i] = IF i = f THEN e ELSE list1[i]
      BY <3>1
    <3> QED
      BY <3>1, <3>4, <3>5, <1>1, <1>2
  <2> QED
    BY <2>1, <2>2
<1>8. /\ DOMAIN w2 = (DOMAIN w \ {n}) \cup {m} /\ w2[m] = j
      /\ \A x \in DOMAIN w \ {n} : x # m /\ w2[x] = w[x]
  BY DEF Renaming, Forgetting, Watching, Restrict
<1>9. /\ \A x \in DOMAIN w2 : (x = m /\ w2[x] = j) \/ (x \in DOMAIN w /\ w2[x] = w[x])
      /\ m \in DOMAIN w2 /\ \A x \in DOMAIN w : x # n => x \in DOMAIN w2 /\ w2[x] = w[x]
  BY <1>8
<1>10. HostsAmong(list, hs) /\ (j.host = NoHost \/ Known(hs, j.host)) => HostsAmong(list2, hs)
  BY <1>7 DEF HostsAmong
<1>11. ASSUME Matching(list, w)
       PROVE  \A i \in DOMAIN list :
                IF list[i].job.name = n THEN list2[i].job = j /\ list2[i].shared ELSE list2[i] = list[i]
  <2> SUFFICES ASSUME NEW i \in DOMAIN list, list[i].job.name = n
               PROVE  list2[i].job = j /\ list2[i].shared
    BY <1>7
  <2>1. \A x \in DOMAIN list : list[x].job.name = n => x = i
    BY <1>11, MatchingIs
  <2>2. CASE I = {}
    BY <2>2, <1>2, <1>4, <1>6
  <2>3. CASE I # {}
    <3>1. Min(I) = i
      BY <2>1, <2>3, <1>5, <1>3
    <3> QED
      BY <2>3, <3>1, <1>1, <1>2, <1>4
  <2> QED
    BY <2>2, <2>3
<1>12. DOMAIN list2 = DOMAIN list
  BY <1>7
<1>13. ASSUME Matching(list, w) PROVE Matching(list2, w2)
  <2>1. \A i, x \in DOMAIN list : list[i].job.name = list[x].job.name => i = x
    BY <1>13, MatchingIs
  <2>2. \A i \in DOMAIN list : list[i].job.name \in DOMAIN w
    BY <1>13, MatchingIs
  <2>3. \A x \in DOMAIN w : \E i \in DOMAIN list : list[i].job.name = x
    BY <1>13, MatchingIs
  <2>4. \A i \in DOMAIN list :
          list2[i].job.name = IF list[i].job.name = n THEN m ELSE list[i].job.name
    BY <1>11, <1>13
  <2>5. \A i, x \in DOMAIN list2 : list2[i].job.name = list2[x].job.name => i = x
    BY <2>1, <2>2, <2>4, <1>12
  <2>6. ASSUME NEW i \in DOMAIN list2 PROVE list2[i].job.name \in DOMAIN w2
    BY <2>2, <2>4, <1>9, <1>12
  <2>7. ASSUME NEW x \in DOMAIN w2 PROVE \E i \in DOMAIN list2 : list2[i].job.name = x
    <3>1. CASE x = m
      <4>1. PICK i \in DOMAIN list : list[i].job.name = n
        BY <2>3
      <4> QED
        BY <4>1, <3>1, <2>4, <1>12
    <3>2. CASE x # m
      <4>1. x \in DOMAIN w /\ x # n
        BY <3>2, <1>8
      <4>2. PICK i \in DOMAIN list : list[i].job.name = x
        BY <4>1, <2>3
      <4> QED
        BY <4>1, <4>2, <2>4, <1>12
    <3> QED
      BY <3>1, <3>2
  <2> QED
    BY <2>5, <2>6, <2>7, MatchingIs
<1>14. ASSUME Same(list, w) PROVE Same(list2, w2)
  <2>1. Matching(list, w) /\ \A i \in DOMAIN list : list[i].job.name \in DOMAIN w
    BY <1>14, MatchingIs DEF Same
  <2>2. ASSUME NEW i \in DOMAIN list2
        PROVE  list2[i].shared /\ list2[i].job = w2[list2[i].job.name]
    <3>1. i \in DOMAIN list /\ list[i].shared /\ list[i].job = w[list[i].job.name]
      BY <1>12, <1>14 DEF Same
    <3>2. IF list[i].job.name = n THEN list2[i].job = j /\ list2[i].shared ELSE list2[i] = list[i]
      BY <2>1, <3>1, <1>11
    <3>3. w2[m] = j /\ (list[i].job.name # n => w2[list[i].job.name] = w[list[i].job.name])
      BY <2>1, <3>1, <1>8, <1>9
    <3> QED
      BY <3>1, <3>2, <3>3
  <2>3. Matching(list2, w2)
    BY <2>1, <1>13
  <2> QED
    BY <2>2, <2>3 DEF Same
<1>15. Typed(k, list2, w2)
  <2>1. \A x \in DOMAIN w : x \in JobNames[k] /\ w[x] \in Job(k) /\ w[x].name = x
    BY DEF Typed
  <2>2. \A x \in DOMAIN w2 : x \in JobNames[k] /\ w2[x] \in Job(k) /\ w2[x].name = x
    BY <2>1, <1>9
  <2> QED
    BY <2>2, <1>7 DEF Typed
<1> QED
  BY <1>10, <1>13, <1>14, <1>15

\* A watched job is deleted: it and every entry of its name go.
LEMMA Deleted ==
    ASSUME NEW k \in Kinds, NEW list, NEW w, Typed(k, list, w), NEW n \in DOMAIN w,
           NEW list2, list2 = DeletedFrom(list, n),
           NEW w2, w2 = Forgetting(w, n), NEW hs
    PROVE  /\ Typed(k, list2, w2)
           /\ Matching(list, w) => Matching(list2, w2)
           /\ Same(list, w) => Same(list2, w2)
           /\ HostsAmong(list, hs) => HostsAmong(list2, hs)
<1> DEFINE gone == {e \in ToSet(list) : e.job.name = n}
<1>1. list \in Seq(Entry(k))
  BY DEF Typed
<1>2. \A i \in DOMAIN list : list[i] \in gone <=> list[i].job.name = n
  BY DEF ToSet
<1> DEFINE q == Without(list, gone)
<1>3. list2 = q
  BY DEF DeletedFrom
<1> HIDE DEF gone
<1>4. q \in Seq(Entry(k)) /\ \E h : Keeps(q, list, gone, h)
  BY <1>1, WithoutKeeps
<1> HIDE DEF q
<1>5. PICK h : Keeps(list2, list, gone, h)
  BY <1>3, <1>4
<1>6. \A i \in DOMAIN list2 :
        h[i] \in DOMAIN list /\ list2[i] = list[h[i]] /\ list2[i].job.name # n
  BY <1>2, <1>5 DEF Keeps
<1>7. /\ \A x \in DOMAIN w2 : x \in DOMAIN w /\ x # n /\ w2[x] = w[x]
      /\ \A x \in DOMAIN w : x # n => x \in DOMAIN w2 /\ w2[x] = w[x]
  BY DEF Forgetting, Restrict
<1>8. Typed(k, list2, w2)
  <2>1. \A x \in DOMAIN w : x \in JobNames[k] /\ w[x] \in Job(k) /\ w[x].name = x
    BY DEF Typed
  <2>2. \A x \in DOMAIN w2 : x \in JobNames[k] /\ w2[x] \in Job(k) /\ w2[x].name = x
    BY <2>1, <1>7
  <2> QED
    BY <2>2, <1>3, <1>4 DEF Typed
<1>9. ASSUME Matching(list, w) PROVE Matching(list2, w2)
  <2>1. \A i, x \in DOMAIN list : list[i].job.name = list[x].job.name => i = x
    BY <1>9, MatchingIs
  <2>2. \A i \in DOMAIN list : list[i].job.name \in DOMAIN w
    BY <1>9, MatchingIs
  <2>3. \A x \in DOMAIN w : \E i \in DOMAIN list : list[i].job.name = x
    BY <1>9, MatchingIs
  <2>4. ASSUME NEW i \in DOMAIN list2, NEW x \in DOMAIN list2,
               list2[i].job.name = list2[x].job.name
        PROVE  i = x
    <3>1. h[i] = h[x]
      BY <2>1, <2>4, <1>6
    <3> QED
      BY <3>1, <1>5 DEF Keeps
  <2>5. ASSUME NEW i \in DOMAIN list2 PROVE list2[i].job.name \in DOMAIN w2
    BY <2>2, <1>6, <1>7
  <2>6. ASSUME NEW x \in DOMAIN w2 PROVE \E i \in DOMAIN list2 : list2[i].job.name = x
    <3>1. x \in DOMAIN w /\ x # n
      BY <1>7
    <3>2. PICK y \in DOMAIN list : list[y].job.name = x
      BY <3>1, <2>3
    <3>3. PICK i \in DOMAIN list2 : h[i] = y
      BY <3>1, <3>2, <1>2, <1>5 DEF Keeps
    <3> QED
      BY <3>2, <3>3, <1>6
  <2> QED
    BY <2>4, <2>5, <2>6, MatchingIs
<1>10. ASSUME Same(list, w) PROVE Same(list2, w2)
  <2>1. Matching(list, w) /\ \A i \in DOMAIN list : list[i].job.name \in DOMAIN w
    BY <1>10, MatchingIs DEF Same
  <2>2. ASSUME NEW i \in DOMAIN list2
        PROVE  list2[i].shared /\ list2[i].job = w2[list2[i].job.name]
    <3>1. list[h[i]].shared /\ list[h[i]].job = w[list[h[i]].job.name]
      BY <1>6, <1>10 DEF Same
    <3>2. list2[i] = list[h[i]] /\ h[i] \in DOMAIN list /\ list[h[i]].job.name # n
      BY <1>6
    <3>3. w2[list[h[i]].job.name] = w[list[h[i]].job.name]
      BY <2>1, <3>2, <1>7
    <3> QED
      BY <3>1, <3>2, <3>3
  <2>3. Matching(list2, w2)
    BY <2>1, <1>9
  <2> QED
    BY <2>2, <2>3 DEF Same
<1>11. HostsAmong(list, hs) => HostsAmong(list2, hs)
  BY <1>6 DEF HostsAmong
<1> QED
  BY <1>8, <1>9, <1>10, <1>11

\* The cascade of a host rename from n to m on one job.
LEMMA MovedJob ==
    ASSUME NEW k, NEW j \in Job(k), NEW n, NEW m \in HostNames
    PROVE  /\ Moved(k, j, n, m) \in Job(k)
           /\ Moved(k, j, n, m).name = j.name
           /\ Moved(k, j, n, m).host = IF j.host = n THEN m ELSE j.host
BY DEF Moved, Job

\* The cascade on a list and on the watched objects it shares.
LEMMA HostMoved ==
    ASSUME NEW k \in Kinds, NEW list, NEW w, Typed(k, list, w), NEW n, NEW m \in HostNames,
           NEW list2, list2 = MovedIn(k, list, n, m),
           NEW w2, w2 = MovedTo(k, list, w, n, m),
           NEW hs, NEW hs2
    PROVE  /\ Typed(k, list2, w2)
           /\ Matching(list, w) => Matching(list2, w2)
           /\ Same(list, w) => Same(list2, w2)
           /\ /\ HostsAmong(list, hs)
              /\ Known(hs2, m) /\ \A x : x # n /\ Known(hs, x) => Known(hs2, x)
              => HostsAmong(list2, hs2)
<1> DEFINE shared == {list[i].job.name : i \in {x \in DOMAIN list : list[x].shared}}
<1>1. list \in Seq(Entry(k))
  BY DEF Typed
<1>2. \A i \in DOMAIN list : /\ list[i].job \in Job(k) /\ list[i].shared \in BOOLEAN
                             /\ list[i] = [job |-> list[i].job, shared |-> list[i].shared]
  BY <1>1, EntriesOf
<1>3. /\ DOMAIN list2 = DOMAIN list
      /\ list2 = [i \in DOMAIN list2 |-> list2[i]]
  BY DEF MovedIn
<1>4. ASSUME NEW i \in DOMAIN list
      PROVE  /\ list2[i].job = Moved(k, list[i].job, n, m)
             /\ list2[i].shared = list[i].shared
             /\ list2[i].job.name = list[i].job.name
             /\ list2[i].job.host = IF list[i].job.host = n THEN m ELSE list[i].job.host
             /\ list2[i] \in Entry(k)
  <2>1. list2[i] = [list[i] EXCEPT !.job = Moved(k, @, n, m)]
    BY DEF MovedIn
  <2>2. list2[i] = [job |-> Moved(k, list[i].job, n, m), shared |-> list[i].shared]
    BY <2>1, <1>2
  <2>3. /\ Moved(k, list[i].job, n, m) \in Job(k)
        /\ Moved(k, list[i].job, n, m).name = list[i].job.name
        /\ Moved(k, list[i].job, n, m).host = IF list[i].job.host = n THEN m ELSE list[i].job.host
    BY <1>2, MovedJob
  <2> QED
    BY <2>2, <2>3, <1>2 DEF Entry
<1>5. list2 \in Seq(Entry(k))
  BY <1>1, <1>3, <1>4, IsList
<1>6. /\ DOMAIN w2 = DOMAIN w
      /\ \A x \in DOMAIN w : w2[x] = IF x \in shared THEN Moved(k, w[x], n, m) ELSE w[x]
  BY DEF MovedTo
<1>7. Typed(k, list2, w2)
  <2>1. \A x \in DOMAIN w : x \in JobNames[k] /\ w[x] \in Job(k) /\ w[x].name = x
    BY DEF Typed
  <2>2. \A x \in DOMAIN w2 : x \in JobNames[k] /\ w2[x] \in Job(k) /\ w2[x].name = x
    BY <2>1, <1>6, MovedJob
  <2> QED
    BY <2>2, <1>5 DEF Typed
<1>8. Matching(list, w) => Matching(list2, w2)
  <2>1. /\ DOMAIN list2 = DOMAIN list /\ DOMAIN w2 = DOMAIN w
        /\ \A i \in DOMAIN list : list2[i].job.name = list[i].job.name
    BY <1>3, <1>4, <1>6
  <2> QED
    BY <2>1, NamesKept
<1>9. ASSUME Same(list, w) PROVE Same(list2, w2)
  <2>1. Matching(list, w) /\ \A i \in DOMAIN list : list[i].job.name \in DOMAIN w
    BY <1>9, MatchingIs DEF Same
  <2>2. ASSUME NEW i \in DOMAIN list2
        PROVE  list2[i].shared /\ list2[i].job = w2[list2[i].job.name]
    <3>1. i \in DOMAIN list /\ list[i].shared /\ list[i].job = w[list[i].job.name]
      BY <1>3, <1>9 DEF Same
    <3>2. list[i].job.name \in shared
      BY <3>1
    <3> QED
      BY <2>1, <3>1, <3>2, <1>4, <1>6
  <2>3. Matching(list2, w2)
    BY <2>1, <1>8
  <2> QED
    BY <2>2, <2>3 DEF Same
<1>10. ASSUME HostsAmong(list, hs),
              Known(hs2, m) /\ \A x : x # n /\ Known(hs, x) => Known(hs2, x)
       PROVE  HostsAmong(list2, hs2)
  BY <1>3, <1>4, <1>10 DEF HostsAmong
<1> QED
  BY <1>7, <1>8, <1>9, <1>10

\* The job found by its name has that name.
LEMMA JobNamedIs ==
    ASSUME NEW k, NEW js \in Seq(Job(k)), NEW n \in {js[i].name : i \in DOMAIN js}
    PROVE  /\ JobNamed(js, n) \in Job(k) /\ JobNamed(js, n).name = n
           /\ \E i \in DOMAIN js : JobNamed(js, n) = js[i]
<1> DEFINE I == {i \in 1..Len(js) : js[i].name = n}
<1>1. DOMAIN js = 1..Len(js) /\ \A i \in DOMAIN js : js[i] \in Job(k)
  OBVIOUS
<1>2. I # {} /\ I \subseteq Nat
  BY <1>1
<1>3. Min(I) \in I
  BY <1>2, MinIn
<1>4. JobNamed(js, n) = js[Min(I)]
  BY <1>2 DEF JobNamed, SelectInSeq
<1> QED
  BY <1>1, <1>3, <1>4

\* The entries made of the jobs of a file.
LEMMA EntriesFrom ==
    ASSUME NEW k \in Kinds, NEW js \in Seq(Job(k)),
           NEW list, DOMAIN list = DOMAIN js, list = [i \in DOMAIN list |-> list[i]],
           \A i \in DOMAIN js : list[i].job = js[i] /\ list[i] \in Entry(k)
    PROVE  /\ list \in Seq(Entry(k))
           /\ Distinct(js) => \A i, x \in DOMAIN list : list[i].job.name = list[x].job.name => i = x
           /\ \A i \in DOMAIN list : list[i].job.name \in JobNames[k]
<1>1. Len(js) \in Nat /\ DOMAIN js = 1..Len(js) /\ \A i \in DOMAIN js : js[i] \in Job(k)
  OBVIOUS
<1>2. list \in [1..Len(js) -> Entry(k)]
  BY <1>1
<1>3. list \in Seq(Entry(k))
  BY <1>1, <1>2
<1>4. Distinct(js) => \A i, x \in DOMAIN list : list[i].job.name = list[x].job.name => i = x
  BY DEF Distinct
<1>5. \A i \in DOMAIN list : list[i].job.name \in JobNames[k]
  BY <1>1 DEF Job
<1> QED
  BY <1>3, <1>4, <1>5

\* A daemon that starts watches the objects of its list.
LEMMA Started ==
    ASSUME NEW k \in Kinds, NEW js \in Seq(Job(k)), Distinct(js),
           NEW list, list = [i \in DOMAIN js |-> [job |-> js[i], shared |-> TRUE]],
           NEW w, w = [n \in {js[i].name : i \in DOMAIN js} |-> JobNamed(js, n)]
    PROVE  Typed(k, list, w) /\ Same(list, w)
<1>1. \A i \in DOMAIN js : js[i] \in Job(k)
  OBVIOUS
<1>2. /\ DOMAIN list = DOMAIN js /\ list = [i \in DOMAIN list |-> list[i]]
      /\ \A i \in DOMAIN js : list[i].job = js[i] /\ list[i].shared /\ list[i] \in Entry(k)
  BY <1>1 DEF Entry
<1>3. /\ list \in Seq(Entry(k))
      /\ \A i, x \in DOMAIN list : list[i].job.name = list[x].job.name => i = x
      /\ \A i \in DOMAIN list : list[i].job.name \in JobNames[k]
  BY <1>2, EntriesFrom
<1>4. /\ \A i \in DOMAIN list : list[i].job.name \in DOMAIN w
      /\ \A n \in DOMAIN w : \E i \in DOMAIN list : list[i].job.name = n
  BY <1>2
<1>5. ASSUME NEW n \in DOMAIN w
      PROVE  w[n] \in Job(k) /\ w[n].name = n /\ \E i \in DOMAIN js : w[n] = js[i]
  BY JobNamedIs
<1>6. Matching(list, w)
  BY <1>3, <1>4, MatchingIs
<1>7. ASSUME NEW i \in DOMAIN list PROVE list[i].job = w[list[i].job.name]
  <2> DEFINE n == list[i].job.name
  <2>1. n \in DOMAIN w
    BY <1>4
  <2> HIDE DEF n
  <2>2. w[n].name = n /\ \E x \in DOMAIN js : w[n] = js[x]
    BY <2>1, <1>5
  <2>3. PICK x \in DOMAIN js : w[n] = js[x]
    BY <2>2
  <2>4. x \in DOMAIN list /\ list[x].job = js[x] /\ list[x].job.name = list[i].job.name
    BY <2>2, <2>3, <1>2 DEF n
  <2>5. x = i
    BY <2>4, <1>3
  <2> QED
    BY <2>3, <2>5, <1>2 DEF n
<1>8. Same(list, w)
  BY <1>2, <1>6, <1>7 DEF Same
<1>9. Typed(k, list, w)
  <2>1. \A n \in DOMAIN w : n \in JobNames[k]
    BY <1>3, <1>4
  <2> QED
    BY <2>1, <1>3, <1>5 DEF Typed
<1> QED
  BY <1>8, <1>9

\* A reloaded daemon watches mounts of the names its list has.
LEMMA MountsReloaded ==
    ASSUME NEW k \in Kinds, NEW old, NEW w, Typed(k, old, w), NEW js \in Seq(Job(k)),
           NEW list, DOMAIN list = DOMAIN js, list = [i \in DOMAIN list |-> list[i]],
           \A i \in DOMAIN js : list[i].job = js[i] /\ list[i] \in Entry(k),
           NEW w2, w2 = Rewatched(w, js)
    PROVE  Typed(k, list, w2) /\ (Distinct(js) => Matching(list, w2))
<1>1. /\ list \in Seq(Entry(k))
      /\ Distinct(js) => \A i, x \in DOMAIN list : list[i].job.name = list[x].job.name => i = x
      /\ \A i \in DOMAIN list : list[i].job.name \in JobNames[k]
  BY EntriesFrom
<1>2. /\ \A i \in DOMAIN list : list[i].job.name \in DOMAIN w2
      /\ \A n \in DOMAIN w2 : \E i \in DOMAIN list : list[i].job.name = n
  BY DEF Rewatched
<1>3. ASSUME NEW n \in DOMAIN w2 PROVE w2[n] \in Job(k) /\ w2[n].name = n
  <2>1. CASE n \in DOMAIN w
    BY <2>1 DEF Typed, Rewatched
  <2>2. CASE n \notin DOMAIN w
    BY <2>2, JobNamedIs DEF Rewatched
  <2> QED
    BY <2>1, <2>2
<1>4. Typed(k, list, w2)
  <2>1. \A n \in DOMAIN w2 : n \in JobNames[k]
    BY <1>1, <1>2
  <2> QED
    BY <2>1, <1>1, <1>3 DEF Typed
<1>5. Distinct(js) => Matching(list, w2)
  BY <1>1, <1>2, MatchingIs
<1> QED
  BY <1>4, <1>5

\* What a request makes of its payload is a job.
LEMMA BuiltIs ==
    ASSUME NEW k \in Kinds, NEW n \in JobNames[k], NEW p \in Payloads[k],
           hosts \in Seq(Host), Resolves(p)
    PROVE  /\ Built(n, p) \in Job(k) /\ Built(n, p).name = n
           /\ Built(n, p).host = NoHost \/ Known(hosts, Built(n, p).host)
<1> DEFINE s == IF p.host = NoHost THEN p.server ELSE hosts[FirstNamed(hosts, p.host)].server
<1>1. p.on \in BOOLEAN /\ p.tool \in Tools(k) /\ p.server \in Servers \cup {Local}
      /\ p.host \in HostNames \cup {NoHost} /\ p.text \in Texts
  BY ControlAssumption DEF Details
<1>2. p.host # NoHost => FirstNamed(hosts, p.host) \in DOMAIN hosts
  <2>1. HostsNamed(hosts, p.host) \subseteq Nat
    BY DEF HostsNamed
  <2> QED
    BY <2>1, MinIn DEF Resolves, Known, FirstNamed, HostsNamed
<1>3. s \in Servers \cup {Local}
  <2>1. CASE p.host = NoHost
    BY <1>1, <2>1
  <2>2. CASE p.host # NoHost
    <3>1. hosts[FirstNamed(hosts, p.host)] \in Host
      BY <1>2, <2>2
    <3> QED
      BY <2>2, <3>1 DEF Host
  <2> QED
    BY <2>1, <2>2
<1>4. Built(n, p) = [name |-> n, on |-> p.on, tool |-> p.tool, host |-> p.host, server |-> s,
                    text |-> p.text]
  BY DEF Built
<1> HIDE DEF s
<1>5. Built(n, p) \in Job(k) /\ Built(n, p).name = n /\ Built(n, p).host = p.host
  BY <1>1, <1>3, <1>4 DEF Job
<1> QED
  BY <1>5 DEF Resolves

-----------------------------------------------------------------------------
(* What each action keeps of the memory                                    *)

\* A change of the jobs of one kind.
LEMMA OneKind ==
    ASSUME MemoryInv, NEW k \in Kinds, NEW list, NEW w,
           jobs' = [jobs EXCEPT ![k] = list], states' = [states EXCEPT ![k] = w],
           UNCHANGED <<settings, hosts, reloaded, reloads>>,
           Typed(k, list, w),
           Matching(jobs[k], states[k]) => Matching(list, w),
           Same(jobs[k], states[k]) => Same(list, w),
           reloads = 0 /\ HostsAmong(jobs[k], hosts) => HostsAmong(list, hosts)
    PROVE  MemoryInv'
<1>1. /\ DOMAIN jobs' = Kinds /\ DOMAIN states' = Kinds
      /\ jobs'[k] = list /\ states'[k] = w
      /\ \A x \in Kinds : x # k => jobs'[x] = jobs[x] /\ states'[x] = states[x]
  BY DEF MemoryInv
<1>2. ASSUME NEW x \in Kinds
      PROVE  /\ Typed(x, jobs'[x], states'[x])
             /\ x = "mount" \/ ~reloaded' => Matching(jobs'[x], states'[x])
             /\ ~reloaded' => Same(jobs'[x], states'[x])
             /\ reloads' = 0 => HostsAmong(jobs'[x], hosts')
  BY <1>1 DEF MemoryInv, Good
<1> QED
  BY <1>1, <1>2 DEF MemoryInv, Good

\* What the job requests start from.
LEMMA JobsBefore ==
    ASSUME Inv, NEW k \in Kinds
    PROVE  Typed(k, jobs[k], states[k]) /\ hosts \in Seq(Host)
BY DEF Inv, MemoryInv, Good

LEMMA AddJobKeeps ==
    ASSUME Inv, NEW k \in Kinds, NEW n \in JobNames[k], NEW p \in Payloads[k], AddJob(k, n, p)
    PROVE  MemoryInv'
<1> DEFINE j == Built(n, p)
           list == AddedTo(jobs[k], j)
           w == Watching(states[k], n, j)
<1>1. /\ n \notin DOMAIN states[k] /\ Resolves(p)
      /\ jobs' = [jobs EXCEPT ![k] = list] /\ states' = [states EXCEPT ![k] = w]
      /\ UNCHANGED <<settings, hosts, reloaded, reloads>>
  BY DEF AddJob, Request, AddedTo
<1>2. Typed(k, jobs[k], states[k]) /\ hosts \in Seq(Host) /\ MemoryInv
  BY JobsBefore DEF Inv
<1>3. j \in Job(k) /\ j.name = n /\ (j.host = NoHost \/ Known(hosts, j.host))
  BY <1>1, <1>2, BuiltIs
<1> HIDE DEF j
<1>4. /\ Typed(k, list, w)
      /\ Matching(jobs[k], states[k]) => Matching(list, w)
      /\ Same(jobs[k], states[k]) => Same(list, w)
      /\ HostsAmong(jobs[k], hosts) => HostsAmong(list, hosts)
  BY <1>1, <1>2, <1>3, Added
<1> HIDE DEF list, w
<1> QED
  BY <1>1, <1>2, <1>4, OneKind

\* Update, a rename that is refused, enable and disable, and a switch of the tool:
\* the watched job changes, and its host is one of the request or the one it had.
LEMMA EditKeeps ==
    ASSUME Inv, NEW k \in Kinds, NEW n \in DOMAIN states[k], NEW j \in Job(k), j.name = n,
           j.host = NoHost \/ Known(hosts, j.host) \/ j.host = states[k][n].host,
           Edit(k, n, j), UNCHANGED <<reloaded, reloads>>
    PROVE  MemoryInv'
<1> DEFINE list == Edited(jobs[k], n, j)
           w == [states[k] EXCEPT ![n] = j]
<1>1. /\ jobs' = [jobs EXCEPT ![k] = list] /\ states' = [states EXCEPT ![k] = w]
      /\ UNCHANGED <<settings, hosts>>
  BY DEF Edit
<1>2. Typed(k, jobs[k], states[k]) /\ MemoryInv
  BY JobsBefore DEF Inv
<1>3. /\ Typed(k, list, w)
      /\ Matching(jobs[k], states[k]) => Matching(list, w)
      /\ Same(jobs[k], states[k]) => Same(list, w)
      /\ /\ HostsAmong(jobs[k], hosts)
         /\ \/ j.host = NoHost \/ Known(hosts, j.host)
            \/ Same(jobs[k], states[k]) /\ j.host = states[k][n].host
         => HostsAmong(list, hosts)
  BY <1>2, EditedInPlace
<1>4. reloads = 0 => Same(jobs[k], states[k])
  BY DEF Inv, ControlInv, MemoryInv, Good
<1> HIDE DEF list, w
<1>5. reloads = 0 /\ HostsAmong(jobs[k], hosts) => HostsAmong(list, hosts)
  BY <1>3, <1>4
<1> QED
  BY <1>1, <1>2, <1>3, <1>5, OneKind

LEMMA RenameJobKeeps ==
    ASSUME Inv, NEW k \in Kinds, NEW n \in JobNames[k], NEW m \in JobNames[k], NEW p \in Payloads[k],
           RenameJob(k, n, m, p)
    PROVE  MemoryInv'
<1> DEFINE j == Built(m, p)
           list == RenamedIn(jobs[k], n, j)
           w == Renaming(states[k], n, m, j)
<1>1. /\ n \in DOMAIN states[k] /\ m \notin DOMAIN states[k] /\ Resolves(p)
      /\ jobs' = [jobs EXCEPT ![k] = list] /\ states' = [states EXCEPT ![k] = w]
      /\ UNCHANGED <<settings, hosts, reloaded, reloads>>
  BY DEF RenameJob, Request, RenamedIn, Renaming, Forgetting
<1>2. Typed(k, jobs[k], states[k]) /\ hosts \in Seq(Host) /\ MemoryInv
  BY JobsBefore DEF Inv
<1>3. j \in Job(k) /\ j.name = m /\ (j.host = NoHost \/ Known(hosts, j.host))
  BY <1>1, <1>2, BuiltIs
<1> HIDE DEF j
<1>4. /\ Typed(k, list, w)
      /\ Matching(jobs[k], states[k]) => Matching(list, w)
      /\ Same(jobs[k], states[k]) => Same(list, w)
      /\ HostsAmong(jobs[k], hosts) => HostsAmong(list, hosts)
  BY <1>1, <1>2, <1>3, Renamed
<1> HIDE DEF list, w
<1> QED
  BY <1>1, <1>2, <1>4, OneKind

LEMMA DeleteJobKeeps ==
    ASSUME Inv, NEW k \in Kinds, NEW n \in JobNames[k], DeleteJob(k, n)
    PROVE  MemoryInv'
<1> DEFINE list == DeletedFrom(jobs[k], n)
           w == Forgetting(states[k], n)
<1>1. /\ n \in DOMAIN states[k]
      /\ jobs' = [jobs EXCEPT ![k] = list] /\ states' = [states EXCEPT ![k] = w]
      /\ UNCHANGED <<settings, hosts, reloaded, reloads>>
  BY DEF DeleteJob, Request, DeletedFrom, Forgetting
<1>2. Typed(k, jobs[k], states[k]) /\ MemoryInv
  BY JobsBefore DEF Inv
<1>3. /\ Typed(k, list, w)
      /\ Matching(jobs[k], states[k]) => Matching(list, w)
      /\ Same(jobs[k], states[k]) => Same(list, w)
      /\ HostsAmong(jobs[k], hosts) => HostsAmong(list, hosts)
  BY <1>1, <1>2, Deleted
<1> HIDE DEF list, w
<1> QED
  BY <1>1, <1>2, <1>3, OneKind

\* A change of the hosts that leaves every job's host known.
LEMMA HostsChange ==
    ASSUME MemoryInv, UNCHANGED <<settings, jobs, states, reloaded, reloads>>,
           hosts' \in Seq(Host),
           \A k \in Kinds : HostsAmong(jobs[k], hosts) => HostsAmong(jobs[k], hosts')
    PROVE  MemoryInv'
BY DEF MemoryInv, Good

LEMMA AddHostKeeps ==
    ASSUME Inv, NEW h \in Host, AddHost(h)
    PROVE  MemoryInv'
<1>1. /\ hosts' = Append(hosts, h) /\ hosts \in Seq(Host) /\ MemoryInv
      /\ UNCHANGED <<settings, jobs, states, reloaded, reloads>>
  BY DEF AddHost, Request, Inv, MemoryInv
<1>2. hosts' \in Seq(Host) /\ \A i \in DOMAIN hosts : i \in DOMAIN hosts' /\ hosts'[i] = hosts[i]
  BY <1>1
<1>3. \A x : Known(hosts, x) => Known(hosts', x)
  BY <1>2 DEF Known, HostsNamed
<1>4. \A k \in Kinds : HostsAmong(jobs[k], hosts) => HostsAmong(jobs[k], hosts')
  BY <1>3 DEF HostsAmong
<1> QED
  BY <1>1, <1>2, <1>4, HostsChange

\* A host is deleted when no entry of the lists refers to it.
LEMMA DeleteHostKeeps ==
    ASSUME Inv, NEW n \in HostNames, DeleteHost(n)
    PROVE  MemoryInv'
<1> DEFINE gone == {h \in ToSet(hosts) : h.name = n}
           q == Without(hosts, gone)
<1>1. /\ hosts' = q /\ hosts \in Seq(Host) /\ MemoryInv
      /\ UNCHANGED <<settings, jobs, states, reloaded, reloads>>
      /\ \A k \in Kinds : ~Refers(JobsOf(jobs[k]), n)
  BY DEF DeleteHost, Request, Inv, MemoryInv
<1>2. \A i \in DOMAIN hosts : hosts[i] \in gone <=> hosts[i].name = n
  BY DEF ToSet
<1> HIDE DEF gone
<1>3. q \in Seq(Host) /\ \E h : Keeps(q, hosts, gone, h)
  BY <1>1, WithoutKeeps
<1> HIDE DEF q
<1>4. PICK h : Keeps(q, hosts, gone, h)
  BY <1>3
<1>5. ASSUME NEW x, x # n, Known(hosts, x) PROVE Known(q, x)
  <2>1. PICK y \in DOMAIN hosts : hosts[y].name = x
    BY <1>5 DEF Known, HostsNamed
  <2>2. PICK i \in DOMAIN q : h[i] = y
    BY <2>1, <1>2, <1>4, <1>5 DEF Keeps
  <2>3. q[i].name = x
    BY <2>1, <2>2, <1>4 DEF Keeps
  <2> QED
    BY <2>3 DEF Known, HostsNamed
<1>6. \A k \in Kinds : \A i \in DOMAIN jobs[k] : jobs[k][i].job.host # n
  BY <1>1 DEF Refers, JobsOf
<1>7. \A k \in Kinds : HostsAmong(jobs[k], hosts) => HostsAmong(jobs[k], q)
  BY <1>5, <1>6 DEF HostsAmong
<1> QED
  BY <1>1, <1>3, <1>7, HostsChange

\* A host is changed, and the cascade follows its new name.
LEMMA UpdateHostKeeps ==
    ASSUME Inv, NEW n \in HostNames, NEW h \in Host, UpdateHost(n, h)
    PROVE  MemoryInv'
<1> DEFINE mine == FirstNamed(hosts, n)
           m == h.name
           list(k) == MovedIn(k, jobs[k], n, m)
           w(k) == MovedTo(k, jobs[k], states[k], n, m)
<1>1. /\ Known(hosts, n) /\ hosts \in Seq(Host) /\ MemoryInv
      /\ hosts' = [hosts EXCEPT ![mine] = h]
      /\ jobs' = [k \in Kinds |-> list(k)]
      /\ states' = [k \in Kinds |-> w(k)]
      /\ UNCHANGED <<settings, reloaded, reloads>>
  BY DEF UpdateHost, Request, Inv, MemoryInv, MovedIn, MovedTo, SharedNames
<1>2. m \in HostNames
  BY DEF Host
<1>3. mine \in DOMAIN hosts /\ hosts[mine].name = n
  <2>1. HostsNamed(hosts, n) \subseteq Nat
    BY <1>1 DEF HostsNamed
  <2> QED
    BY <1>1, <2>1, MinIn DEF Known, FirstNamed, HostsNamed
<1> HIDE DEF mine
<1>4. /\ hosts' \in Seq(Host) /\ DOMAIN hosts' = DOMAIN hosts /\ hosts'[mine] = h
      /\ \A i \in DOMAIN hosts : i # mine => hosts'[i] = hosts[i]
  <2>1. hosts \in [1..Len(hosts) -> Host] /\ Len(hosts) \in Nat
    BY <1>1
  <2>2. hosts' \in [1..Len(hosts) -> Host]
    BY <1>1, <1>3, <2>1
  <2> QED
    BY <1>1, <1>3, <2>1, <2>2
<1>5. Known(hosts', m) /\ \A x : x # n /\ Known(hosts, x) => Known(hosts', x)
  BY <1>3, <1>4 DEF Known, HostsNamed
<1> HIDE DEF m
<1>6. ASSUME NEW k \in Kinds
      PROVE  /\ Typed(k, list(k), w(k))
             /\ Matching(jobs[k], states[k]) => Matching(list(k), w(k))
             /\ Same(jobs[k], states[k]) => Same(list(k), w(k))
             /\ HostsAmong(jobs[k], hosts) => HostsAmong(list(k), hosts')
  <2>1. Typed(k, jobs[k], states[k])
    BY JobsBefore
  <2> QED
    BY <1>2, <1>5, <2>1, HostMoved
<1>7. DOMAIN jobs' = Kinds /\ DOMAIN states' = Kinds
      /\ \A k \in Kinds : jobs'[k] = list(k) /\ states'[k] = w(k)
  BY <1>1
<1> HIDE DEF list, w
<1>8. ASSUME NEW k \in Kinds
      PROVE  /\ Typed(k, jobs'[k], states'[k])
             /\ k = "mount" \/ ~reloaded' => Matching(jobs'[k], states'[k])
             /\ ~reloaded' => Same(jobs'[k], states'[k])
             /\ reloads' = 0 => HostsAmong(jobs'[k], hosts')
  BY <1>1, <1>6, <1>7 DEF MemoryInv, Good
<1>9. settings' \in Settings
  BY <1>1 DEF MemoryInv
<1> QED
  BY <1>4, <1>7, <1>8, <1>9 DEF MemoryInv, Good

\* Every request keeps the invariant of the memory.
LEMMA RequestKeeps ==
    ASSUME Inv, AnyRequest
    PROVE  MemoryInv'
<1>1. ASSUME NEW k \in Kinds, NEW n \in JobNames[k], NEW p \in Payloads[k], NEW m \in JobNames[k],
             UpdateJob(k, n, p) \/ RenameConflicts(k, n, m, p)
      PROVE  MemoryInv'
  <2> DEFINE j == Built(n, p)
  <2>1. /\ n \in DOMAIN states[k] /\ Resolves(p) /\ Edit(k, n, j)
        /\ UNCHANGED <<reloaded, reloads>>
    BY <1>1 DEF UpdateJob, RenameConflicts, Request
  <2>2. j \in Job(k) /\ j.name = n /\ (j.host = NoHost \/ Known(hosts, j.host))
    BY <2>1, JobsBefore, BuiltIs
  <2> HIDE DEF j
  <2> QED
    BY <2>1, <2>2, EditKeeps
<1>2. ASSUME NEW k \in Kinds, NEW n \in DOMAIN states[k], NEW j,
             \/ \E on \in BOOLEAN : j = [states[k][n] EXCEPT !.on = on]
             \/ k = "mount" /\ j = [states[k][n] EXCEPT !.tool = IF @ = "sshfs" THEN "rclone" ELSE "sshfs"],
             Edit(k, n, j), UNCHANGED <<reloaded, reloads>>
      PROVE  MemoryInv'
  <2>1. states[k][n] \in Job(k) /\ states[k][n].name = n
    BY JobsBefore DEF Typed
  <2>2. j \in Job(k) /\ j.name = n /\ j.host = states[k][n].host
    BY <1>2, <2>1 DEF Job, Tools
  <2> QED
    BY <1>2, <2>2, EditKeeps
<1>3. ASSUME NEW k \in Kinds, NEW n \in JobNames[k], NEW on \in BOOLEAN, SetEnabled(k, n, on)
      PROVE  MemoryInv'
  BY <1>2, <1>3 DEF SetEnabled, Request
<1>4. ASSUME NEW n \in JobNames["mount"], SwitchBackend(n)
      PROVE  MemoryInv'
  BY <1>2, <1>4 DEF SwitchBackend, Request, Kinds
<1>5. ASSUME NEW s \in Settings, UpdateSettings(s)
      PROVE  MemoryInv'
  BY <1>5 DEF UpdateSettings, Request, Inv, MemoryInv, Good
<1>6. ASSUME NEW k \in Kinds, JobRequest(k)
      PROVE  MemoryInv'
  BY <1>1, <1>3, <1>6, AddJobKeeps, RenameJobKeeps, DeleteJobKeeps DEF JobRequest
<1> QED
  BY <1>4, <1>5, <1>6, AddHostKeeps, UpdateHostKeeps, DeleteHostKeeps DEF AnyRequest

\* What a save renders is a configuration that start accepts, as far as the
\* mounts go, and whose references resolve unless there was a reload.
LEMMA ContentIs ==
    ASSUME MemoryInv
    PROVE  /\ IsConfig(Content)
           /\ Distinct(Content.jobs["mount"])
           /\ reloads = 0 => Resolved(Content)
<1>1. /\ DOMAIN Content = {"settings", "hosts", "jobs"}
      /\ Content.settings = settings /\ Content.hosts = hosts
      /\ DOMAIN Content.jobs = Kinds
      /\ \A k \in Kinds : Content.jobs[k] = JobsOf(jobs[k])
  BY DEF Content
<1>2. ASSUME NEW k \in Kinds
      PROVE  /\ JobsOf(jobs[k]) \in Seq(Job(k))
             /\ DOMAIN JobsOf(jobs[k]) = DOMAIN jobs[k]
             /\ \A i \in DOMAIN jobs[k] : JobsOf(jobs[k])[i] = jobs[k][i].job
  <2> DEFINE list == jobs[k]
  <2>1. list \in Seq(Entry(k))
    BY DEF MemoryInv, Good, Typed
  <2> HIDE DEF list
  <2>2. Len(list) \in Nat /\ DOMAIN list = 1..Len(list) /\ \A i \in DOMAIN list : list[i].job \in Job(k)
    BY <2>1, EntriesOf
  <2>3. JobsOf(list) = [i \in 1..Len(list) |-> list[i].job]
    BY <2>2 DEF JobsOf
  <2>4. JobsOf(list) \in Seq(Job(k))
    BY <2>2, <2>3
  <2> QED
    BY <2>2, <2>3, <2>4 DEF list
<1>3. IsConfig(Content)
  BY <1>1, <1>2 DEF IsConfig, MemoryInv
<1>4. Distinct(Content.jobs["mount"])
  BY <1>1 DEF MemoryInv, Good, Matching, Kinds
<1>5. ASSUME reloads = 0 PROVE Resolved(Content)
  <2>1. \A k \in Kinds : HostsAmong(jobs[k], hosts)
    BY <1>5 DEF MemoryInv, Good
  <2> QED
    BY <2>1, <1>1, <1>2 DEF Resolved, HostsAmong
<1> QED
  BY <1>3, <1>4, <1>5

\* The memory of a daemon that does not run.
LEMMA NoneIs ==
    ASSUME NEW k \in Kinds, NEW hs
    PROVE  Typed(k, None[k], None[k]) /\ Same(None[k], None[k]) /\ HostsAmong(None[k], hs)
<1> DEFINE e == <<>>
<1>1. None[k] = e /\ DOMAIN e = {} /\ e \in Seq(Entry(k))
  BY DEF None
<1> HIDE DEF e
<1>2. Typed(k, e, e) /\ HostsAmong(e, hs)
  BY <1>1 DEF Typed, HostsAmong
<1>3. Matching(e, e)
  BY <1>1, MatchingIs
<1>4. Same(e, e)
  BY <1>1, <1>3 DEF Same
<1> QED
  BY <1>1, <1>2, <1>4

LEMMA StopKeeps ==
    ASSUME Stop
    PROVE  MemoryInv'
<1>1. settings' = Defaults /\ hosts' = <<>> /\ jobs' = None /\ states' = None
  BY DEF Stop
<1>2. \A k \in Kinds : /\ Typed(k, jobs'[k], states'[k]) /\ Same(jobs'[k], states'[k])
                       /\ HostsAmong(jobs'[k], hosts')
  BY <1>1, NoneIs
<1>3. /\ settings' \in Settings /\ hosts' \in Seq(Host)
      /\ DOMAIN jobs' = Kinds /\ DOMAIN states' = Kinds
  BY <1>1, FileAssumption DEF None
<1> QED
  BY <1>2, <1>3 DEF MemoryInv, Good, Same

LEMMA StartKeeps ==
    ASSUME Inv, Start
    PROVE  MemoryInv'
<1> DEFINE c == Load(file)
           list(k) == [i \in DOMAIN c.jobs[k] |-> [job |-> c.jobs[k][i], shared |-> TRUE]]
           w(k) == [n \in {c.jobs[k][i].name : i \in DOMAIN c.jobs[k]} |-> JobNamed(c.jobs[k], n)]
<1>1. /\ settings' = c.settings /\ hosts' = c.hosts
      /\ jobs' = [k \in Kinds |-> list(k)] /\ states' = [k \in Kinds |-> w(k)]
      /\ reloads' = reloads /\ file # Broken /\ Valid(c)
  BY DEF Start
<1>2. Readable(file) => IsConfig(file)
  BY DEF Inv, FileInv
<1>3. IsConfig(c)
  BY <1>1, <1>2, LoadTyped
<1>4. reloads = 0 => Resolved(c)
  BY <1>1, <1>2, MigrationResolves DEF Inv, FileInv
<1> HIDE DEF c
<1>5. ASSUME NEW k \in Kinds
      PROVE  /\ Typed(k, jobs'[k], states'[k]) /\ Same(jobs'[k], states'[k])
             /\ reloads = 0 => HostsAmong(jobs'[k], hosts')
  <2> DEFINE js == c.jobs[k]
  <2>1. js \in Seq(Job(k)) /\ Distinct(js)
    BY <1>1, <1>3 DEF IsConfig, Valid
  <2>2. jobs'[k] = [i \in DOMAIN js |-> [job |-> js[i], shared |-> TRUE]]
    BY <1>1
  <2>3. states'[k] = [n \in {js[i].name : i \in DOMAIN js} |-> JobNamed(js, n)]
    BY <1>1
  <2>4. reloads = 0 => HostsAmong(jobs'[k], hosts')
    BY <1>1, <1>4, <2>2 DEF Resolved, HostsAmong
  <2> HIDE DEF js
  <2>5. Typed(k, jobs'[k], states'[k]) /\ Same(jobs'[k], states'[k])
    BY <2>1, <2>2, <2>3, Started
  <2> QED
    BY <2>4, <2>5
<1>6. /\ settings' \in Settings /\ hosts' \in Seq(Host)
      /\ DOMAIN jobs' = Kinds /\ DOMAIN states' = Kinds
  BY <1>1, <1>3 DEF IsConfig
<1> QED
  BY <1>1, <1>5, <1>6 DEF MemoryInv, Good, Same

LEMMA ReloadKeeps ==
    ASSUME Inv, Reload
    PROVE  MemoryInv'
<1> DEFINE c == Load(file)
           ms == c.jobs["mount"]
           watched == states["mount"]
           list(k) == [i \in DOMAIN c.jobs[k] |->
                         [job |-> c.jobs[k][i],
                          shared |-> k = "mount" /\ c.jobs[k][i].name \notin DOMAIN states[k]]]
           w == Rewatched(watched, ms)
<1>1. /\ settings' = c.settings /\ hosts' = hosts
      /\ jobs' = [k \in Kinds |-> list(k)]
      /\ states' = [states EXCEPT !["mount"] = w]
      /\ reloads' = reloads + 1 /\ reloaded' = TRUE /\ file # Broken
  BY DEF Reload, Becomes, Rewatched
<1>2. (Readable(file) => IsConfig(file)) /\ (Readable(file) => Distinct(file.jobs["mount"]))
  BY DEF Inv, FileInv
<1>3. IsConfig(c) /\ Distinct(ms)
  BY <1>1, <1>2, LoadTyped, LoadDistinct DEF Kinds
<1>4. reloads' # 0
  BY <1>1 DEF Inv, ControlInv
<1>5. \A k \in Kinds : Typed(k, jobs[k], states[k])
  BY JobsBefore
<1>6. /\ DOMAIN jobs' = Kinds /\ DOMAIN states' = Kinds
      /\ states'["mount"] = w /\ states'["sync"] = states["sync"]
      /\ \A k \in Kinds : jobs'[k] = list(k)
  BY <1>1 DEF Kinds, Inv, MemoryInv
<1> HIDE DEF c, w
<1>7. ASSUME NEW k \in Kinds
      PROVE  /\ list(k) \in Seq(Entry(k))
             /\ DOMAIN list(k) = DOMAIN c.jobs[k] /\ list(k) = [i \in DOMAIN list(k) |-> list(k)[i]]
             /\ \A i \in DOMAIN c.jobs[k] : list(k)[i].job = c.jobs[k][i] /\ list(k)[i] \in Entry(k)
  <2>1. c.jobs[k] \in Seq(Job(k))
    BY <1>3 DEF IsConfig
  <2>2. \A i \in DOMAIN c.jobs[k] : c.jobs[k][i] \in Job(k)
    BY <2>1
  <2>3. /\ DOMAIN list(k) = DOMAIN c.jobs[k] /\ list(k) = [i \in DOMAIN list(k) |-> list(k)[i]]
        /\ \A i \in DOMAIN c.jobs[k] : list(k)[i].job = c.jobs[k][i] /\ list(k)[i] \in Entry(k)
    BY <2>2 DEF Entry
  <2> HIDE DEF list
  <2>4. list(k) \in Seq(Entry(k))
    BY <2>1, <2>3, EntriesFrom
  <2> QED
    BY <2>3, <2>4
<1> HIDE DEF list
<1>8. Typed("mount", jobs'["mount"], states'["mount"]) /\ Matching(jobs'["mount"], states'["mount"])
  <2>1. ms \in Seq(Job("mount")) /\ Typed("mount", jobs["mount"], watched) /\ "mount" \in Kinds
    BY <1>3, <1>5 DEF IsConfig, Kinds
  <2>2. /\ DOMAIN list("mount") = DOMAIN ms
        /\ list("mount") = [i \in DOMAIN list("mount") |-> list("mount")[i]]
        /\ \A i \in DOMAIN ms : list("mount")[i].job = ms[i] /\ list("mount")[i] \in Entry("mount")
    BY <1>7, <2>1
  <2>3. w = Rewatched(watched, ms)
    BY DEF w
  <2> HIDE DEF ms, watched
  <2>4. Typed("mount", list("mount"), w) /\ (Distinct(ms) => Matching(list("mount"), w))
    BY <2>1, <2>2, <2>3, MountsReloaded
  <2> QED
    BY <1>3, <1>6, <2>1, <2>4
<1>9. Typed("sync", jobs'["sync"], states'["sync"])
  <2>1. "sync" \in Kinds
    BY DEF Kinds
  <2> QED
    BY <2>1, <1>5, <1>6, <1>7 DEF Typed
<1>10. settings' \in Settings /\ hosts' \in Seq(Host)
  BY <1>1, <1>3 DEF IsConfig, Inv, MemoryInv
<1> QED
  BY <1>1, <1>4, <1>6, <1>8, <1>9, <1>10 DEF MemoryInv, Good, Kinds

-----------------------------------------------------------------------------
(* The invariant                                                           *)

\* Every step keeps what is invariant of the memory.
LEMMA MemoryStep ==
    ASSUME Inv, [Next]_vars
    PROVE  MemoryInv'
<1>1. ASSUME UNCHANGED <<memory, reloaded, reloads>>
      PROVE  MemoryInv'
  BY <1>1 DEF memory, Inv, MemoryInv, Good
<1>2. CASE SaveRefused \/ SaveWrites \/ SaveReplaces \/ SaveFails \/ HandEdit \/ UNCHANGED vars
  BY <1>1, <1>2 DEF SaveRefused, SaveWrites, SaveReplaces, SaveFails, HandEdit, vars, counters
<1> QED
  BY <1>2, RequestKeeps, StartKeeps, ReloadKeeps, StopKeeps DEF Next, AnyRequest

\* Every step keeps what is invariant of the file: a save puts a configuration
\* there, and a user one that start accepts.
LEMMA FileStep ==
    ASSUME Inv, [Next]_vars
    PROVE  FileInv'
<1>1. /\ \A f \in {temp, file} : Readable(f) => IsConfig(f)
      /\ Readable(file) => Distinct(file.jobs["mount"])
      /\ reloads = 0 => (Readable(file) => Resolved(file))
  BY DEF Inv, FileInv
<1>2. ASSUME UNCHANGED <<temp, file>>, reloads' = reloads \/ reloads' # 0
      PROVE  FileInv'
  BY <1>1, <1>2 DEF FileInv
<1>3. CASE AnyRequest
  BY <1>2, <1>3, RequestsAlike DEF Request
<1>4. CASE Start \/ SaveRefused \/ UNCHANGED vars
  BY <1>2, <1>4 DEF Start, SaveRefused, vars, counters
<1>5. CASE Reload
  BY <1>2, <1>5 DEF Reload, Inv, ControlInv
<1>6. ASSUME temp' = Absent, file' = file, reloads' = reloads
      PROVE  FileInv'
  BY <1>1, <1>6 DEF FileInv, Readable
<1>7. CASE Stop \/ SaveFails
  BY <1>6, <1>7 DEF Stop, SaveFails, counters
<1>8. IsConfig(Content) /\ Distinct(Content.jobs["mount"]) /\ (reloads = 0 => Resolved(Content))
  BY ContentIs DEF Inv
<1>9. ASSUME NEW cut \in BOOLEAN, NEW f \in Renderings(Content, cut), Readable(f)
      PROVE  IsConfig(f) /\ Distinct(f.jobs["mount"]) /\ (reloads = 0 => Resolved(f))
  BY <1>8, <1>9, SavedIsUsable DEF Kinds
<1>10. CASE SaveWrites
  <2>1. /\ file' = file /\ reloads' = reloads
        /\ short' \in BOOLEAN /\ temp' \in Renderings(Content, short')
    BY <1>10 DEF SaveWrites, WriteTemp
  <2>2. Readable(temp') => IsConfig(temp')
    BY <1>9, <2>1
  <2> QED
    BY <1>1, <2>1, <2>2 DEF FileInv
<1>12. CASE SaveReplaces
  <2>1. temp' = Absent /\ file' \in Renderings(Content, short) /\ reloads' = reloads
    BY <1>12 DEF SaveReplaces, counters, Inv, SaveInv
  <2>2. Readable(file') => IsConfig(file') /\ Distinct(file'.jobs["mount"]) /\ (reloads = 0 => Resolved(file'))
    BY <1>9, <2>1 DEF Inv, ControlInv
  <2> QED
    BY <2>1, <2>2 DEF FileInv, Readable
<1>11. CASE HandEdit
  <2>1. temp' = temp /\ reloads' = reloads /\ file' \in HandEdits \cup {Absent, Broken}
    BY <1>11 DEF HandEdit
  <2>2. Readable(file') => IsConfig(file') /\ Valid(file') /\ Resolved(file')
    BY <2>1, ControlAssumption DEF Readable
  <2>3. Readable(file') => Distinct(file'.jobs["mount"])
    BY <2>2 DEF Valid, Kinds
  <2> QED
    BY <1>1, <2>1, <2>2, <2>3 DEF FileInv
<1> QED
  BY <1>3, <1>4, <1>5, <1>7, <1>10, <1>11, <1>12 DEF Next, AnyRequest

LEMMA ControlStep ==
    ASSUME Inv, [Next]_vars
    PROVE  ControlInv'
<1>1. /\ MaxRequests \in Nat /\ MaxUpsets \in Nat /\ MaxReloads \in Nat /\ MaxStarts \in Nat
      /\ ControlInv
  BY ControlAssumption DEF Inv
<1> USE DEF ControlInv
<1>2. CASE AnyRequest
  BY <1>1, <1>2, RequestsAlike DEF Request, Saves
<1>3. CASE SaveRefused \/ SaveReplaces
  BY <1>1, <1>3 DEF SaveRefused, SaveReplaces, counters
<1>9. CASE SaveWrites
  <2>1. /\ step' = "written" /\ short' \in BOOLEAN
        /\ shorts' = shorts \/ (shorts' = shorts + 1 /\ edits + shorts < MaxUpsets)
        /\ UNCHANGED <<up, reloaded, reply, requests, edits, reloads, starts>>
    BY <1>1, <1>9 DEF SaveWrites, WriteTemp, HasMounts
  <2> QED
    BY <1>1, <2>1
<1>10. CASE SaveFails
  <2>1. /\ step' = "idle" /\ reply' = "error"
        /\ UNCHANGED <<up, reloaded, short, requests, edits, reloads, starts, shorts>>
    BY <1>1, <1>10 DEF SaveFails, HasMounts, counters
  <2> QED
    BY <1>1, <2>1
<1>4. CASE Reload
  BY <1>1, <1>4 DEF Reload
<1>5. CASE Start
  <2>1. /\ up' = TRUE /\ reloaded' = FALSE /\ starts' = starts + 1 /\ starts < MaxStarts
        /\ UNCHANGED <<step, reply, short, requests, edits, reloads, shorts>>
    BY <1>5 DEF Start
  <2>2. up' \in BOOLEAN /\ reloaded' \in BOOLEAN /\ (reloads' = 0 => ~reloaded')
    BY <2>1, Zenon
  <2> QED
    BY <1>1, <2>1, <2>2
<1>6. CASE Stop
  BY <1>1, <1>6 DEF Stop, counters
<1>7. CASE HandEdit
  BY <1>1, <1>7 DEF HandEdit
<1>8. CASE UNCHANGED vars
  BY <1>1, <1>8 DEF vars, counters
<1> QED
  BY <1>2, <1>3, <1>4, <1>5, <1>6, <1>7, <1>8, <1>9, <1>10 DEF Next, AnyRequest

LEMMA InvInit == Init => Inv
<1> SUFFICES ASSUME Init PROVE Inv
  OBVIOUS
<1>1. MemoryInv
  <2>1. settings = Defaults /\ hosts = <<>> /\ jobs = None /\ states = None
    BY DEF Init
  <2>2. \A k \in Kinds : /\ Typed(k, jobs[k], states[k]) /\ Same(jobs[k], states[k])
                         /\ HostsAmong(jobs[k], hosts)
    BY <2>1, NoneIs
  <2>3. /\ settings \in Settings /\ hosts \in Seq(Host)
        /\ DOMAIN jobs = Kinds /\ DOMAIN states = Kinds
    BY <2>1, FileAssumption DEF None
  <2> QED
    BY <2>2, <2>3 DEF MemoryInv, Good, Same
<1>2. FileInv
  <2>1. temp = Absent /\ file \in InitialFiles
    BY DEF Init
  <2>2. Readable(file) => IsConfig(file) /\ Valid(file) /\ Resolved(file)
    BY <2>1, ControlAssumption DEF Readable
  <2>3. Readable(file) => Distinct(file.jobs["mount"])
    BY <2>2 DEF Valid, Kinds
  <2> QED
    BY <2>1, <2>2, <2>3 DEF FileInv, Readable
<1>3. ControlInv
  <2>1. MaxRequests \in Nat /\ MaxUpsets \in Nat /\ MaxReloads \in Nat /\ MaxStarts \in Nat
    BY ControlAssumption
  <2>2. up \in BOOLEAN /\ reloaded \in BOOLEAN /\ ~reloaded /\ short \in BOOLEAN
    BY Zenon DEF Init
  <2> QED
    BY <2>1, <2>2 DEF Init, ControlInv
<1>4. SaveInv
  BY DEF Init, SaveInv
<1> QED
  BY <1>1, <1>2, <1>3, <1>4 DEF Inv

\* The invariant holds of every behaviour.
LEMMA InvHolds == Spec => []Inv
<1>1. Inv /\ [Next]_vars => Inv'
  BY SaveStep, MemoryStep, FileStep, ControlStep DEF Inv
<1> QED
  BY <1>1, InvInit, PTL DEF Spec

\* Every variable keeps its type, the lists and the file included: what a filter,
\* a rename or the migration leaves is a list of jobs of that kind.
THEOREM TypeCorrect == Spec => []TypeOK
<1>1. Inv => TypeOK
  <2> SUFFICES ASSUME Inv PROVE TypeOK
    OBVIOUS
  <2>1. \A k \in Kinds : Typed(k, jobs[k], states[k])
    BY JobsBefore
  <2>2. /\ settings \in Settings /\ hosts \in Seq(Host)
        /\ DOMAIN jobs = Kinds /\ DOMAIN states = Kinds
    BY DEF Inv, MemoryInv
  <2>3. \A f \in {temp, file} : Readable(f) => IsConfig(f)
    BY DEF Inv, FileInv
  <2>4. \A k \in Kinds :
          /\ jobs[k] \in Seq([job : Job(k), shared : BOOLEAN])
          /\ DOMAIN states[k] \subseteq JobNames[k]
          /\ \A n \in DOMAIN states[k] : states[k][n] \in Job(k) /\ states[k][n].name = n
    BY <2>1 DEF Typed, Entry
  <2> QED
    BY <2>2, <2>3, <2>4 DEF Inv, ControlInv, TypeOK
<1> QED
  BY <1>1, InvHolds, PTL

\* The list that is saved and the jobs that are watched name the same jobs, each
\* once, whatever was added, renamed, deleted, reloaded or restarted.
THEOREM NamesAlwaysAgree == Spec => []NamesAgree
<1>1. Inv => NamesAgree
  BY DEF Inv, MemoryInv, Good, Matching, NamesAgree
<1> QED
  BY <1>1, InvHolds, PTL

\* A request answered with success is on disk, with whatever an earlier one left
\* unsaved, as far as what was written can be read back: the watched jobs of a
\* daemon that was not reloaded are the file's.
THEOREM AnswersAreDurable == Spec => []AnsweredIsDurable
<1>1. Inv => AnsweredIsDurable
  <2> SUFFICES ASSUME Inv, up, reply = "ok", ~reloaded, jobs["mount"] # <<>>, ~short
               PROVE  file = Rendering(Content) /\ (Plain(Content) => WatchedIsSaved)
    BY DEF AnsweredIsDurable
  <2>1. file = Rendering(Content) /\ (Plain(Content) => file = Content)
    BY DEF Inv, SaveInv, Renderings, Plain
  <2>2. ASSUME file = Content, NEW k \in Kinds PROVE ToSet(file.jobs[k]) = Range(states[k])
    <3> DEFINE list == jobs[k]
               w == states[k]
    <3>1. Same(list, w)
      BY DEF Inv, MemoryInv, Good
    <3>2. file.jobs[k] = JobsOf(list)
      BY <2>2 DEF Content
    <3> HIDE DEF list, w
    <3>3. ToSet(JobsOf(list)) = {list[i].job : i \in DOMAIN list}
      BY DEF ToSet, JobsOf
    <3>4. /\ \A i \in DOMAIN list : list[i].job = w[list[i].job.name]
          /\ \A i \in DOMAIN list : list[i].job.name \in DOMAIN w
          /\ \A n \in DOMAIN w : \E i \in DOMAIN list : list[i].job.name = n
      BY <3>1, MatchingIs DEF Same
    <3>5. {list[i].job : i \in DOMAIN list} = {w[n] : n \in DOMAIN w}
      BY <3>4
    <3> QED
      BY <3>2, <3>3, <3>5 DEF Range, w
  <2> QED
    BY <2>1, <2>2 DEF WatchedIsSaved
<1> QED
  BY <1>1, InvHolds, PTL

\* Before the first reload no job refers to a host that is missing, neither in
\* memory nor in what a restart would load from the file.
THEOREM HostsAlwaysResolve == Spec => []HostsResolve
<1>1. Inv => HostsResolve
  <2> SUFFICES ASSUME Inv, reloads = 0
               PROVE  Resolved(Content) /\ (Readable(file) => Resolved(Load(file)))
    BY DEF HostsResolve
  <2>1. Resolved(Content)
    BY ContentIs DEF Inv
  <2>2. ASSUME Readable(file) PROVE Resolved(Load(file))
    <3>1. IsConfig(file) /\ Resolved(file) /\ file # Broken
      BY <2>2 DEF Inv, FileInv, Readable
    <3> QED
      BY <3>1, MigrationResolves
  <2> QED
    BY <2>1, <2>2
<1> QED
  BY <1>1, InvHolds, PTL

=============================================================================
