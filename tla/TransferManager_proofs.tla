------------------------ MODULE TransferManager_proofs ------------------------
(***************************************************************************)
(* Proofs about transfers, for any number of transfers, tasks and crashes  *)
(* and any length of the history.                                          *)
(***************************************************************************)
EXTENDS TransferManager, SequenceTheorems, TLAPS

\* The list names the transfers of K, each once.
Lists(list, K) ==
    /\ list \in Seq(Transfers)
    /\ K = {list[i] : i \in DOMAIN list}
    /\ \A i, j \in DOMAIN list : list[i] = list[j] => i = j

\* What loading transfers.json would find is a history of its own.
DiskOK ==
    /\ disk \in Seq([id : Transfers, status : Statuses])
    /\ Len(disk) <= MaxHistory
    /\ \A i, j \in DOMAIN disk : disk[i].id = disk[j].id => i = j

\* A transfer in the dict has a status.
KnownHaveStatus == \A t \in known : status[t] \in Statuses

Inv ==
    /\ TypeOK
    /\ HistoryMatchesKnown
    /\ KnownHaveStatus
    /\ DiskOK
    /\ ActiveHasRun
    /\ HistoryIsDurable

-----------------------------------------------------------------------------
(* Lists                                                                   *)

\* A new transfer at the front.
LEMMA Pushed ==
    ASSUME NEW list, NEW K, Lists(list, K), NEW t \in Transfers, t \notin K
    PROVE  /\ Lists(<<t>> \o list, K \cup {t})
           /\ Len(<<t>> \o list) = Len(list) + 1
<1> DEFINE new == <<t>> \o list
<1>1. /\ new \in Seq(Transfers)
      /\ Len(new) = Len(list) + 1
      /\ \A i \in 1..Len(list) + 1 : new[i] = IF i <= 1 THEN t ELSE list[i - 1]
  BY ConcatProperties, <<t>> \in Seq(Transfers) DEF Lists
<1>2. DOMAIN new = 1..Len(list) + 1 /\ DOMAIN list = 1..Len(list) /\ Len(list) \in Nat
  BY <1>1, LenProperties DEF Lists
<1> HIDE DEF new
<1>3. \A x \in K : \E i \in DOMAIN new : new[i] = x
  <2> TAKE x \in K
  <2>1. PICK i \in 1..Len(list) : list[i] = x
    BY <1>2 DEF Lists
  <2>2. i + 1 \in DOMAIN new /\ new[i + 1] = x
    BY <1>1, <1>2, <2>1
  <2> QED
    BY <2>2
<1>4. new[1] = t /\ 1 \in DOMAIN new
  BY <1>1, <1>2
<1>5. \A i \in DOMAIN new : new[i] \in K \cup {t}
  BY <1>1, <1>2 DEF Lists
<1>6. \A i, j \in DOMAIN new : new[i] = new[j] => i = j
  <2> SUFFICES ASSUME NEW i \in DOMAIN new, NEW j \in DOMAIN new, new[i] = new[j]
               PROVE  i = j
    OBVIOUS
  <2>1. \A k \in 1..Len(list) : list[k] \in K /\ list[k] # t
    BY <1>2 DEF Lists
  <2>2. i - 1 \in 1..Len(list) \/ i = 1
    BY <1>2
  <2>3. j - 1 \in 1..Len(list) \/ j = 1
    BY <1>2
  <2>4. CASE i = 1 \/ j = 1
    BY <2>1, <2>2, <2>3, <2>4, <1>1, <1>2
  <2>5. CASE i # 1 /\ j # 1
    <3>1. list[i - 1] = list[j - 1]
      BY <2>5, <1>1, <1>2
    <3> QED
      BY <2>2, <2>3, <2>5, <3>1, <1>2 DEF Lists
  <2> QED
    BY <2>4, <2>5
<1>7. K \cup {t} = {new[i] : i \in DOMAIN new}
  BY <1>3, <1>4, <1>5
<1> QED
  BY <1>1, <1>6, <1>7 DEF Lists, new

\* The last entry dropped.
LEMMA Dropped ==
    ASSUME NEW list, NEW K, Lists(list, K), Len(list) > 0
    PROVE  /\ Lists(SubSeq(list, 1, Len(list) - 1), K \ {list[Len(list)]})
           /\ Len(SubSeq(list, 1, Len(list) - 1)) = Len(list) - 1
<1> DEFINE n == Len(list)
           new == SubSeq(list, 1, n - 1)
<1>1. n \in Nat \ {0} /\ DOMAIN list = 1..n /\ \A i \in 1..n : list[i] \in Transfers
  BY LenProperties, ElementOfSeq DEF Lists
<1>2. /\ new \in Seq(Transfers)
      /\ Len(new) = n - 1
      /\ \A i \in 1..n - 1 : new[i] = list[i]
  BY <1>1, SubSeqProperties
<1>3. DOMAIN new = 1..n - 1
  BY <1>1, <1>2, LenProperties
<1> HIDE DEF n, new
<1>4. \A i, j \in DOMAIN new : new[i] = new[j] => i = j
  BY <1>1, <1>2, <1>3 DEF Lists
<1>5. K \ {list[n]} = {new[i] : i \in DOMAIN new}
  BY <1>1, <1>2, <1>3 DEF Lists
<1> QED
  BY <1>2, <1>4, <1>5 DEF Lists, n, new

\* The entry of t taken out.
LEMMA Removed ==
    ASSUME NEW list, NEW K, Lists(list, K), NEW t \in K
    PROVE  /\ Lists(RemoveFirst(list, t), K \ {t})
           /\ Len(RemoveFirst(list, t)) = Len(list) - 1
<1> DEFINE n == Len(list)
           I == {i \in 1..n : list[i] = t}
<1>1. n \in Nat /\ DOMAIN list = 1..n /\ \A i \in 1..n : list[i] \in Transfers
  BY LenProperties, ElementOfSeq DEF Lists
<1>2. PICK at \in 1..n : list[at] = t
  BY <1>1 DEF Lists
<1>3. n \in Nat /\ at \in Nat /\ 1 <= at /\ at <= n
  BY <1>1
<1>4. I = {at}
  BY <1>3, <1>1, <1>2 DEF Lists
<1>5. SelectInSeq(list, LAMBDA v : v = t) = at
  BY <1>1, <1>4 DEF SelectInSeq, Min
<1> DEFINE front == SubSeq(list, 1, at - 1)
           back == SubSeq(list, at + 1, n)
           new == front \o back
<1>6. RemoveFirst(list, t) = new
  BY <1>2, <1>5 DEF RemoveFirst, RemoveAt
<1>7. /\ front \in Seq(Transfers) /\ Len(front) = at - 1
      /\ \A i \in 1..at - 1 : front[i] = list[i]
  BY <1>3, <1>1, <1>2, SubSeqProperties
<1>8. /\ back \in Seq(Transfers) /\ Len(back) = n - at
      /\ \A i \in 1..n - at : back[i] = list[at + i]
  <2>1. at + 1 \in Int /\ n \in Int /\ \A i \in at + 1 .. n : list[i] \in Transfers
    BY <1>3, <1>1, <1>2
  <2>2. /\ back \in Seq(Transfers)
        /\ Len(back) = IF at + 1 <= n THEN n - (at + 1) + 1 ELSE 0
        /\ \A i \in 1 .. n - (at + 1) + 1 : back[i] = list[at + 1 + i - 1]
    BY <2>1, SubSeqProperties
  <2>3. /\ (IF at + 1 <= n THEN n - (at + 1) + 1 ELSE 0) = n - at
        /\ n - (at + 1) + 1 = n - at
        /\ \A i \in 1..n - at : at + 1 + i - 1 = at + i
    BY <1>3
  <2> HIDE DEF n, back
  <2> QED
    BY <2>2, <2>3
<1> HIDE DEF front, back
<1>9. /\ new \in Seq(Transfers) /\ Len(new) = n - 1
      /\ \A i \in 1..n - 1 : /\ i < at => new[i] = list[i]
                             /\ ~(i < at) => new[i] = list[i + 1]
  <2>1. /\ new \in Seq(Transfers)
        /\ Len(new) = Len(front) + Len(back)
        /\ \A i \in 1..Len(front) + Len(back) :
             new[i] = IF i <= Len(front) THEN front[i] ELSE back[i - Len(front)]
    BY <1>7, <1>8, ConcatProperties
  <2>2. Len(front) + Len(back) = n - 1
    BY <1>3, <1>1, <1>2, <1>7, <1>8
  <2>3. ASSUME NEW i \in 1..n - 1, i < at
        PROVE  new[i] = list[i]
    <3>1. i <= Len(front) /\ i \in 1..at - 1
      BY <1>3, <1>1, <1>2, <1>7, <2>3
    <3> QED
      BY <3>1, <2>1, <2>2, <1>7
  <2>4. ASSUME NEW i \in 1..n - 1, ~(i < at)
        PROVE  new[i] = list[i + 1]
    <3>1. /\ ~(i <= Len(front)) /\ i - Len(front) \in 1..n - at
          /\ at + (i - Len(front)) = i + 1
      BY <1>3, <1>1, <1>2, <1>7, <2>4
    <3>2. new[i] = back[i - Len(front)]
      BY <3>1, <2>1, <2>2
    <3> QED
      BY <3>1, <3>2, <1>8
  <2> QED
    BY <2>1, <2>2, <2>3, <2>4
<1>10. DOMAIN new = 1..n - 1
  BY <1>1, <1>9, LenProperties
<1> HIDE DEF n, new
<1>11. /\ \A i, j \in 1..n : list[i] = list[j] => i = j
       /\ \A i \in 1..n : list[i] \in K
       /\ \A x \in K : \E i \in 1..n : list[i] = x
  BY <1>1 DEF Lists
<1>12. \A i, j \in DOMAIN new : new[i] = new[j] => i = j
  <2> SUFFICES ASSUME NEW i \in 1..n - 1, NEW j \in 1..n - 1, new[i] = new[j]
               PROVE  i = j
    BY <1>10
  <2>1. {i, i + 1, j, j + 1} \subseteq 1..n
    BY <1>1
  <2>2. CASE i < at /\ j < at
    BY <2>1, <2>2, <1>3, <1>1, <1>2, <1>9, <1>11
  <2>3. CASE i < at /\ ~(j < at)
    <3>1. list[i] = list[j + 1]
      BY <2>3, <1>3, <1>1, <1>2, <1>9
    <3>2. i = j + 1
      BY <3>1, <2>1, <1>11
    <3> QED
      BY <3>2, <2>3, <1>3, <1>1, <1>2
  <2>4. CASE ~(i < at) /\ j < at
    <3>1. list[i + 1] = list[j]
      BY <2>4, <1>3, <1>1, <1>2, <1>9
    <3>2. i + 1 = j
      BY <3>1, <2>1, <1>11
    <3> QED
      BY <3>2, <2>4, <1>3, <1>1, <1>2
  <2>5. CASE ~(i < at) /\ ~(j < at)
    <3>1. list[i + 1] = list[j + 1]
      BY <2>5, <1>3, <1>1, <1>2, <1>9
    <3>2. i + 1 = j + 1
      BY <3>1, <2>1, <1>11
    <3> QED
      BY <3>2, <1>1
  <2> QED
    BY <2>2, <2>3, <2>4, <2>5
<1>13. \A i \in DOMAIN new : new[i] \in K \ {t}
  <2> SUFFICES ASSUME NEW i \in 1..n - 1
               PROVE  new[i] \in K \ {t}
    BY <1>10
  <2>1. {i, i + 1} \subseteq 1..n
    BY <1>1
  <2>2. CASE i < at
    <3>1. i # at
      BY <2>2, <1>3, <1>1, <1>2
    <3> QED
      BY <2>1, <2>2, <3>1, <1>3, <1>1, <1>2, <1>9, <1>11
  <2>3. CASE ~(i < at)
    <3>1. i + 1 # at
      BY <2>3, <1>3, <1>1, <1>2
    <3> QED
      BY <2>1, <2>3, <3>1, <1>3, <1>1, <1>2, <1>9, <1>11
  <2> QED
    BY <2>2, <2>3
<1>14. \A x \in K \ {t} : \E i \in DOMAIN new : new[i] = x
  <2> TAKE x \in K \ {t}
  <2>1. PICK j \in 1..n : list[j] = x
    BY <1>11
  <2>2. j # at
    BY <2>1, <1>2
  <2>3. CASE j < at
    <3>1. j \in 1..n - 1
      BY <1>3, <1>1, <1>2, <2>3
    <3> QED
      BY <3>1, <2>1, <2>3, <1>3, <1>1, <1>2, <1>9, <1>10
  <2>4. CASE ~(j < at)
    <3>1. j - 1 \in 1..n - 1 /\ ~(j - 1 < at) /\ j - 1 + 1 = j
      BY <1>3, <1>1, <1>2, <2>2, <2>4
    <3> QED
      BY <3>1, <2>1, <1>3, <1>1, <1>2, <1>9, <1>10
  <2> QED
    BY <2>3, <2>4
<1>15. K \ {t} = {new[i] : i \in DOMAIN new}
  BY <1>13, <1>14
<1>16. Lists(new, K \ {t})
  BY <1>9, <1>12, <1>15 DEF Lists
<1> QED
  BY <1>6, <1>9, <1>16 DEF n

\* The oldest entry goes, if there is one too many.
LEMMA Evicted ==
    ASSUME NEW list, NEW K, Lists(list, K), Len(list) <= MaxHistory + 1, Evict(list, K)
    PROVE  /\ Lists(history', known')
           /\ Len(history') <= MaxHistory
           /\ known' \subseteq K
<1>1. Len(list) \in Nat /\ MaxHistory \in Nat \ {0}
  BY ConstantsAssumption, LenProperties DEF Lists
<1>2. CASE Len(list) > MaxHistory
  <2>1. /\ history' = SubSeq(list, 1, Len(list) - 1)
        /\ known' = K \ {list[Len(list)]}
    BY <1>2 DEF Evict
  <2>2. Len(list) > 0 /\ Len(list) - 1 <= MaxHistory
    BY <1>1, <1>2
  <2> QED
    BY <2>1, <2>2, Dropped
<1>3. CASE ~(Len(list) > MaxHistory)
  BY <1>1, <1>3 DEF Evict
<1> QED
  BY <1>2, <1>3

\* What the type invariant and HistoryMatchesKnown say of the list.
LEMMA ListsOfInv ==
    ASSUME TypeOK
    PROVE  HistoryMatchesKnown <=> Lists(history, known)
BY DEF TypeOK, HistoryMatchesKnown, Lists

-----------------------------------------------------------------------------
(* The file                                                                *)

\* A file a restart could load, with the status of every transfer of K.
Keeps(rec, K, st) ==
    /\ rec \in Seq([id : Transfers, status : Statuses])
    /\ Len(rec) <= MaxHistory
    /\ \A i, j \in DOMAIN rec : rec[i].id = rec[j].id => i = j
    /\ \A t \in K : \E i \in DOMAIN rec : rec[i] = [id |-> t, status |-> st[t]]

LEMMA RecordKeeps ==
    ASSUME NEW list, NEW K, Lists(list, K), Len(list) <= MaxHistory,
           NEW st, \A t \in K : st[t] \in Statuses
    PROVE  Keeps(Records(list, st), K, st)
<1> DEFINE n == Len(list)
           rec == Records(list, st)
<1>1. n \in Nat /\ DOMAIN list = 1..n /\ \A i \in 1..n : list[i] \in Transfers /\ list[i] \in K
  BY LenProperties, ElementOfSeq DEF Lists
<1>2. rec = [i \in 1..n |-> [id |-> list[i], status |-> st[list[i]]]]
  BY <1>1 DEF Records
<1> HIDE DEF n, rec
<1>3. rec \in [1..n -> [id : Transfers, status : Statuses]]
  BY <1>1, <1>2
<1>4. rec \in Seq([id : Transfers, status : Statuses]) /\ Len(rec) = n /\ DOMAIN rec = 1..n
  <2> \A R : \A f \in [1..n -> R] : f \in Seq(R) /\ Len(f) = n
    BY <1>1
  <2> QED
    BY <1>3
<1>5. \A i, j \in DOMAIN rec : rec[i].id = rec[j].id => i = j
  BY <1>1, <1>2, <1>4 DEF Lists
<1>6. \A t \in K : \E i \in DOMAIN rec : rec[i] = [id |-> t, status |-> st[t]]
  BY <1>1, <1>2, <1>4 DEF Lists
<1> QED
  BY <1>1, <1>4, <1>5, <1>6 DEF n, rec, Keeps

\* A file left alone or emptied is still a history.
LEMMA OldOrNoFile ==
    ASSUME DiskOK, disk' \in {disk, <<>>}
    PROVE  DiskOK'
<1>1. CASE disk' = disk
  BY <1>1 DEF DiskOK
<1>2. CASE disk' = <<>>
  BY <1>2, ConstantsAssumption DEF DiskOK
<1> QED
  BY <1>1, <1>2

\* A save that succeeds leaves a history in order on disk; one that fails leaves
\* the old one or none, and is on record as failed.
LEMMA WritesKeep ==
    ASSUME DiskOK, NEW list, NEW K, Lists(list, K), Len(list) <= MaxHistory,
           NEW st, \A t \in K : st[t] \in Statuses,
           saved \in BOOLEAN, failures \in 0..MaxFailures, Writes(Records(list, st))
    PROVE  /\ DiskOK'
           /\ saved' \in BOOLEAN
           /\ failures' \in 0..MaxFailures
           /\ saved' => Keeps(disk', K, st)
<1>1. Keeps(Records(list, st), K, st)
  BY RecordKeeps
<1>2. CASE disk' = Records(list, st) /\ saved' = TRUE /\ UNCHANGED failures
  BY <1>1, <1>2 DEF Keeps, DiskOK
<1>3. CASE saved' = FALSE /\ failures < MaxFailures /\ failures' = failures + 1 /\ disk' \in {disk, <<>>}
  <2>1. DiskOK'
    BY <1>3, OldOrNoFile
  <2>2. failures' \in 0..MaxFailures
    BY <1>3, ConstantsAssumption
  <2> QED
    BY <1>3, <2>1, <2>2
<1> QED
  BY <1>2, <1>3 DEF Writes

\* A step that saves what it did keeps the file in order and, unless that save
\* fails, leaves the whole history in it.
LEMMA SaveIsDurable ==
    ASSUME Lists(history', known'), Len(history') <= MaxHistory, KnownHaveStatus', Save,
           DiskOK, saved \in BOOLEAN, failures \in 0..MaxFailures
    PROVE  /\ DiskOK' /\ HistoryIsDurable'
           /\ saved' \in BOOLEAN
           /\ failures' \in 0..MaxFailures
<1>1. Writes(Records(history', status'))
  BY DEF Save
<1>2. \A t \in known' : status'[t] \in Statuses
  BY DEF KnownHaveStatus
<1>3. /\ DiskOK' /\ saved' \in BOOLEAN /\ failures' \in 0..MaxFailures
      /\ saved' => Keeps(disk', known', status')
  BY <1>1, <1>2, WritesKeep
<1>4. HistoryIsDurable'
  BY <1>3 DEF Keeps, HistoryIsDurable
<1> QED
  BY <1>3, <1>4

-----------------------------------------------------------------------------
(* Steps                                                                   *)

RunRecord ==
    [pc : InFlight \cup {"free", "over"}, tid : Transfers \cup {None},
     os : {"none", "alive", "termed"} \cup Exited]

\* The parts of the invariant that concern list, dict and file, together.
Books ==
    /\ Lists(history, known)
    /\ Len(history) <= MaxHistory
    /\ KnownHaveStatus
    /\ DiskOK
    /\ HistoryIsDurable

\* The parts that concern the rest of the state.
Rest ==
    /\ up \in BOOLEAN
    /\ known \subseteq Transfers
    /\ status \in [Transfers -> Statuses \cup {"none"}]
    /\ proc \in [Transfers -> Runs \cup {None}]
    /\ run \in [Runs -> RunRecord]
    /\ saved \in BOOLEAN
    /\ failures \in 0..MaxFailures
    /\ crashes \in 0..MaxCrashes
    /\ ActiveHasRun

LEMMA InvSplits == Inv <=> Books /\ Rest
BY DEF Inv, TypeOK, HistoryMatchesKnown, Lists, DiskOK, Books, Rest, RunRecord

\* A new task for t is a task in flight, and takes none from another transfer.
LEMMA SpawnServes ==
    ASSUME Rest, NEW t \in Transfers, NEW r \in Runs, Spawn(r, t), SetStatus(t, "pending")
    PROVE  /\ run' \in [Runs -> RunRecord]
           /\ status' \in [Transfers -> Statuses \cup {"none"}]
           /\ ActiveHasRun'
<1>1. run' \in [Runs -> RunRecord]
  BY DEF Rest, Spawn, RunRecord, InFlight
<1>2. status' \in [Transfers -> Statuses \cup {"none"}]
  BY DEF Rest, SetStatus, Statuses, Active
<1>3. ASSUME NEW u \in Transfers, status'[u] \in Active
      PROVE  \E s \in Runs : run'[s].tid = u /\ run'[s].pc \in InFlight
  <2>1. CASE u = t
    BY <2>1 DEF Rest, Spawn, InFlight
  <2>2. CASE u # t
    <3>1. PICK s \in Runs : run[s].tid = u /\ run[s].pc \in InFlight
      BY <1>3, <2>2 DEF Rest, SetStatus, ActiveHasRun
    <3>2. s # r
      BY <3>1 DEF Spawn, InFlight
    <3> QED
      BY <3>1, <3>2 DEF Rest, Spawn
  <2> QED
    BY <2>1, <2>2
<1> QED
  BY <1>1, <1>2, <1>3 DEF ActiveHasRun

LEMMA StartKeeps ==
    ASSUME Books, Rest, NEW t \in Transfers, NEW r \in Runs, Start(t, r)
    PROVE  Books' /\ Rest'
<1>1. Lists(<<t>> \o history, known \cup {t}) /\ Len(<<t>> \o history) = Len(history) + 1
  BY Pushed DEF Books, Start
<1>2. Len(history) + 1 <= MaxHistory + 1
  BY LenProperties, ConstantsAssumption DEF Books, Lists
<1>3. /\ Lists(history', known')
      /\ Len(history') <= MaxHistory
      /\ known' \subseteq known \cup {t}
  BY <1>1, <1>2, Evicted DEF Start
<1>4. KnownHaveStatus'
  BY <1>3 DEF Books, Rest, KnownHaveStatus, Start, SetStatus, Statuses, Active
<1>5. DiskOK' /\ HistoryIsDurable' /\ saved' \in BOOLEAN /\ failures' \in 0..MaxFailures
  BY <1>3, <1>4, SaveIsDurable DEF Start, Books, Rest
<1>6. Rest'
  BY <1>3, <1>5, SpawnServes DEF Rest, Start
<1> QED
  BY <1>3, <1>4, <1>5, <1>6 DEF Books

LEMMA ResumeKeeps ==
    ASSUME Books, Rest, NEW t \in Transfers, NEW r \in Runs, Resume(t, r)
    PROVE  Books' /\ Rest'
<1> DEFINE others == RemoveFirst(history, t)
<1>1. Lists(others, known \ {t}) /\ Len(others) = Len(history) - 1
  BY Removed DEF Books, Resume
<1>2. history' = <<t>> \o others /\ known' = known /\ t \in known
  BY DEF Resume
<1> HIDE DEF others
<1>3. Lists(<<t>> \o others, (known \ {t}) \cup {t}) /\ Len(<<t>> \o others) = Len(others) + 1
  BY <1>1, Pushed
<1>4. Lists(history', known') /\ Len(history') = Len(history)
  <2>1. (known \ {t}) \cup {t} = known'
    BY <1>2
  <2>2. Len(history) \in Nat
    BY LenProperties DEF Books, Lists
  <2>3. Lists(history', known')
    BY <1>2, <1>3, <2>1
  <2>4. Len(history') = Len(others) + 1
    BY <1>2, <1>3
  <2> QED
    BY <1>1, <2>2, <2>3, <2>4
<1>5. KnownHaveStatus'
  BY <1>2 DEF Books, Rest, KnownHaveStatus, Resume, SetStatus, Statuses, Active
<1>6. DiskOK' /\ HistoryIsDurable' /\ saved' \in BOOLEAN /\ failures' \in 0..MaxFailures
  BY <1>4, <1>5, SaveIsDurable DEF Resume, Books, Rest
<1>7. Rest'
  BY <1>2, <1>6, SpawnServes DEF Rest, Resume
<1> QED
  BY <1>4, <1>5, <1>6, <1>7 DEF Books

\* A change of one status that is saved at once.
LEMMA ChangeKeepsBooks ==
    ASSUME Books, Rest, UNCHANGED <<known, history>>, Save,
           NEW t, NEW s \in Statuses, UNCHANGED status \/ SetStatus(t, s)
    PROVE  /\ Books' /\ status' \in [Transfers -> Statuses \cup {"none"}]
           /\ saved' \in BOOLEAN /\ failures' \in 0..MaxFailures
<1>1. Lists(history', known') /\ Len(history') <= MaxHistory
  BY DEF Books
<1>2. KnownHaveStatus' /\ status' \in [Transfers -> Statuses \cup {"none"}]
  BY DEF Books, Rest, KnownHaveStatus, SetStatus
<1>3. DiskOK' /\ HistoryIsDurable' /\ saved' \in BOOLEAN /\ failures' \in 0..MaxFailures
  BY <1>1, <1>2, SaveIsDurable DEF Books, Rest
<1> QED
  BY <1>1, <1>2, <1>3 DEF Books

LEMMA CancelKeeps ==
    ASSUME Books, Rest, NEW t \in Transfers, Cancel(t)
    PROVE  Books' /\ Rest'
<1>1. /\ Books' /\ status' \in [Transfers -> Statuses \cup {"none"}]
      /\ saved' \in BOOLEAN /\ failures' \in 0..MaxFailures
  BY ChangeKeepsBooks, "cancelled" \in Statuses DEF Cancel, Statuses, Final
<1>2. /\ run' \in [Runs -> RunRecord]
      /\ \A r \in Runs : run'[r].tid = run[r].tid /\ run'[r].pc = run[r].pc
  BY DEF Cancel, Rest, RunRecord
<1>3. ActiveHasRun'
  BY <1>2 DEF Cancel, Rest, ActiveHasRun, SetStatus, Active
<1> QED
  BY <1>1, <1>2, <1>3 DEF Cancel, Rest

\* The steps of a task that save nothing.
LEMMA QuietRunKeeps ==
    ASSUME Books, Rest, NEW r \in Runs, RunStarts(r) \/ ExecReturns(r) \/ DrainReturns(r)
    PROVE  Books' /\ Rest'
<1>1. /\ run' \in [Runs -> RunRecord]
      /\ run[r].pc \in InFlight
      /\ \A s \in Runs : /\ run'[s].tid = run[s].tid
                         /\ run[s].pc \in InFlight => run'[s].pc \in InFlight
  BY DEF RunStarts, ExecReturns, DrainReturns, Moves, Rest, RunRecord, InFlight
<1>2. /\ status' \in [Transfers -> Statuses \cup {"none"}]
      /\ \A t \in Transfers : status'[t] = status[t] \/ (t = run[r].tid /\ status'[t] = "running")
  BY DEF RunStarts, ExecReturns, DrainReturns, memory, Rest, SetStatus, Statuses, Active
<1>3. UNCHANGED <<up, known, history, disk, saved, failures, crashes>>
  BY DEF RunStarts, ExecReturns, DrainReturns, Moves, memory, filevars
<1>4. proc' \in [Transfers -> Runs \cup {None}]
  BY DEF RunStarts, ExecReturns, DrainReturns, memory, Rest
<1>5. ActiveHasRun'
  <2> SUFFICES ASSUME NEW t \in Transfers, status'[t] \in Active
               PROVE  \E s \in Runs : run'[s].tid = t /\ run'[s].pc \in InFlight
    BY DEF ActiveHasRun
  <2>1. CASE t = run[r].tid
    BY <1>1, <2>1
  <2>2. CASE t # run[r].tid
    <3>1. status[t] \in Active
      BY <1>2, <2>2
    <3>2. PICK s \in Runs : run[s].tid = t /\ run[s].pc \in InFlight
      BY <3>1 DEF Rest, ActiveHasRun
    <3> QED
      BY <1>1, <3>2
  <2> QED
    BY <2>1, <2>2
<1>6. KnownHaveStatus' /\ HistoryIsDurable'
  BY <1>2, <1>3 DEF Books, Rest, KnownHaveStatus, HistoryIsDurable, Statuses, Active, Final
<1>7. Lists(history', known') /\ Len(history') <= MaxHistory /\ DiskOK'
  BY <1>3 DEF Books, DiskOK
<1> QED
  BY <1>1, <1>2, <1>3, <1>4, <1>5, <1>6, <1>7 DEF Books, Rest

\* The end of a task, and one that fails to start, settle the status and save it.
LEMMA LastStepKeeps ==
    ASSUME Books, Rest, NEW r \in Runs, RunCannotStart(r) \/ RunEnds(r)
    PROVE  Books' /\ Rest'
<1> DEFINE t == run[r].tid
<1>1. /\ UNCHANGED <<up, known, history, proc, crashes>>
      /\ Save
  BY DEF RunCannotStart, RunEnds, Moves
<1>2. PICK s \in {"done", "failed"} : SetStatus(t, s) \/ (UNCHANGED status /\ status[t] = "cancelled")
  BY DEF RunCannotStart, RunEnds, Result
<1>3. /\ Books' /\ status' \in [Transfers -> Statuses \cup {"none"}]
      /\ saved' \in BOOLEAN /\ failures' \in 0..MaxFailures
  BY <1>1, <1>2, ChangeKeepsBooks, s \in Statuses DEF Statuses, Final
<1>4. /\ run' \in [Runs -> RunRecord]
      /\ \A u \in Runs : u # r => run'[u] = run[u]
  BY DEF RunCannotStart, RunEnds, Moves, Rest, RunRecord
<1>5. ActiveHasRun'
  <2> SUFFICES ASSUME NEW u \in Transfers, status'[u] \in Active
               PROVE  \E q \in Runs : run'[q].tid = u /\ run'[q].pc \in InFlight
    BY DEF ActiveHasRun
  <2>1. u # t /\ status[u] \in Active
    BY <1>2 DEF Rest, SetStatus, Active
  <2>2. PICK q \in Runs : run[q].tid = u /\ run[q].pc \in InFlight
    BY <2>1 DEF Rest, ActiveHasRun
  <2> QED
    BY <1>4, <2>1, <2>2
<1> QED
  BY <1>1, <1>3, <1>4, <1>5 DEF Rest

LEMMA ExitKeeps ==
    ASSUME Books, Rest, NEW r \in Runs, ProcExits(r)
    PROVE  Books' /\ Rest'
<1>1. /\ run' \in [Runs -> RunRecord]
      /\ \A s \in Runs : run'[s].tid = run[s].tid /\ run'[s].pc = run[s].pc
  BY DEF ProcExits, Rest, RunRecord, Exited
<1>2. UNCHANGED <<up, known, history, status, proc, disk, saved, failures, crashes>>
  BY DEF ProcExits, memory, filevars
<1>3. Books'
  BY <1>2 DEF Books, DiskOK, KnownHaveStatus, HistoryIsDurable
<1> QED
  BY <1>1, <1>2, <1>3 DEF Rest, ActiveHasRun

\* Whatever becomes of the file, the memory is gone.
LEMMA GoesKeeps ==
    ASSUME Books, Rest, Goes, DiskOK', saved' \in BOOLEAN, failures' \in 0..MaxFailures
    PROVE  Books' /\ Rest'
<1>1. Lists(history', known') /\ Len(history') <= MaxHistory
  BY ConstantsAssumption DEF Goes, Lists
<1>2. KnownHaveStatus' /\ HistoryIsDurable'
  BY DEF Goes, KnownHaveStatus, HistoryIsDurable
<1>3. run' \in [Runs -> RunRecord]
  BY DEF Goes, Rest, RunRecord
<1>4. ActiveHasRun'
  BY DEF Goes, ActiveHasRun, Active
<1>5. crashes' \in 0..MaxCrashes
  BY ConstantsAssumption DEF Goes, Rest
<1> QED
  BY <1>1, <1>2, <1>3, <1>4, <1>5 DEF Goes, Books, Rest

LEMMA StopKeeps ==
    ASSUME Books, Rest, Shutdown \/ Crash
    PROVE  Books' /\ Rest'
<1>1. Goes
  BY DEF Shutdown, Crash
<1>2. CASE Writes(Records(history, status))
  BY <1>1, <1>2, WritesKeep, GoesKeeps DEF Books, Rest, KnownHaveStatus
<1>3. CASE disk' \in {disk, <<>>} /\ UNCHANGED <<saved, failures>>
  <2>1. DiskOK'
    BY <1>3, OldOrNoFile DEF Books
  <2> QED
    BY <1>1, <1>3, <2>1, GoesKeeps DEF Rest
<1> QED
  BY <1>2, <1>3 DEF Shutdown, Crash, filevars

LEMMA RestartKeeps ==
    ASSUME Books, Rest, Restart
    PROVE  Books' /\ Rest'
<1> DEFINE n == Len(disk)
           Entry(t) == CHOOSE i \in DOMAIN disk : disk[i].id = t
<1>1. /\ n \in Nat /\ n <= MaxHistory
      /\ DOMAIN disk = 1..n
      /\ \A i \in 1..n : disk[i] \in [id : Transfers, status : Statuses]
  <2>1. disk \in Seq([id : Transfers, status : Statuses]) /\ n <= MaxHistory
    BY DEF Books, DiskOK
  <2> QED
    BY <2>1, LenProperties, ElementOfSeq
<1>2. history' \in Seq(Transfers) /\ Len(history') = n /\ DOMAIN history' = 1..n
  <2>1. history' \in [1..n -> Transfers]
    BY <1>1 DEF Restart
  <2>2. \A f \in [1..n -> Transfers] : f \in Seq(Transfers) /\ Len(f) = n /\ DOMAIN f = 1..n
    BY <1>1
  <2> QED
    BY <2>1, <2>2
<1> HIDE DEF n
<1>3. Lists(history', known') /\ known' \subseteq Transfers
  BY <1>1, <1>2 DEF Restart, Lists, Books, DiskOK
<1>4. ASSUME NEW t \in Transfers
      PROVE  /\ status'[t] \in Statuses \cup {"none"}
             /\ status'[t] \notin Active
             /\ t \in known' => /\ status'[t] \in Statuses
                                /\ Entry(t) \in DOMAIN disk
                                /\ disk[Entry(t)].id = t
                                /\ status'[t] = Loaded(disk[Entry(t)].status)
  <2>1. CASE \E i \in DOMAIN disk : disk[i].id = t
    <3>1. Entry(t) \in DOMAIN disk /\ disk[Entry(t)].id = t
      BY <2>1
    <3>2. status'[t] = Loaded(disk[Entry(t)].status)
      BY <2>1 DEF Restart
    <3> HIDE DEF Entry
    <3>3. disk[Entry(t)].status \in Statuses
      BY <1>1, <3>1
    <3> QED
      BY <3>1, <3>2, <3>3 DEF Loaded, Statuses, Active, Final
  <2>2. CASE ~\E i \in DOMAIN disk : disk[i].id = t
    BY <2>2 DEF Restart, Active
  <2> QED
    BY <2>1, <2>2
<1> HIDE DEF Entry
<1>5. status' \in [Transfers -> Statuses \cup {"none"}]
  BY <1>4 DEF Restart
<1>6. KnownHaveStatus' /\ ActiveHasRun'
  BY <1>3, <1>4 DEF KnownHaveStatus, ActiveHasRun
<1>7. HistoryIsDurable'
  <2> SUFFICES ASSUME NEW t \in known'
               PROVE  /\ Entry(t) \in DOMAIN disk /\ disk[Entry(t)].id = t
                      /\ status'[t] \in Final => disk[Entry(t)].status = status'[t]
    BY DEF HistoryIsDurable, Restart
  <2> QED
    BY <1>3, <1>4 DEF Loaded, Final, Active
<1>8. Len(history') <= MaxHistory /\ DiskOK'
  BY <1>1, <1>2 DEF Restart, Books, DiskOK
<1> QED
  BY <1>3, <1>5, <1>6, <1>7, <1>8 DEF Restart, Books, Rest

-----------------------------------------------------------------------------
(* Theorems                                                                *)

LEMMA InitInv == Init => Inv
<1> SUFFICES ASSUME Init PROVE Books /\ Rest
  BY InvSplits
<1>1. Lists(history, known) /\ Len(history) <= MaxHistory
  BY ConstantsAssumption DEF Init, Lists
<1>2. KnownHaveStatus /\ HistoryIsDurable /\ ActiveHasRun
  BY DEF Init, KnownHaveStatus, HistoryIsDurable, ActiveHasRun, Active
<1>3. DiskOK
  BY ConstantsAssumption DEF Init, DiskOK
<1>4. run \in [Runs -> RunRecord]
  BY DEF Init, RunRecord
<1>5. crashes \in 0..MaxCrashes /\ failures \in 0..MaxFailures
  BY ConstantsAssumption DEF Init
<1> QED
  BY <1>1, <1>2, <1>3, <1>4, <1>5 DEF Init, Books, Rest

LEMMA StepKeepsInv == Inv /\ [Next]_vars => Inv'
<1> SUFFICES ASSUME Books, Rest, [Next]_vars
             PROVE  Books' /\ Rest'
  <2>1. Inv' <=> Books' /\ Rest'
    BY InvSplits, PTL
  <2> QED
    BY <2>1, InvSplits
<1>1. CASE \E t \in Transfers, r \in Runs : Start(t, r) \/ Resume(t, r)
  BY <1>1, StartKeeps, ResumeKeeps
<1>2. CASE \E t \in Transfers : Cancel(t)
  BY <1>2, CancelKeeps
<1>3. CASE \E r \in Runs : RunStep(r) \/ ProcExits(r)
  BY <1>3, QuietRunKeeps, LastStepKeeps, ExitKeeps DEF RunStep
<1>4. CASE Shutdown \/ Crash
  BY <1>4, StopKeeps
<1>5. CASE Restart
  BY <1>5, RestartKeeps
<1>6. CASE UNCHANGED vars
  BY <1>6 DEF vars, memory, filevars, Books, Rest, DiskOK, KnownHaveStatus, HistoryIsDurable, ActiveHasRun
<1> QED
  BY <1>1, <1>2, <1>3, <1>4, <1>5, <1>6 DEF Next

LEMMA InvHolds == Spec => []Inv
BY InitInv, StepKeepsInv, PTL DEF Spec

\* Every variable keeps its type, and the history its length.
THEOREM TypeCorrect == Spec => []TypeOK
<1>1. Inv => TypeOK
  BY DEF Inv
<1> QED
  BY <1>1, InvHolds, PTL

\* List and dict name the same transfers, each once, through every order of
\* starts, evictions, resumes, crashes (inside a save too) and restarts.
THEOREM ListAndDictAgree == Spec => []HistoryMatchesKnown
<1>1. Inv => HistoryMatchesKnown
  BY DEF Inv
<1> QED
  BY <1>1, InvHolds, PTL

\* A transfer shown PENDING or RUNNING has a task, however many cancelled and
\* resumed ones overlap and wherever the daemon was killed.
THEOREM ActiveMeansRun == Spec => []ActiveHasRun
<1>1. Inv => ActiveHasRun
  BY DEF Inv
<1> QED
  BY <1>1, InvHolds, PTL

\* Unless the last save failed, every transfer in the dict, and how each that has
\* ended did end, is what a restart would load: whatever saves failed before it,
\* truncating the file or not, and wherever the daemon was killed and started again.
THEOREM VerdictsAreDurable == Spec => []HistoryIsDurable
<1>1. Inv => HistoryIsDurable
  BY DEF Inv
<1> QED
  BY <1>1, InvHolds, PTL

=============================================================================
