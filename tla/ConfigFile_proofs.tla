-------------------------- MODULE ConfigFile_proofs --------------------------
(***************************************************************************)
(* Proofs about what a filter keeps of a list and what load makes of a     *)
(* file, for lists of any length.                                          *)
(***************************************************************************)
EXTENDS ConfigFile, Lists_proofs

\* A filter read as a loop: what it has kept after each element.
LEMMA WithoutRuns ==
    ASSUME NEW T, NEW list \in Seq(T), NEW set
    PROVE  \E r : /\ r[0] = <<>>
                  /\ \A k \in 1..Len(list) :
                       r[k] = IF list[k] \in set THEN r[k - 1] ELSE Append(r[k - 1], list[k])
                  /\ r[Len(list)] = Without(list, set)
<1> DEFINE m == Len(list)
           X == Seq(T)
           base == <<>>
           Q(f) == f = [u \in SUBSET (1..m) |->
                          IF u = {} THEN <<>>
                          ELSE IF list[Max(u)] \in set THEN f[u \ {Max(u)}]
                               ELSE Append(f[u \ {Max(u)}], list[Max(u)])]
           step == [p \in X \X (1..m) |-> IF list[p[2]] \in set THEN p[1] ELSE Append(p[1], list[p[2]])]
           fold == CHOOSE f : Q(f)
           r == [k \in 0..m |-> fold[1..k]]
<1>1. m \in Nat /\ DOMAIN list = 1..m /\ base \in X /\ step \in [X \X (1..m) -> X]
  OBVIOUS
<1>2. Without(list, set) = fold[1..m]
  BY <1>1 DEF Without, FoldLeft, MapThenFoldSet
<1>3. \E f : Q(f)
  <2>1. PICK f : IsFold(f, X, base, m, step)
    <3> HIDE DEF step, m, X, base
    <3> QED
      BY <1>1, FoldExists
  <2>2. ASSUME NEW u \in SUBSET (1..m), u # {}
        PROVE  f[u] = IF list[Max(u)] \in set THEN f[u \ {Max(u)}]
                      ELSE Append(f[u \ {Max(u)}], list[Max(u)])
    <3>1. Max(u) \in 1..m /\ u \ {Max(u)} \in SUBSET (1..m)
      BY <1>1, <2>2, MaxIn
    <3> HIDE DEF m
    <3> QED
      BY <2>1, <2>2, <3>1 DEF IsFold
  <2>3. f = [u \in SUBSET (1..m) |-> f[u]] /\ f[{}] = <<>>
    BY <2>1 DEF IsFold
  <2>4. Q(f)
    BY <2>2, <2>3
  <2> QED
    BY <2>4
<1>4. Q(fold)
  <2> HIDE DEF Q
  <2> QED
    BY <1>3
<1> HIDE DEF fold
<1>5. r[0] = <<>>
  <2>1. 1..0 = {} /\ 1..0 \in SUBSET (1..m)
    OBVIOUS
  <2> QED
    BY <2>1, <1>4
<1>6. ASSUME NEW k \in 1..m
      PROVE  r[k] = IF list[k] \in set THEN r[k - 1] ELSE Append(r[k - 1], list[k])
  <2>1. /\ Max(1..k) = k
        /\ (1..k) \ {k} = 1..k - 1
        /\ 1..k # {} /\ 1..k \in SUBSET (1..m)
        /\ k \in 0..m /\ k - 1 \in 0..m
    <3> HIDE DEF m
    <3> QED
      BY PrefixRange, <1>1
  <2> QED
    BY <2>1, <1>4
<1>7. r[m] = fold[1..m]
  OBVIOUS
<1> HIDE DEF r, m
<1> QED
  BY <1>5, <1>6, <1>7, <1>2 DEF m

\* The filter keeps what is not in the set, each once, in the order of the list.
Filters(q, list, k, set, h) ==
    /\ h \in [1..Len(q) -> 1..k]
    /\ \A i \in 1..Len(q) : q[i] = list[h[i]] /\ list[h[i]] \notin set
    /\ \A i, j \in 1..Len(q) : i < j => h[i] < h[j]
    /\ \A x \in 1..k : list[x] \notin set => \E i \in 1..Len(q) : h[i] = x

LEMMA WithoutFilters ==
    ASSUME NEW T, NEW list \in Seq(T), NEW set
    PROVE  /\ Without(list, set) \in Seq(T)
           /\ \E h : Filters(Without(list, set), list, Len(list), set, h)
<1>1. PICK r : /\ r[0] = <<>>
               /\ \A k \in 1..Len(list) :
                    r[k] = IF list[k] \in set THEN r[k - 1] ELSE Append(r[k - 1], list[k])
               /\ r[Len(list)] = Without(list, set)
  BY WithoutRuns
<1> DEFINE m == Len(list)
           S == {k \in Nat : k <= m => r[k] \in Seq(T) /\ \E h : Filters(r[k], list, k, set, h)}
<1>2. m \in Nat /\ \A k \in 1..m : list[k] \in T
  OBVIOUS
<1> HIDE DEF m
<1>3. 0 \in S
  <2> DEFINE h == [i \in 1..0 |-> i]
  <2>1. r[0] \in Seq(T) /\ Len(r[0]) = 0
    BY <1>1
  <2>2. Filters(r[0], list, 0, set, h)
    BY <2>1 DEF Filters
  <2> QED
    BY <2>1, <2>2
<1>4. ASSUME NEW k \in 0..m - 1, k \in S PROVE k + 1 \in S
  <2>1. k \in Nat /\ k + 1 \in 1..m /\ k + 1 - 1 = k /\ k <= m /\ k + 1 \notin 1..k
    BY <1>2
  <2>2. r[k] \in Seq(T)
    BY <1>4, <2>1
  <2>3. PICK h : Filters(r[k], list, k, set, h)
    BY <1>4, <2>1
  <2>4. r[k + 1] = IF list[k + 1] \in set THEN r[k] ELSE Append(r[k], list[k + 1])
    BY <1>1, <2>1 DEF m
  <2>5. CASE list[k + 1] \in set
    <3>1. Filters(r[k], list, k + 1, set, h)
      BY <2>1, <2>2, <2>3, <2>5 DEF Filters
    <3> QED
      BY <2>1, <2>2, <2>4, <2>5, <3>1
  <2>6. CASE list[k + 1] \notin set
    <3> DEFINE n == Len(r[k])
               q == Append(r[k], list[k + 1])
               g == [i \in 1..n + 1 |-> IF i = n + 1 THEN k + 1 ELSE h[i]]
    <3>1. /\ n \in Nat /\ q \in Seq(T) /\ Len(q) = n + 1 /\ q[n + 1] = list[k + 1]
          /\ \A i \in 1..n : q[i] = r[k][i]
      BY <1>2, <2>1, <2>2
    <3> HIDE DEF q
    <3>2. /\ h \in [1..n -> 1..k]
          /\ \A i \in 1..n : r[k][i] = list[h[i]] /\ list[h[i]] \notin set
          /\ \A i, j \in 1..n : i < j => h[i] < h[j]
          /\ \A x \in 1..k : list[x] \notin set => \E i \in 1..n : h[i] = x
      BY <2>3 DEF Filters
    <3> HIDE DEF n
    <3>3. g \in [1..n + 1 -> 1..k + 1]
      BY <3>1, <3>2, <2>1
    <3>4. \A i \in 1..n + 1 : i = n + 1 \/ (i \in 1..n /\ g[i] = h[i] /\ h[i] \in 1..k)
      BY <3>1, <3>2
    <3>5. g[n + 1] = k + 1 /\ n + 1 \in 1..n + 1 /\ 1..n \subseteq 1..n + 1
      BY <3>1
    <3> HIDE DEF g
    <3>6. \A i \in 1..n + 1 : q[i] = list[g[i]] /\ list[g[i]] \notin set
      BY <2>6, <3>1, <3>2, <3>4, <3>5
    <3>7. \A i, j \in 1..n + 1 : i < j => g[i] < g[j]
      <4> SUFFICES ASSUME NEW i \in 1..n + 1, NEW j \in 1..n + 1, i < j PROVE g[i] < g[j]
        OBVIOUS
      <4>1. i \in 1..n /\ g[i] = h[i] /\ h[i] \in 1..k
        BY <3>1, <3>4
      <4>2. CASE j = n + 1
        BY <4>1, <4>2, <3>5, <2>1
      <4>3. CASE j # n + 1
        BY <4>1, <4>3, <3>2, <3>4
      <4> QED
        BY <4>2, <4>3
    <3>8. \A x \in 1..k + 1 : list[x] \notin set => \E i \in 1..n + 1 : g[i] = x
      <4> SUFFICES ASSUME NEW x \in 1..k + 1, list[x] \notin set PROVE \E i \in 1..n + 1 : g[i] = x
        OBVIOUS
      <4>1. CASE x = k + 1
        BY <4>1, <3>5
      <4>2. CASE x # k + 1
        <5>1. PICK i \in 1..n : h[i] = x
          BY <3>2, <4>2, <2>1
        <5>2. i \in 1..n + 1 /\ i # n + 1
          BY <5>1, <3>1
        <5> QED
          BY <5>1, <5>2, <3>4
      <4> QED
        BY <4>1, <4>2
    <3>9. Filters(q, list, k + 1, set, g)
      BY <3>1, <3>3, <3>6, <3>7, <3>8 DEF Filters
    <3>10. r[k + 1] = q
      BY <2>4, <2>6 DEF q
    <3> QED
      BY <2>1, <3>1, <3>9, <3>10
  <2> QED
    BY <2>5, <2>6
<1>5. m \in S
  <2> HIDE DEF S
  <2> QED
    BY <1>2, <1>3, <1>4, BoundedInduction
<1> QED
  BY <1>1, <1>2, <1>5 DEF m

\* h says where each element that is left came from.
Keeps(q, list, set, h) ==
    /\ h \in [DOMAIN q -> DOMAIN list]
    /\ \A i \in DOMAIN q : q[i] = list[h[i]] /\ list[h[i]] \notin set
    /\ \A i, j \in DOMAIN q : h[i] = h[j] => i = j
    /\ \A x \in DOMAIN list : list[x] \notin set => \E i \in DOMAIN q : h[i] = x

LEMMA WithoutKeeps ==
    ASSUME NEW T, NEW list \in Seq(T), NEW set
    PROVE  /\ Without(list, set) \in Seq(T)
           /\ \E h : Keeps(Without(list, set), list, set, h)
<1> DEFINE q == Without(list, set)
<1>1. q \in Seq(T) /\ \E h : Filters(q, list, Len(list), set, h)
  BY WithoutFilters
<1> HIDE DEF q
<1>2. PICK h : Filters(q, list, Len(list), set, h)
  BY <1>1
<1>3. DOMAIN list = 1..Len(list) /\ DOMAIN q = 1..Len(q) /\ Len(list) \in Nat /\ Len(q) \in Nat
  BY <1>1
<1>4. /\ h \in [DOMAIN q -> DOMAIN list]
      /\ \A i \in DOMAIN q : q[i] = list[h[i]] /\ list[h[i]] \notin set
      /\ \A x \in DOMAIN list : list[x] \notin set => \E i \in DOMAIN q : h[i] = x
  BY <1>2, <1>3 DEF Filters
<1>5. ASSUME NEW i \in DOMAIN q, NEW j \in DOMAIN q, h[i] = h[j] PROVE i = j
  <2>1. i \in 1..Len(q) /\ j \in 1..Len(q) /\ h[i] \in 1..Len(list) /\ h[j] \in 1..Len(list)
    BY <1>3, <1>4
  <2>2. i < j => h[i] < h[j]
    BY <1>2, <2>1 DEF Filters
  <2>3. j < i => h[j] < h[i]
    BY <1>2, <2>1 DEF Filters
  <2> QED
    BY <1>5, <2>1, <2>2, <2>3
<1>6. Keeps(q, list, set, h)
  BY <1>4, <1>5 DEF Keeps
<1> QED
  BY <1>1, <1>6 DEF q

-----------------------------------------------------------------------------
(* The migration                                                           *)

\* Entering a host in the dict makes its name known and forgets no other.
LEMMA EnterKnows ==
    ASSUME NEW dict \in Seq(Host), NEW h \in Host
    PROVE  /\ Enter(dict, h) \in Seq(Host)
           /\ Known(Enter(dict, h), h.name)
           /\ \A n : Known(dict, n) => Known(Enter(dict, h), n)
<1>1. CASE Known(dict, h.name)
  <2> DEFINE i == FirstNamed(dict, h.name)
             new == [dict EXCEPT ![i] = h]
  <2>1. i \in DOMAIN dict /\ dict[i].name = h.name
    <3>1. HostsNamed(dict, h.name) \subseteq Nat
      BY DEF HostsNamed
    <3> QED
      BY <1>1, <3>1, MinIn DEF Known, HostsNamed, FirstNamed
  <2> HIDE DEF i
  <2>2. /\ new \in Seq(Host) /\ DOMAIN new = DOMAIN dict
        /\ \A x \in DOMAIN dict : new[x] = IF x = i THEN h ELSE dict[x]
    <3>1. dict \in [1..Len(dict) -> Host] /\ Len(dict) \in Nat
      OBVIOUS
    <3> QED
      BY <3>1, <2>1
  <2>3. Enter(dict, h) = new
    BY <1>1 DEF Enter, ReplaceAt, i
  <2> HIDE DEF new
  <2>4. \A x \in DOMAIN dict : new[x].name = dict[x].name
    BY <2>1, <2>2
  <2> QED
    BY <2>1, <2>2, <2>3, <2>4 DEF Known, HostsNamed
<1>2. CASE ~Known(dict, h.name)
  <2> DEFINE new == Append(dict, h)
  <2>1. /\ new \in Seq(Host) /\ DOMAIN new = 1..Len(dict) + 1 /\ new[Len(dict) + 1] = h
        /\ Len(dict) \in Nat /\ DOMAIN dict = 1..Len(dict)
        /\ \A x \in DOMAIN dict : new[x] = dict[x]
    OBVIOUS
  <2>2. Enter(dict, h) = new
    BY <1>2 DEF Enter
  <2> HIDE DEF new
  <2>3. DOMAIN dict \subseteq DOMAIN new /\ Len(dict) + 1 \in DOMAIN new
    BY <2>1
  <2> QED
    BY <2>1, <2>2, <2>3 DEF Known, HostsNamed
<1> QED
  BY <1>1, <1>2

AnyJob == Job("mount") \cup Job("sync")

\* What the fields of a job are, whichever kind it has.
LEMMA JobFields ==
    ASSUME NEW j \in AnyJob
    PROVE  j.server \in Servers \cup {Local} /\ j.host \in HostNames \cup {NoHost}
BY DEF AnyJob, Job

\* Created hosts are named by the hostname of their server.
NamedByHostname(new) == \A i \in DOMAIN new : new[i].name = HostnameOf[new[i].server]

Serves(new, s) == \E i \in DOMAIN new : new[i].server = s

\* Looking at a job creates the host of its server unless there is one.
LEMMA CreateServes ==
    ASSUME NEW new \in Seq(Host), NEW j \in AnyJob
    PROVE  /\ Create(new, j) \in Seq(Host)
           /\ NamedByHostname(new) => NamedByHostname(Create(new, j))
           /\ Unmigrated(j) => Serves(Create(new, j), j.server)
           /\ \A s : Serves(new, s) => Serves(Create(new, j), s)
<1>1. CASE Unmigrated(j) /\ ~Serves(new, j.server)
  <2> DEFINE h == [name |-> HostnameOf[j.server], server |-> j.server]
             longer == Append(new, h)
  <2>1. h \in Host /\ h.name = HostnameOf[h.server] /\ h.server = j.server
    BY <1>1, JobFields, FileAssumption DEF Unmigrated, Host
  <2> HIDE DEF h
  <2>2. /\ longer \in Seq(Host) /\ DOMAIN longer = 1..Len(new) + 1 /\ longer[Len(new) + 1] = h
        /\ Len(new) \in Nat /\ DOMAIN new = 1..Len(new)
        /\ \A x \in DOMAIN new : longer[x] = new[x]
    BY <2>1
  <2>3. Create(new, j) = longer
    BY <1>1 DEF Create, Serves, h
  <2> HIDE DEF longer
  <2>4. DOMAIN new \subseteq DOMAIN longer /\ Len(new) + 1 \in DOMAIN longer
        /\ \A x \in DOMAIN longer : x = Len(new) + 1 \/ x \in DOMAIN new
    BY <2>2
  <2> QED
    BY <2>1, <2>2, <2>3, <2>4 DEF NamedByHostname, Serves
<1>2. CASE ~(Unmigrated(j) /\ ~Serves(new, j.server))
  <2>1. Create(new, j) = new
    BY <1>2 DEF Create, Serves
  <2> QED
    BY <1>2, <2>1
<1> QED
  BY <1>1, <1>2

\* The dict of hosts after each host.
LEMMA ByNameRuns ==
    ASSUME NEW hs \in Seq(Host)
    PROVE  \E r : /\ r[0] = <<>>
                  /\ \A k \in 1..Len(hs) : r[k] = Enter(r[k - 1], hs[k])
                  /\ r[Len(hs)] = ByName(hs)
                  /\ \A k \in 0..Len(hs) : r[k] \in Seq(Host)
<1> DEFINE m == Len(hs)
           X == Seq(Host)
           base == <<>>
           Q(f) == f = [u \in SUBSET (1..m) |->
                          IF u = {} THEN <<>> ELSE Enter(f[u \ {Max(u)}], hs[Max(u)])]
           step == [p \in X \X (1..m) |-> Enter(p[1], hs[p[2]])]
           fold == CHOOSE f : Q(f)
           r == [k \in 0..m |-> fold[1..k]]
<1>1. m \in Nat /\ DOMAIN hs = 1..m /\ base \in X
  OBVIOUS
<1>2. \A x \in X, k \in 1..m : Enter(x, hs[k]) \in X
  BY EnterKnows, <1>1
<1>3. ByName(hs) = fold[1..m]
  BY <1>1 DEF ByName, FoldLeft, MapThenFoldSet
<1>4. \E f : Q(f)
  <2>1. PICK f : IsFold(f, X, base, m, step)
    <3>1. step \in [X \X (1..m) -> X]
      BY <1>2
    <3> HIDE DEF step, m, X, base
    <3> QED
      BY <1>1, <3>1, FoldExists
  <2>2. ASSUME NEW u \in SUBSET (1..m), u # {}
        PROVE  f[u] = Enter(f[u \ {Max(u)}], hs[Max(u)])
    <3>1. Max(u) \in 1..m /\ u \ {Max(u)} \in SUBSET (1..m)
      BY <1>1, <2>2, MaxIn
    <3> HIDE DEF m
    <3> QED
      BY <2>1, <2>2, <3>1 DEF IsFold
  <2>3. f = [u \in SUBSET (1..m) |-> f[u]] /\ f[{}] = <<>>
    BY <2>1 DEF IsFold
  <2>4. Q(f)
    BY <2>2, <2>3
  <2> QED
    BY <2>4
<1>5. Q(fold)
  <2> HIDE DEF Q
  <2> QED
    BY <1>4
<1> HIDE DEF fold
<1>6. r[0] = <<>>
  <2>1. 1..0 = {} /\ 1..0 \in SUBSET (1..m)
    OBVIOUS
  <2> QED
    BY <2>1, <1>5
<1>7. ASSUME NEW k \in 1..m
      PROVE  r[k] = Enter(r[k - 1], hs[k])
  <2>1. /\ Max(1..k) = k
        /\ (1..k) \ {k} = 1..k - 1
        /\ 1..k # {} /\ 1..k \in SUBSET (1..m)
        /\ k \in 0..m /\ k - 1 \in 0..m
    <3> HIDE DEF m
    <3> QED
      BY PrefixRange, <1>1
  <2> QED
    BY <2>1, <1>5
<1>8. r[m] = fold[1..m]
  OBVIOUS
<1> HIDE DEF r, m, X
<1>9. ASSUME NEW j \in 0..m PROVE r[j] \in X
  <2> DEFINE S == {k \in Nat : k <= m => r[k] \in X}
  <2>1. 0 \in S
    BY <1>1, <1>6
  <2>2. ASSUME NEW k \in 0..m - 1, k \in S PROVE k + 1 \in S
    <3>1. k + 1 \in 1..m /\ k + 1 - 1 = k /\ r[k] \in X
      BY <1>1, <2>2
    <3> QED
      BY <1>2, <1>7, <3>1
  <2>3. j \in Nat /\ \A k \in 0..j - 1 : k \in 0..m - 1
    BY <1>1
  <2> HIDE DEF S
  <2>4. j \in S
    BY <2>1, <2>2, <2>3, BoundedInduction
  <2> QED
    BY <1>1, <2>4 DEF S
<1> QED
  BY <1>3, <1>6, <1>7, <1>8, <1>9 DEF m, X

\* The hosts created after each job.
LEMMA CreatedRuns ==
    ASSUME NEW js \in Seq(AnyJob)
    PROVE  \E r : /\ r[0] = <<>>
                  /\ \A k \in 1..Len(js) : r[k] = Create(r[k - 1], js[k])
                  /\ r[Len(js)] = FoldLeft(Create, <<>>, js)
                  /\ \A k \in 0..Len(js) : r[k] \in Seq(Host)
<1> DEFINE m == Len(js)
           X == Seq(Host)
           base == <<>>
           Q(f) == f = [u \in SUBSET (1..m) |->
                          IF u = {} THEN <<>> ELSE Create(f[u \ {Max(u)}], js[Max(u)])]
           step == [p \in X \X (1..m) |-> Create(p[1], js[p[2]])]
           fold == CHOOSE f : Q(f)
           r == [k \in 0..m |-> fold[1..k]]
<1>1. m \in Nat /\ DOMAIN js = 1..m /\ base \in X
  OBVIOUS
<1>2. \A x \in X, k \in 1..m : Create(x, js[k]) \in X
  BY CreateServes, <1>1
<1>3. FoldLeft(Create, <<>>, js) = fold[1..m]
  BY <1>1 DEF FoldLeft, MapThenFoldSet
<1>4. \E f : Q(f)
  <2>1. PICK f : IsFold(f, X, base, m, step)
    <3>1. step \in [X \X (1..m) -> X]
      BY <1>2
    <3> HIDE DEF step, m, X, base
    <3> QED
      BY <1>1, <3>1, FoldExists
  <2>2. ASSUME NEW u \in SUBSET (1..m), u # {}
        PROVE  f[u] = Create(f[u \ {Max(u)}], js[Max(u)])
    <3>1. Max(u) \in 1..m /\ u \ {Max(u)} \in SUBSET (1..m)
      BY <1>1, <2>2, MaxIn
    <3> HIDE DEF m
    <3> QED
      BY <2>1, <2>2, <3>1 DEF IsFold
  <2>3. f = [u \in SUBSET (1..m) |-> f[u]] /\ f[{}] = <<>>
    BY <2>1 DEF IsFold
  <2>4. Q(f)
    BY <2>2, <2>3
  <2> QED
    BY <2>4
<1>5. Q(fold)
  <2> HIDE DEF Q
  <2> QED
    BY <1>4
<1> HIDE DEF fold
<1>6. r[0] = <<>>
  <2>1. 1..0 = {} /\ 1..0 \in SUBSET (1..m)
    OBVIOUS
  <2> QED
    BY <2>1, <1>5
<1>7. ASSUME NEW k \in 1..m
      PROVE  r[k] = Create(r[k - 1], js[k])
  <2>1. /\ Max(1..k) = k
        /\ (1..k) \ {k} = 1..k - 1
        /\ 1..k # {} /\ 1..k \in SUBSET (1..m)
        /\ k \in 0..m /\ k - 1 \in 0..m
    <3> HIDE DEF m
    <3> QED
      BY PrefixRange, <1>1
  <2> QED
    BY <2>1, <1>5
<1>8. r[m] = fold[1..m]
  OBVIOUS
<1> HIDE DEF r, m, X
<1>9. ASSUME NEW j \in 0..m PROVE r[j] \in X
  <2> DEFINE S == {k \in Nat : k <= m => r[k] \in X}
  <2>1. 0 \in S
    BY <1>1, <1>6
  <2>2. ASSUME NEW k \in 0..m - 1, k \in S PROVE k + 1 \in S
    <3>1. k + 1 \in 1..m /\ k + 1 - 1 = k /\ r[k] \in X
      BY <1>1, <2>2
    <3> QED
      BY <1>2, <1>7, <3>1
  <2>3. j \in Nat /\ \A k \in 0..j - 1 : k \in 0..m - 1
    BY <1>1
  <2> HIDE DEF S
  <2>4. j \in S
    BY <2>1, <2>2, <2>3, BoundedInduction
  <2> QED
    BY <1>1, <2>4 DEF S
<1> QED
  BY <1>3, <1>6, <1>7, <1>8, <1>9 DEF m, X

\* The migration knows every host that the file has.
LEMMA ByNameKnows ==
    ASSUME NEW hs \in Seq(Host)
    PROVE  /\ ByName(hs) \in Seq(Host)
           /\ \A i \in DOMAIN hs : Known(ByName(hs), hs[i].name)
<1>1. PICK r : /\ r[0] = <<>>
               /\ \A k \in 1..Len(hs) : r[k] = Enter(r[k - 1], hs[k])
               /\ r[Len(hs)] = ByName(hs)
               /\ \A k \in 0..Len(hs) : r[k] \in Seq(Host)
  BY ByNameRuns
<1> DEFINE m == Len(hs)
           S == {k \in Nat : k <= m => \A i \in 1..k : Known(r[k], hs[i].name)}
<1>2. m \in Nat /\ DOMAIN hs = 1..m /\ \A i \in 1..m : hs[i] \in Host
  OBVIOUS
<1> HIDE DEF m
<1>3. 0 \in S
  OBVIOUS
<1>4. ASSUME NEW k \in 0..m - 1, k \in S PROVE k + 1 \in S
  <2>1. k \in Nat /\ k + 1 \in 1..m /\ k + 1 - 1 = k /\ k <= m /\ k \in 0..m
    BY <1>2
  <2>2. r[k + 1] = Enter(r[k], hs[k + 1]) /\ r[k] \in Seq(Host) /\ hs[k + 1] \in Host
    BY <1>1, <1>2, <2>1 DEF m
  <2>3. Known(r[k + 1], hs[k + 1].name) /\ \A n : Known(r[k], n) => Known(r[k + 1], n)
    BY <2>2, EnterKnows
  <2>4. \A i \in 1..k + 1 : i = k + 1 \/ i \in 1..k
    BY <2>1
  <2>5. \A i \in 1..k + 1 : Known(r[k + 1], hs[i].name)
    BY <1>4, <2>1, <2>3, <2>4
  <2> QED
    BY <2>1, <2>5
<1>5. m \in S
  <2> HIDE DEF S
  <2> QED
    BY <1>2, <1>3, <1>4, BoundedInduction
<1>6. m \in 0..m
  BY <1>2
<1> QED
  BY <1>1, <1>2, <1>5, <1>6 DEF m

\* The migration creates a host for every job it migrates.
LEMMA CreatedKnows ==
    ASSUME NEW js \in Seq(AnyJob)
    PROVE  /\ FoldLeft(Create, <<>>, js) \in Seq(Host)
           /\ \A i \in DOMAIN js : Unmigrated(js[i]) =>
                Known(FoldLeft(Create, <<>>, js), HostnameOf[js[i].server])
<1>1. PICK r : /\ r[0] = <<>>
               /\ \A k \in 1..Len(js) : r[k] = Create(r[k - 1], js[k])
               /\ r[Len(js)] = FoldLeft(Create, <<>>, js)
               /\ \A k \in 0..Len(js) : r[k] \in Seq(Host)
  BY CreatedRuns
<1> DEFINE m == Len(js)
           S == {k \in Nat : k <= m =>
                    /\ NamedByHostname(r[k])
                    /\ \A i \in 1..k : Unmigrated(js[i]) => Serves(r[k], js[i].server)}
<1>2. m \in Nat /\ DOMAIN js = 1..m /\ \A i \in 1..m : js[i] \in AnyJob
  OBVIOUS
<1> HIDE DEF m
<1>3. 0 \in S
  BY <1>1 DEF NamedByHostname
<1>4. ASSUME NEW k \in 0..m - 1, k \in S PROVE k + 1 \in S
  <2>1. k \in Nat /\ k + 1 \in 1..m /\ k + 1 - 1 = k /\ k <= m /\ k \in 0..m
    BY <1>2
  <2>2. r[k + 1] = Create(r[k], js[k + 1]) /\ r[k] \in Seq(Host) /\ js[k + 1] \in AnyJob
    BY <1>1, <1>2, <2>1 DEF m
  <2>3. /\ NamedByHostname(r[k]) => NamedByHostname(r[k + 1])
        /\ Unmigrated(js[k + 1]) => Serves(r[k + 1], js[k + 1].server)
        /\ \A s : Serves(r[k], s) => Serves(r[k + 1], s)
    BY <2>2, CreateServes
  <2>4. \A i \in 1..k + 1 : i = k + 1 \/ i \in 1..k
    BY <2>1
  <2>5. \A i \in 1..k + 1 : Unmigrated(js[i]) => Serves(r[k + 1], js[i].server)
    BY <1>4, <2>1, <2>3, <2>4
  <2>6. NamedByHostname(r[k + 1])
    BY <1>4, <2>1, <2>3
  <2> QED
    BY <2>1, <2>5, <2>6
<1>5. m \in S
  <2> HIDE DEF S
  <2> QED
    BY <1>2, <1>3, <1>4, BoundedInduction
<1>6. m \in 0..m
  BY <1>2
<1>7. NamedByHostname(r[m]) /\ \A i \in 1..m : Unmigrated(js[i]) => Serves(r[m], js[i].server)
  BY <1>2, <1>5
<1>8. \A i \in 1..m : Unmigrated(js[i]) => Known(r[m], HostnameOf[js[i].server])
  BY <1>7 DEF NamedByHostname, Serves, Known, HostsNamed
<1> QED
  BY <1>1, <1>2, <1>6, <1>8 DEF m

-----------------------------------------------------------------------------
(* Load                                                                    *)

\* Knowing a name is kept when the list of hosts grows at either end.
LEMMA KnownConcat ==
    ASSUME NEW a \in Seq(Host), NEW b \in Seq(Host), NEW n
    PROVE  Known(a, n) \/ Known(b, n) => Known(a \o b, n)
<1> DEFINE q == a \o b
<1>1. /\ Len(a) \in Nat /\ Len(b) \in Nat
      /\ DOMAIN a = 1..Len(a) /\ DOMAIN b = 1..Len(b) /\ DOMAIN q = 1..Len(a) + Len(b)
      /\ \A i \in 1..Len(a) : q[i] = a[i]
      /\ \A i \in 1..Len(b) : q[Len(a) + i] = b[i]
  OBVIOUS
<1> HIDE DEF q
<1>2. /\ \A i \in DOMAIN a : i \in DOMAIN q /\ q[i] = a[i]
      /\ \A i \in DOMAIN b : Len(a) + i \in DOMAIN q /\ q[Len(a) + i] = b[i]
  BY <1>1
<1>3. Known(a, n) => Known(q, n)
  BY <1>2 DEF Known, HostsNamed
<1>4. Known(b, n) => Known(q, n)
  BY <1>2 DEF Known, HostsNamed
<1> QED
  BY <1>3, <1>4 DEF q

\* Every job that is migrated finds its host among the created ones.
LEMMA CreatedFor ==
    ASSUME NEW c, IsConfig(c)
    PROVE  /\ Created(c) \in Seq(Host)
           /\ \A k \in Kinds : \A i \in DOMAIN c.jobs[k] : Unmigrated(c.jobs[k][i]) =>
                Known(Created(c), HostnameOf[c.jobs[k][i].server])
<1> DEFINE ms == c.jobs["mount"]
           ss == c.jobs["sync"]
           js == ms \o ss
<1>1. ms \in Seq(Job("mount")) /\ ss \in Seq(Job("sync"))
  BY DEF IsConfig, Kinds
<1>2. ms \in Seq(AnyJob) /\ ss \in Seq(AnyJob)
  <2>1. Job("mount") \subseteq AnyJob /\ Job("sync") \subseteq AnyJob
    BY DEF AnyJob
  <2> HIDE DEF ms, ss
  <2> QED
    BY <1>1, <2>1
<1>3. /\ js \in Seq(AnyJob)
      /\ Len(ms) \in Nat /\ Len(ss) \in Nat
      /\ DOMAIN ms = 1..Len(ms) /\ DOMAIN ss = 1..Len(ss) /\ DOMAIN js = 1..Len(ms) + Len(ss)
      /\ \A i \in 1..Len(ms) : js[i] = ms[i]
      /\ \A i \in 1..Len(ss) : js[Len(ms) + i] = ss[i]
  <2> HIDE DEF ms, ss
  <2> QED
    BY <1>2
<1>4. Created(c) = FoldLeft(Create, <<>>, js)
  BY DEF Created
<1> HIDE DEF ms, ss, js
<1>5. /\ \A i \in DOMAIN ms : i \in DOMAIN js /\ js[i] = ms[i]
      /\ \A i \in DOMAIN ss : Len(ms) + i \in DOMAIN js /\ js[Len(ms) + i] = ss[i]
  BY <1>3
<1>6. /\ Created(c) \in Seq(Host)
      /\ \A i \in DOMAIN js : Unmigrated(js[i]) => Known(Created(c), HostnameOf[js[i].server])
  BY <1>3, <1>4, CreatedKnows
<1>7. ASSUME NEW k \in Kinds, NEW i \in DOMAIN c.jobs[k], Unmigrated(c.jobs[k][i])
      PROVE  Known(Created(c), HostnameOf[c.jobs[k][i].server])
  BY <1>5, <1>6, <1>7 DEF Kinds, ms, ss
<1> QED
  BY <1>6, <1>7

\* The migration of one job.
LEMMA MigratedJob ==
    ASSUME NEW k \in Kinds, NEW j \in Job(k)
    PROVE  /\ Migrated(j) \in Job(k)
           /\ Migrated(j).name = j.name
           /\ Migrated(j).host = IF Unmigrated(j) THEN HostnameOf[j.server] ELSE j.host
BY FileAssumption DEF Job, Migrated, Unmigrated

LEMMA MigrateKeeps ==
    ASSUME NEW c, IsConfig(c)
    PROVE  /\ IsConfig(Migrate(c))
           /\ Migrate(c).hosts = ByName(c.hosts) \o Created(c)
           /\ \A k \in Kinds : /\ DOMAIN Migrate(c).jobs[k] = DOMAIN c.jobs[k]
                               /\ \A i \in DOMAIN c.jobs[k] :
                                    Migrate(c).jobs[k][i] = Migrated(c.jobs[k][i])
           /\ Migrate(c).settings = c.settings
<1> DEFINE d == Migrate(c)
<1>1. /\ DOMAIN d = {"settings", "hosts", "jobs"}
      /\ d.settings = c.settings
      /\ d.hosts = ByName(c.hosts) \o Created(c)
      /\ d.jobs = [k \in Kinds |-> [i \in DOMAIN c.jobs[k] |-> Migrated(c.jobs[k][i])]]
  BY DEF IsConfig, Migrate
<1> HIDE DEF d
<1>2. d.hosts \in Seq(Host)
  <2>1. ByName(c.hosts) \in Seq(Host)
    BY ByNameKnows DEF IsConfig
  <2>2. Created(c) \in Seq(Host)
    BY CreatedFor
  <2> QED
    BY <2>1, <2>2, <1>1
<1>3. ASSUME NEW k \in Kinds PROVE d.jobs[k] \in Seq(Job(k))
  <2> DEFINE js == c.jobs[k]
             es == d.jobs[k]
  <2>1. js \in Seq(Job(k)) /\ es = [i \in DOMAIN js |-> Migrated(js[i])]
    BY <1>1 DEF IsConfig
  <2> HIDE DEF js, es
  <2>2. DOMAIN js = 1..Len(js) /\ Len(js) \in Nat /\ \A i \in DOMAIN js : js[i] \in Job(k)
    BY <2>1
  <2>3. \A i \in 1..Len(js) : Migrated(js[i]) \in Job(k)
    BY <2>2, MigratedJob
  <2>4. es \in Seq(Job(k))
    BY <2>1, <2>2, <2>3
  <2> QED
    BY <2>4 DEF es
<1>4. DOMAIN d.jobs = Kinds
  BY <1>1
<1>5. IsConfig(d)
  BY <1>1, <1>2, <1>3, <1>4 DEF IsConfig
<1> QED
  BY <1>1, <1>5 DEF d

\* A file that can be read, or none, loads as a configuration.
LEMMA LoadTyped ==
    ASSUME NEW f, Readable(f) => IsConfig(f), f # Broken
    PROVE  IsConfig(Load(f))
<1>1. CASE f = Absent
  BY <1>1, FileAssumption DEF Load, NoConfig, IsConfig
<1>2. CASE f # Absent
  BY <1>2, MigrateKeeps DEF Load, Readable
<1> QED
  BY <1>1, <1>2

\* The migration renames no job: what validate accepts of the file it accepts
\* of what is loaded.
LEMMA LoadDistinct ==
    ASSUME NEW f, Readable(f) => IsConfig(f), f # Broken, NEW k \in Kinds,
           Readable(f) => Distinct(f.jobs[k])
    PROVE  Distinct(Load(f).jobs[k])
<1>1. CASE f = Absent
  BY <1>1 DEF Load, NoConfig, Distinct
<1>2. CASE f # Absent
  <2>1. Readable(f) /\ Load(f) = Migrate(f)
    BY <1>2 DEF Readable, Load
  <2> DEFINE js == f.jobs[k]
             es == Migrate(f).jobs[k]
  <2>2. DOMAIN es = DOMAIN js /\ \A i \in DOMAIN js : es[i] = Migrated(js[i])
    BY <2>1, MigrateKeeps
  <2>3. \A i \in DOMAIN js : js[i] \in Job(k)
    BY <2>1 DEF IsConfig
  <2> HIDE DEF js, es
  <2>4. \A i \in DOMAIN js : es[i].name = js[i].name
    BY <2>2, <2>3, MigratedJob
  <2>5. Distinct(es)
    BY <2>1, <2>2, <2>4 DEF Distinct, js
  <2> QED
    BY <2>1, <2>5 DEF es
<1> QED
  BY <1>1, <1>2

\* Whatever mix of old free-text jobs and jobs with hosts a file has, and whichever
\* of its hosts share a name, a file whose references resolve is loaded with every
\* job on a host that is there.
THEOREM MigrationResolves ==
    ASSUME NEW f, Readable(f) => IsConfig(f), f # Broken,
           Readable(f) => Resolved(f)
    PROVE  Resolved(Load(f))
<1>1. CASE f = Absent
  BY <1>1 DEF Load, NoConfig, Resolved
<1>2. CASE f # Absent
  <2>1. Readable(f) /\ Load(f) = Migrate(f) /\ IsConfig(f) /\ Resolved(f)
    BY <1>2 DEF Readable, Load
  <2> DEFINE d == Migrate(f)
  <2>2. /\ d.hosts = ByName(f.hosts) \o Created(f)
        /\ \A k \in Kinds : /\ DOMAIN d.jobs[k] = DOMAIN f.jobs[k]
                            /\ \A i \in DOMAIN f.jobs[k] : d.jobs[k][i] = Migrated(f.jobs[k][i])
    BY <2>1, MigrateKeeps
  <2> HIDE DEF d
  <2>3. /\ ByName(f.hosts) \in Seq(Host) /\ Created(f) \in Seq(Host)
        /\ \A i \in DOMAIN f.hosts : Known(ByName(f.hosts), f.hosts[i].name)
    BY <2>1, ByNameKnows, CreatedFor DEF IsConfig
  <2>4. ASSUME NEW k \in Kinds, NEW i \in DOMAIN d.jobs[k], d.jobs[k][i].host # NoHost
        PROVE  Known(d.hosts, d.jobs[k][i].host)
    <3> DEFINE j == f.jobs[k][i]
               n == d.jobs[k][i].host
    <3>1. i \in DOMAIN f.jobs[k] /\ j \in Job(k) /\ d.jobs[k][i] = Migrated(j)
      BY <2>1, <2>2, <2>4 DEF IsConfig
    <3>2. n = IF Unmigrated(j) THEN HostnameOf[j.server] ELSE j.host
      BY <3>1, MigratedJob
    <3>3. CASE Unmigrated(j)
      <4>1. Known(Created(f), n)
        BY <2>1, <3>1, <3>2, <3>3, CreatedFor
      <4> QED
        BY <2>2, <2>3, <4>1, KnownConcat
    <3>4. CASE ~Unmigrated(j)
      <4>1. Known(f.hosts, n)
        BY <2>1, <2>4, <3>1, <3>2, <3>4 DEF Resolved
      <4>2. Known(ByName(f.hosts), n)
        BY <2>3, <4>1 DEF Known, HostsNamed
      <4> QED
        BY <2>2, <2>3, <4>2, KnownConcat
    <3> QED
      BY <3>3, <3>4
  <2>5. Resolved(d)
    BY <2>4 DEF Resolved
  <2> QED
    BY <2>1, <2>5 DEF d
<1> QED
  BY <1>1, <1>2

\* Where no job is left to migrate, no host is created.
LEMMA NothingCreated ==
    ASSUME NEW c, IsConfig(c),
           \A k \in Kinds : \A i \in DOMAIN c.jobs[k] : ~Unmigrated(c.jobs[k][i])
    PROVE  Created(c) = <<>>
<1> DEFINE ms == c.jobs["mount"]
           ss == c.jobs["sync"]
           js == ms \o ss
           m == Len(js)
<1>1. ms \in Seq(AnyJob) /\ ss \in Seq(AnyJob)
  <2>1. ms \in Seq(Job("mount")) /\ ss \in Seq(Job("sync"))
    BY DEF IsConfig, Kinds
  <2>2. Job("mount") \subseteq AnyJob /\ Job("sync") \subseteq AnyJob
    BY DEF AnyJob
  <2> HIDE DEF ms, ss
  <2> QED
    BY <2>1, <2>2
<1>2. (\A i \in DOMAIN ms : ~Unmigrated(ms[i])) /\ (\A i \in DOMAIN ss : ~Unmigrated(ss[i]))
  BY DEF Kinds
<1>3. Created(c) = FoldLeft(Create, <<>>, js)
  BY DEF Created
<1> HIDE DEF ms, ss
<1>4. js \in Seq(AnyJob) /\ m \in Nat /\ \A i \in 1..m : ~Unmigrated(js[i])
  <2>1. /\ Len(ms) \in Nat /\ Len(ss) \in Nat /\ js \in Seq(AnyJob)
        /\ DOMAIN ms = 1..Len(ms) /\ DOMAIN ss = 1..Len(ss) /\ m = Len(ms) + Len(ss)
        /\ \A i \in 1..Len(ms) : js[i] = ms[i]
        /\ \A i \in 1..Len(ss) : js[Len(ms) + i] = ss[i]
    BY <1>1
  <2> HIDE DEF js
  <2>2. ASSUME NEW i \in 1..m PROVE ~Unmigrated(js[i])
    <3>1. CASE i <= Len(ms)
      <4>1. i \in DOMAIN ms /\ js[i] = ms[i]
        BY <2>1, <3>1
      <4> QED
        BY <1>2, <4>1
    <3>2. CASE ~(i <= Len(ms))
      <4>1. i - Len(ms) \in 1..Len(ss) /\ Len(ms) + (i - Len(ms)) = i
        BY <2>1, <3>2
      <4>2. i - Len(ms) \in DOMAIN ss /\ js[i] = ss[i - Len(ms)]
        BY <2>1, <4>1
      <4> QED
        BY <1>2, <4>2
    <3> QED
      BY <3>1, <3>2
  <2> QED
    BY <2>1, <2>2
<1> HIDE DEF js
<1>5. PICK r : /\ r[0] = <<>>
               /\ \A k \in 1..Len(js) : r[k] = Create(r[k - 1], js[k])
               /\ r[Len(js)] = FoldLeft(Create, <<>>, js)
               /\ \A k \in 0..Len(js) : r[k] \in Seq(Host)
  BY <1>4, CreatedRuns
<1> DEFINE S == {k \in Nat : k <= m => r[k] = <<>>}
<1>6. \A k \in 1..m : r[k] = r[k - 1]
  BY <1>4, <1>5 DEF Create
<1> HIDE DEF m
<1>7. 0 \in S
  BY <1>5
<1>8. ASSUME NEW k \in 0..m - 1, k \in S PROVE k + 1 \in S
  <2>1. k + 1 \in 1..m /\ k + 1 - 1 = k /\ k <= m
    BY <1>4
  <2> QED
    BY <1>6, <1>8, <2>1
<1>9. m \in S
  <2> HIDE DEF S
  <2> QED
    BY <1>4, <1>7, <1>8, BoundedInduction
<1> QED
  BY <1>3, <1>4, <1>5, <1>9 DEF m

\* The migration is over after one load: loading what was loaded and saved changes
\* no job and creates no host, so the list of hosts does not grow with restarts.
THEOREM MigrationSettles ==
    ASSUME NEW c, IsConfig(c)
    PROVE  /\ Migrate(Migrate(c)).jobs = Migrate(c).jobs
           /\ Created(Migrate(c)) = <<>>
<1> DEFINE d == Migrate(c)
           e == Migrate(d)
<1>1. /\ IsConfig(d)
      /\ \A k \in Kinds : /\ DOMAIN d.jobs[k] = DOMAIN c.jobs[k]
                          /\ \A i \in DOMAIN c.jobs[k] : d.jobs[k][i] = Migrated(c.jobs[k][i])
  BY MigrateKeeps
<1> HIDE DEF d
<1>2. ASSUME NEW k \in Kinds, NEW i \in DOMAIN d.jobs[k] PROVE ~Unmigrated(d.jobs[k][i])
  <2> DEFINE j == c.jobs[k][i]
  <2>1. i \in DOMAIN c.jobs[k] /\ d.jobs[k][i] = Migrated(j) /\ j \in Job(k)
    BY <1>1 DEF IsConfig
  <2>2. Unmigrated(j) => HostnameOf[j.server] \in HostNames
    BY <2>1, FileAssumption DEF Unmigrated, Job
  <2>3. Migrated(j).host = IF Unmigrated(j) THEN HostnameOf[j.server] ELSE j.host
    BY <2>1, MigratedJob
  <2>4. Unmigrated(j) => Migrated(j).host # NoHost
    BY <2>2, <2>3, FileAssumption
  <2>5. ~Unmigrated(j) => Migrated(j) = j
    BY DEF Migrated
  <2> QED
    BY <2>1, <2>4, <2>5 DEF Unmigrated
<1>3. Created(d) = <<>>
  BY <1>1, <1>2, NothingCreated
<1>4. ASSUME NEW k \in Kinds PROVE e.jobs[k] = d.jobs[k]
  <2>1. d.jobs[k] \in Seq(Job(k))
    BY <1>1 DEF IsConfig
  <2>2. e.jobs[k] = [i \in DOMAIN d.jobs[k] |-> Migrated(d.jobs[k][i])]
    BY <1>1 DEF Migrate, IsConfig
  <2>3. \A i \in DOMAIN d.jobs[k] : Migrated(d.jobs[k][i]) = d.jobs[k][i]
    BY <1>2 DEF Migrated
  <2>4. d.jobs[k] = [i \in DOMAIN d.jobs[k] |-> d.jobs[k][i]]
    BY <2>1
  <2> QED
    BY <2>2, <2>3, <2>4
<1>5. e.jobs = [k \in Kinds |-> e.jobs[k]]
  BY <1>1 DEF Migrate, IsConfig
<1>6. e.jobs = d.jobs
  <2>1. DOMAIN d.jobs = Kinds /\ d.jobs = [k \in Kinds |-> d.jobs[k]]
    <3>1. d.jobs = [k \in Kinds |-> [i \in DOMAIN c.jobs[k] |-> Migrated(c.jobs[k][i])]]
      BY DEF d, Migrate, IsConfig
    <3> QED
      BY <3>1
  <2> QED
    BY <2>1, <1>4, <1>5
<1> QED
  BY <1>3, <1>6 DEF d

-----------------------------------------------------------------------------
(* What a save leaves for the next start                                   *)

\* The same jobs by name and host, one by one.
SameJobs(c, d) ==
    \A k \in Kinds : /\ DOMAIN d.jobs[k] = DOMAIN c.jobs[k]
                     /\ \A i \in DOMAIN c.jobs[k] : /\ d.jobs[k][i].name = c.jobs[k][i].name
                                                    /\ d.jobs[k][i].host = c.jobs[k][i].host

\* What is read back is a configuration with the same hosts, and with jobs of the
\* same names on the same hosts.
LEMMA RenderingKeeps ==
    ASSUME NEW c, IsConfig(c), Readable(Rendering(c))
    PROVE  /\ IsConfig(Rendering(c))
           /\ Rendering(c).hosts = c.hosts
           /\ SameJobs(c, Rendering(c))
<1> DEFINE d == Rendering(c)
<1>1. Quotable(c)
  BY DEF Rendering, Readable
<1>2. /\ DOMAIN d = {"settings", "hosts", "jobs"}
      /\ d.settings = Reads[c.settings]
      /\ d.hosts = c.hosts
      /\ d.jobs = [k \in Kinds |-> [i \in DOMAIN c.jobs[k] |-> ReadBack(c.jobs[k][i])]]
  BY <1>1 DEF IsConfig, Rendering
<1> HIDE DEF d
<1>3. ASSUME NEW k \in Kinds, NEW i \in DOMAIN c.jobs[k]
      PROVE  /\ ReadBack(c.jobs[k][i]) \in Job(k)
             /\ ReadBack(c.jobs[k][i]).name = c.jobs[k][i].name
             /\ ReadBack(c.jobs[k][i]).host = c.jobs[k][i].host
  <2> DEFINE j == c.jobs[k][i]
  <2>1. j \in Job(k)
    BY DEF IsConfig
  <2>2. Reads[j.text] # Garbled
    BY <1>1 DEF Quotable
  <2> HIDE DEF j
  <2>3. Reads[j.text] \in Texts
    BY <2>1, <2>2, FileAssumption DEF Job
  <2>4. ReadBack(j) \in Job(k) /\ ReadBack(j).name = j.name /\ ReadBack(j).host = j.host
    BY <2>1, <2>3 DEF Job, ReadBack
  <2> QED
    BY <2>4 DEF j
<1>4. ASSUME NEW k \in Kinds PROVE d.jobs[k] \in Seq(Job(k))
  <2> DEFINE js == c.jobs[k]
             es == d.jobs[k]
  <2>1. js \in Seq(Job(k)) /\ es = [i \in DOMAIN js |-> ReadBack(js[i])]
    BY <1>2 DEF IsConfig
  <2>2. \A i \in DOMAIN js : ReadBack(js[i]) \in Job(k)
    BY <1>3
  <2> HIDE DEF js, es
  <2>3. DOMAIN js = 1..Len(js) /\ Len(js) \in Nat
    BY <2>1
  <2>4. es \in Seq(Job(k))
    BY <2>1, <2>2, <2>3
  <2> QED
    BY <2>4 DEF es
<1>5. d.settings \in Settings /\ d.hosts \in Seq(Host) /\ DOMAIN d.jobs = Kinds
  BY <1>1, <1>2, FileAssumption DEF IsConfig, Quotable
<1>6. IsConfig(d)
  BY <1>2, <1>4, <1>5 DEF IsConfig
<1>7. SameJobs(c, d)
  BY <1>2, <1>3 DEF SameJobs
<1> QED
  BY <1>2, <1>6, <1>7 DEF d

\* A prefix of a list.
LEMMA PrefixIs ==
    ASSUME NEW T, NEW s \in Seq(T), NEW p \in Prefixes(s)
    PROVE  /\ p \in Seq(T) /\ DOMAIN p \subseteq DOMAIN s
           /\ \A i \in DOMAIN p : p[i] = s[i]
<1>1. PICK n \in 0..Len(s) : p = SubSeq(s, 1, n)
  BY DEF Prefixes
<1>2. Len(s) \in Nat /\ DOMAIN s = 1..Len(s) /\ n \in Nat /\ n <= Len(s)
  OBVIOUS
<1>3. p = [i \in 1..n |-> s[i]]
  BY <1>1, <1>2
<1>4. \A i \in 1..n : i \in DOMAIN s /\ s[i] \in T
  BY <1>2
<1>5. p \in Seq(T)
  BY <1>2, <1>3, <1>4
<1> QED
  BY <1>3, <1>4, <1>5

\* The jobs of one kind begin with those of another, on the same hosts; or there
\* are none of that kind.
BeginsWith(c, b) ==
    \A k \in Kinds :
        /\ DOMAIN b.jobs[k] \subseteq DOMAIN c.jobs[k]
        /\ \A i \in DOMAIN b.jobs[k] : b.jobs[k][i] = c.jobs[k][i] /\ b.hosts = c.hosts

\* A beginning of a configuration is one, with all the hosts its jobs refer to.
LEMMA BeginningIs ==
    ASSUME NEW c, IsConfig(c), NEW b \in Beginnings(c)
    PROVE  IsConfig(b) /\ BeginsWith(c, b)
<1> DEFINE none == NoConfig.jobs
<1>1. /\ DOMAIN none = Kinds
      /\ \A k \in Kinds : none[k] = <<>> /\ none[k] \in Seq(Job(k)) /\ DOMAIN none[k] = {}
  BY DEF NoConfig
<1> HIDE DEF none
<1>2. CASE b = NoConfig
  <2>1. /\ DOMAIN b = {"settings", "hosts", "jobs"} /\ b.settings = Defaults
        /\ b.hosts = <<>> /\ b.jobs = none
    BY <1>2 DEF NoConfig, none
  <2>2. IsConfig(b)
    BY <1>1, <2>1, FileAssumption DEF IsConfig
  <2>3. BeginsWith(c, b)
    BY <1>1, <2>1 DEF BeginsWith
  <2> QED
    BY <2>2, <2>3
<1>3. ASSUME NEW hs \in Prefixes(c.hosts), b = [c EXCEPT !.hosts = hs, !.jobs = none]
      PROVE  IsConfig(b) /\ BeginsWith(c, b)
  <2>1. /\ DOMAIN b = {"settings", "hosts", "jobs"} /\ b.settings = c.settings
        /\ b.hosts = hs /\ b.jobs = none
    BY <1>3 DEF IsConfig
  <2>2. hs \in Seq(Host)
    BY PrefixIs DEF IsConfig
  <2>3. IsConfig(b)
    BY <1>1, <2>1, <2>2 DEF IsConfig
  <2>4. BeginsWith(c, b)
    BY <1>1, <2>1 DEF BeginsWith
  <2> QED
    BY <2>3, <2>4
<1>4. ASSUME NEW k \in Kinds, NEW js \in Prefixes(c.jobs[k]),
             DOMAIN b = {"settings", "hosts", "jobs"}, b.settings = c.settings, b.hosts = c.hosts,
             DOMAIN b.jobs = Kinds, b.jobs[k] = js,
             \A x \in Kinds \ {k} : b.jobs[x] = none[x] \/ b.jobs[x] = c.jobs[x]
      PROVE  IsConfig(b) /\ BeginsWith(c, b)
  <2>1. c.jobs[k] \in Seq(Job(k))
    BY DEF IsConfig
  <2>2. /\ js \in Seq(Job(k)) /\ DOMAIN js \subseteq DOMAIN c.jobs[k]
        /\ \A i \in DOMAIN js : js[i] = c.jobs[k][i]
    BY <2>1, PrefixIs
  <2>3. \A x \in Kinds : b.jobs[x] \in Seq(Job(x))
    BY <1>1, <1>4, <2>2 DEF IsConfig
  <2>4. IsConfig(b)
    BY <1>4, <2>3 DEF IsConfig
  <2>5. BeginsWith(c, b)
    BY <1>1, <1>4, <2>2 DEF BeginsWith
  <2> QED
    BY <2>4, <2>5
<1>5. ASSUME NEW ms \in Prefixes(c.jobs["mount"]),
             b = [c EXCEPT !.jobs = [none EXCEPT !["mount"] = ms]]
      PROVE  IsConfig(b) /\ BeginsWith(c, b)
  <2>1. /\ "mount" \in Kinds /\ DOMAIN b = {"settings", "hosts", "jobs"}
        /\ b.settings = c.settings /\ b.hosts = c.hosts
        /\ b.jobs = [none EXCEPT !["mount"] = ms]
    BY <1>5 DEF IsConfig, Kinds
  <2>2. /\ DOMAIN b.jobs = Kinds /\ b.jobs["mount"] = ms
        /\ \A x \in Kinds \ {"mount"} : b.jobs[x] = none[x]
    BY <1>1, <2>1
  <2> QED
    BY <1>4, <2>1, <2>2
<1>6. ASSUME NEW ss \in Prefixes(c.jobs["sync"]), b = [c EXCEPT !.jobs["sync"] = ss]
      PROVE  IsConfig(b) /\ BeginsWith(c, b)
  <2>1. /\ "sync" \in Kinds /\ DOMAIN b = {"settings", "hosts", "jobs"}
        /\ b.settings = c.settings /\ b.hosts = c.hosts
        /\ b.jobs = [c.jobs EXCEPT !["sync"] = ss] /\ DOMAIN c.jobs = Kinds
    BY <1>6 DEF IsConfig, Kinds
  <2>2. /\ DOMAIN b.jobs = Kinds /\ b.jobs["sync"] = ss
        /\ \A x \in Kinds \ {"sync"} : b.jobs[x] = c.jobs[x]
    BY <2>1
  <2> QED
    BY <1>4, <2>1, <2>2
<1> QED
  BY <1>2, <1>3, <1>5, <1>6 DEF Beginnings, none

\* Whatever a save leaves in the file, cut short or not, spoiled by a quote or
\* not: if a start can read it, it is a configuration whose names are distinct
\* and whose references resolve, when those of the one that was saved are.
THEOREM SavedIsUsable ==
    ASSUME NEW c, IsConfig(c), NEW cut \in BOOLEAN,
           NEW f \in Renderings(c, cut), Readable(f)
    PROVE  /\ IsConfig(f)
           /\ \A k \in Kinds : Distinct(c.jobs[k]) => Distinct(f.jobs[k])
           /\ Resolved(c) => Resolved(f)
<1>1. PICK b : /\ IsConfig(b) /\ f = Rendering(b)
               /\ \A k \in Kinds :
                    /\ DOMAIN b.jobs[k] \subseteq DOMAIN c.jobs[k]
                    /\ \A i \in DOMAIN b.jobs[k] : b.jobs[k][i] = c.jobs[k][i] /\ b.hosts = c.hosts
  <2>1. CASE ~cut
    BY <2>1 DEF Renderings
  <2>2. CASE cut
    <3>1. PICK b \in Beginnings(c) : f = Rendering(b)
      BY <2>2 DEF Renderings, Readable
    <3> QED
      BY <3>1, BeginningIs DEF BeginsWith
  <2> QED
    BY <2>1, <2>2
<1>2. IsConfig(f) /\ f.hosts = b.hosts /\ SameJobs(b, f)
  BY <1>1, RenderingKeeps
<1>3. \A k \in Kinds : \A i \in DOMAIN f.jobs[k] :
        /\ i \in DOMAIN c.jobs[k] /\ f.hosts = c.hosts
        /\ f.jobs[k][i].name = c.jobs[k][i].name /\ f.jobs[k][i].host = c.jobs[k][i].host
  BY <1>1, <1>2 DEF SameJobs
<1>4. \A k \in Kinds : Distinct(c.jobs[k]) => Distinct(f.jobs[k])
  BY <1>3 DEF Distinct
<1>5. Resolved(c) => Resolved(f)
  BY <1>3 DEF Resolved
<1> QED
  BY <1>2, <1>4, <1>5

=============================================================================
