--------------------------- MODULE JobQueueProofs ---------------------------
(***************************************************************************)
(* The YAML of a queue of any length, over any addresses and names, is the *)
(* queue sorted by host.  The argument: each fold of ConvertQueueToYAML    *)
(* lists the entries of a set of indices in their order, UniqueHosts those *)
(* where a host is first met and JobsOf those of a host; the places of the *)
(* YAML are these indices.                                                 *)
(***************************************************************************)
EXTENDS JobQueue, FoldLemmas, SequenceTheorems

Entries == [name : {None} \cup Names, urlEnd : {None} \cup Seq(Parts)]

\* What a job may have for a host.
JobHosts == Hosts \cup {None}

-----------------------------------------------------------------------------
\* The texts of hosts and urls.
LEMMA Texts ==
  /\ \A host \in JobHosts : HostText(host) \in Seq(Parts)
  /\ \A url \in Urls : url \in Seq(Parts)
  BY QueueAssumption DEF JobHosts, HostText

\* Where a text occurs it first ends, and that is where replace() finds it.
LEMMA FirstOccurrence ==
  ASSUME NEW P, NEW s \in Seq(P), NEW t \in Seq(P), s \in SubSeqs(t)
  PROVE  \E last \in 0..Len(t) :
           /\ s \in SubSeqs(SubSeq(t, 1, last))
           /\ \A j \in 0..(last - 1) : s \notin SubSeqs(SubSeq(t, 1, j))
           /\ IndexFirstSubSeq(s, t) = last - (Len(s) - 1)
<1> DEFINE Holds(i) == s \in SubSeqs(SubSeq(t, 1, i))
           First(i) == Holds(i) /\ \A j \in 0..(i - 1) : ~Holds(j)
           T == {i \in 0..Len(t) : Holds(i)}
<1>1. Len(t) \in T
  <2>1. SubSeq(t, 1, Len(t)) = t /\ Len(t) \in 0..Len(t)
    BY SubSeqFull
  <2>2. Holds(Len(t))
    BY <2>1
  <2> HIDE DEF Holds
  <2> QED
    BY <2>1, <2>2
<1> HIDE DEF Holds
<1>2. PICK last \in T : \A j \in T : last <= j
  <2>1. T \in SUBSET Nat /\ T # {}
    BY <1>1
  <2> HIDE DEF T
  <2> QED
    BY <2>1, LeastNatural
<1>3. last \in 0..Len(t) /\ First(last)
  BY <1>2
<1> DEFINE chosen == CHOOSE i \in 0..Len(t) : First(i)
<1>4. chosen \in 0..Len(t) /\ First(chosen)
  <2> HIDE DEF First
  <2> QED
    BY <1>3
<1>5. IndexFirstSubSeq(s, t) = chosen - (Len(s) - 1)
  BY DEF IndexFirstSubSeq, Holds
<1> HIDE DEF chosen
<1> QED
  BY <1>4, <1>5 DEF Holds

\* Parts of a text are removed: what is left is of the same parts.
LEMMA RemovalType ==
  ASSUME NEW P, NEW s \in Seq(P), NEW t \in Seq(P)
  PROVE  ReplaceFirstSubSeq(<<>>, s, t) \in Seq(P)
<1>1. CASE s \notin SubSeqs(t)
  BY <1>1 DEF ReplaceFirstSubSeq
<1>2. CASE s \in SubSeqs(t)
  <2>1. PICK last \in 0..Len(t) :
          IndexFirstSubSeq(s, t) = last - (Len(s) - 1)
    BY <1>2, FirstOccurrence
  <2> DEFINE index == IndexFirstSubSeq(s, t)
  <2>2. /\ index - 1 \in Int /\ index - 1 <= Len(t)
        /\ index + Len(s) \in Int /\ index + Len(s) = last + 1
    BY <2>1
  <2> HIDE DEF index
  <2>3. SubSeq(t, 1, index - 1) \in Seq(P)
    <3>1. \A i \in 1..(index - 1) : t[i] \in P
      BY <2>2
    <3> QED
      BY <2>2, <3>1, SubSeqProperties
  <2>4. SubSeq(t, index + Len(s), Len(t)) \in Seq(P)
    <3>1. \A i \in (index + Len(s))..Len(t) : t[i] \in P
      BY <2>2
    <3> QED
      BY <2>2, <3>1, SubSeqProperties
  <2>5. ReplaceFirstSubSeq(<<>>, s, t) =
          SubSeq(t, 1, index - 1) \o <<>> \o SubSeq(t, index + Len(s), Len(t))
    BY <1>2 DEF ReplaceFirstSubSeq, ReplaceSubSeqAt, index
  <2>6. \A a, b \in Seq(P) : a \o <<>> \o b \in Seq(P)
    OBVIOUS
  <2> QED
    BY <2>3, <2>4, <2>5, <2>6
<1> QED
  BY <1>1, <1>2

\* A text that begins another is removed there, wherever else it occurs.
LEMMA PrefixRemoval ==
  ASSUME NEW P, NEW s \in Seq(P), NEW t \in Seq(P), IsPrefix(s, t)
  PROVE  ReplaceFirstSubSeq(<<>>, s, t) = SubSeq(t, Len(s) + 1, Len(t))
<1>1. /\ Len(s) \in Nat /\ Len(t) \in Nat /\ Len(s) <= Len(t)
      /\ SubSeq(t, 1, Len(s)) = s
  <2>1. SubSeq(s, 1, Len(s)) = s
    BY SubSeqFull
  <2> QED
    BY <2>1 DEF IsPrefix
<1>2. s \in SubSeqs(t)
  BY <1>1 DEF SubSeqs
<1>3. s \in SubSeqs(SubSeq(t, 1, Len(s)))
  <2>1. SubSeq(s, 0 + 1, Len(s)) = s
    BY SubSeqFull
  <2>2. 0 \in 0..Len(s) /\ Len(s) \in 0..Len(s)
    BY <1>1
  <2>3. s \in SubSeqs(s)
    BY <2>1, <2>2 DEF SubSeqs
  <2> QED
    BY <1>1, <2>3
<1>4. ASSUME NEW j \in 0..(Len(s) - 1)
      PROVE  s \notin SubSeqs(SubSeq(t, 1, j))
  <2> DEFINE u == SubSeq(t, 1, j)
  <2>1. u \in Seq(P) /\ Len(u) = j
    <3>1. \A i \in 1..j : t[i] \in P
      BY <1>1
    <3> QED
      BY <1>1, <3>1, SubSeqProperties
  <2> HIDE DEF u
  <2>2. ASSUME NEW a \in 0..Len(u), NEW b \in 0..Len(u)
        PROVE  SubSeq(u, a + 1, b) # s
    <3>1. \A i \in (a + 1)..b : u[i] \in P
      BY <2>1
    <3>2. Len(SubSeq(u, a + 1, b)) = IF a + 1 <= b THEN b - (a + 1) + 1 ELSE 0
      BY <2>1, <3>1, SubSeqProperties
    <3>3. Len(SubSeq(u, a + 1, b)) <= j /\ j < Len(s)
      BY <1>1, <2>1, <3>2
    <3> QED
      BY <1>1, <3>3
  <2> QED
    BY <2>2 DEF SubSeqs, u
<1>5. IndexFirstSubSeq(s, t) = 1
  <2>1. PICK last \in 0..Len(t) :
          /\ s \in SubSeqs(SubSeq(t, 1, last))
          /\ \A j \in 0..(last - 1) : s \notin SubSeqs(SubSeq(t, 1, j))
          /\ IndexFirstSubSeq(s, t) = last - (Len(s) - 1)
    BY <1>2, FirstOccurrence
  <2>2. ~(last < Len(s))
    BY <1>1, <1>4, <2>1
  <2>3. ~(Len(s) < last)
    BY <1>1, <1>3, <2>1
  <2> QED
    BY <1>1, <2>1, <2>2, <2>3
<1>6. SubSeq(t, 1, 1 - 1) = <<>>
  BY SubSeqEmpty
<1>7. SubSeq(t, 1 + Len(s), Len(t)) \in Seq(P)
  <2>1. \A i \in (1 + Len(s))..Len(t) : t[i] \in P
    BY <1>1
  <2> QED
    BY <1>1, <2>1, SubSeqProperties
<1>8. ReplaceFirstSubSeq(<<>>, s, t) =
        SubSeq(t, 1, 1 - 1) \o <<>> \o SubSeq(t, 1 + Len(s), Len(t))
  BY <1>2, <1>5 DEF ReplaceFirstSubSeq, ReplaceSubSeqAt
<1> QED
  BY <1>1, <1>6, <1>7, <1>8

\* A job with a url has an entry.
LEMMA EntryType ==
  ASSUME NEW job \in Job, job.url # None
  PROVE  Entry(job) \in Entries
<1>1. /\ HostText(job.host) \in Seq(Parts) /\ job.url \in Seq(Parts)
      /\ job.name \in Names \cup {None}
  BY Texts DEF Job, JobHosts
<1>2. UrlEnd(job) \in Seq(Parts)
  BY <1>1, RemovalType DEF UrlEnd
<1> QED
  BY <1>1, <1>2 DEF Entry, Entries, Unquoted

-----------------------------------------------------------------------------
\* UniqueHosts is a loop over the queue.
LEMMA UniqueHostsLoop ==
  ASSUME NEW q \in Seq(Job)
  PROVE  \E H \in [0..Len(q) -> Seq(JobHosts)] :
           /\ H[0] = <<>>
           /\ H[Len(q)] = UniqueHosts(q)
           /\ \A m \in 1..Len(q) :
                H[m] = IF Contains(H[m - 1], q[m].host)
                         THEN H[m - 1] ELSE Append(H[m - 1], q[m].host)
<1> DEFINE n == Len(q)
           A == Seq(JobHosts)
           Step(hosts, job) == IF Contains(hosts, job.host)
                                 THEN hosts ELSE Append(hosts, job.host)
           Fold(g) == [s \in SUBSET DOMAIN q |->
                         IF s = {} THEN <<>>
                                   ELSE Step(g[s \ {Max(s)}], q[Max(s)])]
           fold == CHOOSE g : g = Fold(g)
           G == [p \in (1..n) \X A |-> Step(p[2], q[p[1]])]
<1>1. UniqueHosts(q) = fold[DOMAIN q]
  BY DEF UniqueHosts, FoldLeft, MapThenFoldSet
<1>2. n \in Nat /\ DOMAIN q = 1..n /\ \A m \in 1..n : q[m].host \in JobHosts
  <2>1. n \in Nat /\ DOMAIN q = 1..n /\ \A m \in 1..n : q[m] \in Job
    OBVIOUS
  <2> QED
    BY <2>1 DEF Job, JobHosts
<1>3. /\ <<>> \in A
      /\ \A m \in 1..n, hosts \in A : Step(hosts, q[m]) \in A
  BY <1>2
<1> HIDE DEF A, n, Step
<1>4. /\ G \in [(1..n) \X A -> A]
      /\ \A m \in 1..n, hosts \in A : G[<<m, hosts>>] = Step(hosts, q[m])
  BY <1>3
<1> HIDE DEF G
<1>5. fold = Fold(fold)
  <2>1. PICK g \in [SUBSET (1..n) -> A] : FoldsIndices(g, n, A, <<>>, G)
    BY <1>2, <1>3, <1>4, IndexFoldExists, Zenon
  <2>2. ASSUME NEW s \in SUBSET (1..n), s # {}
        PROVE  g[s] = Step(g[s \ {Max(s)}], q[Max(s)])
    <3>1. Max(s) \in 1..n /\ g[s \ {Max(s)}] \in A
      BY <1>2, <2>1, <2>2, MaxInSet
    <3> QED
      BY <1>4, <2>1, <2>2, <3>1 DEF FoldsIndices
  <2>3. g = Fold(g)
    BY <1>2, <2>1, <2>2 DEF FoldsIndices
  <2> HIDE DEF Fold
  <2> QED
    BY <2>3
<1> HIDE DEF fold
<1>6. /\ fold[{}] = <<>>
      /\ \A s \in SUBSET (1..n) : s # {} =>
           fold[s] = Step(fold[s \ {Max(s)}], q[Max(s)])
  <2>1. \A s \in SUBSET (1..n) : fold[s] = Fold(fold)[s]
    BY <1>5
  <2> QED
    BY <1>2, <2>1
<1>7. PICK H \in [0..n -> A] : IsLoop(H, n, <<>>, G, fold[1..n])
  <2>1. ASSUME NEW s \in SUBSET (1..n), s # {}, fold[s \ {Max(s)}] \in A
        PROVE  fold[s] = G[<<Max(s), fold[s \ {Max(s)}]>>]
    BY <1>2, <1>4, <1>6, <2>1, MaxInSet
  <2>2. FoldsIndices(fold, n, A, <<>>, G)
    BY <1>6, <2>1 DEF FoldsIndices
  <2>3. n \in Nat /\ <<>> \in A /\ G \in [(1..n) \X A -> A]
    BY <1>2, <1>3, <1>4
  <2> QED
    BY <2>2, <2>3, FoldIsLoop, Zenon
<1>8. \A m \in 1..n : H[m] = Step(H[m - 1], q[m])
  <2>1. \A m \in 1..n : m - 1 \in 0..n
    BY <1>2
  <2>2. \A m \in 1..n : H[m - 1] \in A /\ H[m] = G[<<m, H[m - 1]>>]
    BY <1>7, <2>1 DEF IsLoop
  <2> QED
    BY <1>4, <2>2
<1> QED
  BY <1>1, <1>2, <1>7, <1>8 DEF n, A, Step, IsLoop

\* JobsOf is one too.
LEMMA JobsOfLoop ==
  ASSUME NEW q \in Seq(Job), Convertible(q), NEW host
  PROVE  \E H \in [0..Len(q) -> Seq(Entries)] :
           /\ H[0] = <<>>
           /\ H[Len(q)] = JobsOf(q, host)
           /\ \A m \in 1..Len(q) :
                H[m] = IF q[m].host = host
                         THEN Append(H[m - 1], Entry(q[m])) ELSE H[m - 1]
<1> DEFINE n == Len(q)
           A == Seq(Entries)
           Step(jobs, job) == IF job.host = host
                                THEN Append(jobs, Entry(job)) ELSE jobs
           Fold(g) == [s \in SUBSET DOMAIN q |->
                         IF s = {} THEN <<>>
                                   ELSE Step(g[s \ {Max(s)}], q[Max(s)])]
           fold == CHOOSE g : g = Fold(g)
           G == [p \in (1..n) \X A |-> Step(p[2], q[p[1]])]
<1>1. JobsOf(q, host) = fold[DOMAIN q]
  BY DEF JobsOf, FoldLeft, MapThenFoldSet
<1>2. n \in Nat /\ DOMAIN q = 1..n /\ \A m \in 1..n : Entry(q[m]) \in Entries
  BY EntryType DEF Convertible
<1>3. /\ <<>> \in A
      /\ \A m \in 1..n, jobs \in A : Step(jobs, q[m]) \in A
  BY <1>2
<1> HIDE DEF A, n, Step
<1>4. /\ G \in [(1..n) \X A -> A]
      /\ \A m \in 1..n, jobs \in A : G[<<m, jobs>>] = Step(jobs, q[m])
  BY <1>3
<1> HIDE DEF G
<1>5. fold = Fold(fold)
  <2>1. PICK g \in [SUBSET (1..n) -> A] : FoldsIndices(g, n, A, <<>>, G)
    BY <1>2, <1>3, <1>4, IndexFoldExists, Zenon
  <2>2. ASSUME NEW s \in SUBSET (1..n), s # {}
        PROVE  g[s] = Step(g[s \ {Max(s)}], q[Max(s)])
    <3>1. Max(s) \in 1..n /\ g[s \ {Max(s)}] \in A
      BY <1>2, <2>1, <2>2, MaxInSet
    <3> QED
      BY <1>4, <2>1, <2>2, <3>1 DEF FoldsIndices
  <2>3. g = Fold(g)
    BY <1>2, <2>1, <2>2 DEF FoldsIndices
  <2> HIDE DEF Fold
  <2> QED
    BY <2>3
<1> HIDE DEF fold
<1>6. /\ fold[{}] = <<>>
      /\ \A s \in SUBSET (1..n) : s # {} =>
           fold[s] = Step(fold[s \ {Max(s)}], q[Max(s)])
  <2>1. \A s \in SUBSET (1..n) : fold[s] = Fold(fold)[s]
    BY <1>5
  <2> QED
    BY <1>2, <2>1
<1>7. PICK H \in [0..n -> A] : IsLoop(H, n, <<>>, G, fold[1..n])
  <2>1. ASSUME NEW s \in SUBSET (1..n), s # {}, fold[s \ {Max(s)}] \in A
        PROVE  fold[s] = G[<<Max(s), fold[s \ {Max(s)}]>>]
    BY <1>2, <1>4, <1>6, <2>1, MaxInSet
  <2>2. FoldsIndices(fold, n, A, <<>>, G)
    BY <1>6, <2>1 DEF FoldsIndices
  <2>3. n \in Nat /\ <<>> \in A /\ G \in [(1..n) \X A -> A]
    BY <1>2, <1>3, <1>4
  <2> QED
    BY <2>2, <2>3, FoldIsLoop, Zenon
<1>8. \A m \in 1..n : H[m] = Step(H[m - 1], q[m])
  <2>1. \A m \in 1..n : m - 1 \in 0..n
    BY <1>2
  <2>2. \A m \in 1..n : H[m - 1] \in A /\ H[m] = G[<<m, H[m - 1]>>]
    BY <1>7, <2>1 DEF IsLoop
  <2> QED
    BY <1>4, <2>2
<1> QED
  BY <1>1, <1>2, <1>7, <1>8 DEF n, A, Step, IsLoop

-----------------------------------------------------------------------------
\* The indices where a host is first met, those of a host, and what is written
\* for an index.
Firsts(q) == {i \in 1..Len(q) : \A j \in 1..(i - 1) : q[j].host # q[i].host}

OfHost(q, host) == {i \in 1..Len(q) : q[i].host = host}

HostOf(q) == [i \in 1..Len(q) |-> q[i].host]

EntryOf(q) == [i \in 1..Len(q) |-> Entry(q[i])]

\* The loop of UniqueHosts has seen the hosts of the jobs before.
LEMMA HostsSeen ==
  ASSUME NEW q \in Seq(Job), NEW H \in [0..Len(q) -> Seq(JobHosts)], H[0] = <<>>,
         \A m \in 1..Len(q) :
           H[m] = IF Contains(H[m - 1], q[m].host)
                    THEN H[m - 1] ELSE Append(H[m - 1], q[m].host)
  PROVE  \A m \in 0..Len(q), host \in JobHosts :
           Contains(H[m], host) <=> \E i \in 1..m : q[i].host = host
<1> DEFINE n == Len(q)
           Seen(m) == \A host \in JobHosts :
                        Contains(H[m], host) <=> \E i \in 1..m : q[i].host = host
           T == {m \in Nat : m <= n => Seen(m)}
<1>1. n \in Nat
  OBVIOUS
<1>2. 0 \in T
  <2>1. Len(H[0]) = 0 /\ 1..0 = {}
    OBVIOUS
  <2>2. Seen(0)
    BY <2>1 DEF Contains
  <2> HIDE DEF Seen
  <2> QED
    BY <2>2
<1>3. ASSUME NEW m \in T
      PROVE  m + 1 \in T
  <2> SUFFICES ASSUME m + 1 <= n PROVE Seen(m + 1)
    OBVIOUS
  <2> DEFINE h == q[m + 1].host
             u == H[m]
             v == H[m + 1]
  <2>1. m \in Nat /\ m + 1 \in 1..n /\ (m + 1) - 1 = m /\ Seen(m)
    OBVIOUS
  <2>2. /\ u \in Seq(JobHosts) /\ h \in JobHosts
        /\ v = IF Contains(u, h) THEN u ELSE Append(u, h)
    <3>1. u \in Seq(JobHosts) /\ q[m + 1] \in Job
      BY <2>1
    <3>2. v = IF Contains(u, h) THEN u ELSE Append(u, h)
      BY <2>1
    <3> QED
      BY <3>1, <3>2 DEF Job, JobHosts
  <2>3. \A x : Contains(v, x) <=> Contains(u, x) \/ x = h
    <3> HIDE DEF h, u, v
    <3>1. CASE Contains(u, h)
      BY <2>2, <3>1
    <3>2. CASE ~Contains(u, h)
      <4>1. /\ v = Append(u, h) /\ Len(v) = Len(u) + 1 /\ Len(u) \in Nat
            /\ v[Len(u) + 1] = h
            /\ \A i \in 1..Len(u) : v[i] = u[i]
        BY <2>2, <3>2
      <4>2. 1..Len(v) = (1..Len(u)) \cup {Len(u) + 1}
        BY <4>1
      <4> QED
        BY <4>1, <4>2 DEF Contains
    <3> QED
      BY <3>1, <3>2
  <2>4. 1..(m + 1) = (1..m) \cup {m + 1}
    BY <2>1
  <2> HIDE DEF u, v
  <2>5. \A host \in JobHosts : Contains(u, host) <=> \E i \in 1..m : q[i].host = host
    BY <2>1 DEF u
  <2>6. \A host \in JobHosts :
          Contains(v, host) <=> \E i \in 1..(m + 1) : q[i].host = host
    BY <2>3, <2>4, <2>5
  <2> QED
    BY <2>6 DEF v
<1>4. T = Nat
  <2>1. T \in SUBSET Nat
    OBVIOUS
  <2> HIDE DEF T
  <2> QED
    BY <2>1, <1>2, <1>3, NatSetInduction
<1>5. \A m \in 0..n : Seen(m)
  <2> HIDE DEF Seen
  <2> QED
    BY <1>1, <1>4
<1> QED
  BY <1>5

\* The hosts of the YAML are those of the indices where one is first met.
LEMMA UniqueHostsLists ==
  ASSUME NEW q \in Seq(Job)
  PROVE  /\ UniqueHosts(q) \in Seq(JobHosts)
         /\ \E p : Lists(UniqueHosts(q), HostOf(q), Firsts(q), p)
<1> DEFINE n == Len(q)
           W == Firsts(q)
           E == HostOf(q)
<1>1. PICK H \in [0..n -> Seq(JobHosts)] :
        /\ H[0] = <<>>
        /\ H[n] = UniqueHosts(q)
        /\ \A m \in 1..n : H[m] = IF Contains(H[m - 1], q[m].host)
                                    THEN H[m - 1]
                                    ELSE Append(H[m - 1], q[m].host)
  BY UniqueHostsLoop
<1>2. \A m \in 0..n, host \in JobHosts :
        Contains(H[m], host) <=> \E i \in 1..m : q[i].host = host
  BY <1>1, HostsSeen
<1>3. n \in Nat /\ W \in SUBSET (1..n) /\ \A m \in 1..n : q[m].host \in JobHosts
  <2>1. n \in Nat /\ \A m \in 1..n : q[m] \in Job
    OBVIOUS
  <2> QED
    BY <2>1 DEF Firsts, Job, JobHosts
<1>4. \A m \in W : E[m] \in JobHosts
  BY <1>3 DEF HostOf
<1>5. ASSUME NEW m \in 1..n
      PROVE  H[m] = IF m \in W THEN Append(H[m - 1], E[m]) ELSE H[m - 1]
  <2>1. m - 1 \in 0..n
    BY <1>3
  <2>2. Contains(H[m - 1], q[m].host) <=> m \notin W
    BY <1>2, <1>3, <2>1 DEF Firsts
  <2>3. E[m] = q[m].host
    BY DEF HostOf
  <2> QED
    BY <1>1, <2>2, <2>3
<1>6. H[n] \in Seq(JobHosts)
  BY <1>3
<1> HIDE DEF n, W, E
<1>7. \E p : Lists(H[n], E, W, p)
  BY <1>1, <1>3, <1>4, <1>5, FilterLoop
<1> QED
  BY <1>1, <1>6, <1>7 DEF n, W, E

\* The jobs of a host in the YAML are those of its indices.
LEMMA JobsOfLists ==
  ASSUME NEW q \in Seq(Job), Convertible(q), NEW host
  PROVE  /\ JobsOf(q, host) \in Seq(Entries)
         /\ \E p : Lists(JobsOf(q, host), EntryOf(q), OfHost(q, host), p)
<1> DEFINE n == Len(q)
           W == OfHost(q, host)
           E == EntryOf(q)
<1>1. PICK H \in [0..n -> Seq(Entries)] :
        /\ H[0] = <<>>
        /\ H[n] = JobsOf(q, host)
        /\ \A m \in 1..n : H[m] = IF q[m].host = host
                                    THEN Append(H[m - 1], Entry(q[m]))
                                    ELSE H[m - 1]
  BY JobsOfLoop
<1>2. n \in Nat /\ W \in SUBSET (1..n)
  BY DEF OfHost
<1>3. \A m \in W : E[m] \in Entries
  BY <1>2, EntryType DEF EntryOf, Convertible
<1>4. \A m \in 1..n : H[m] = IF m \in W THEN Append(H[m - 1], E[m])
                                        ELSE H[m - 1]
  BY <1>1 DEF OfHost, EntryOf
<1>5. H[n] \in Seq(Entries)
  BY <1>2
<1> HIDE DEF n, W, E
<1>6. \E p : Lists(H[n], E, W, p)
  BY <1>1, <1>2, <1>3, <1>4, FilterLoop
<1> QED
  BY <1>1, <1>5, <1>6 DEF n, W, E

-----------------------------------------------------------------------------
\* The YAML is that of the queue.
QueueInv ==
  /\ listed \in Seq(ListedJob)
  /\ queue = None \/ queue \in Seq(Job \cup {None})
  /\ yaml # None => /\ queue \in Seq(Job) /\ Convertible(queue)
                    /\ yaml = ConvertQueueToYAML(queue)
  /\ build = None \/ build \in Build

\* The YAML of nothing is nothing.
LEMMA EmptyQueue ==
  /\ <<>> \in Seq(Job) /\ <<>> \in Seq(Job \cup {None}) /\ Convertible(<<>>)
  /\ ConvertQueueToYAML(<<>>) = <<>>
<1>1. /\ <<>> \in Seq(Job) /\ <<>> \in Seq(Job \cup {None})
      /\ Len(<<>>) = 0 /\ DOMAIN <<>> = {}
  OBVIOUS
<1>2. UniqueHosts(<<>>) = <<>>
  BY <1>1, UniqueHostsLoop
<1>3. [k \in {} |-> [host |-> HostText(<<>>[k]), jobs |-> JobsOf(<<>>, <<>>[k])]]
        = <<>>
  OBVIOUS
<1> QED
  BY <1>1, <1>2, <1>3 DEF Convertible, ConvertQueueToYAML, Groups

\* Sequences up to a length are sequences.
LEMMA SeqOfIsSeq ==
  ASSUME NEW S, NEW n \in Nat, NEW s \in SeqOf(S, n)
  PROVE  s \in Seq(S)
<1>1. PICK m \in 0..n : s \in [1..m -> S]
  BY DEF SeqOf
<1> QED
  BY <1>1, SeqDef

\* An answer is that of its request.
LEMMA QueuePreserved == QueueInv /\ [Next]_queueVars => QueueInv'
<1> SUFFICES ASSUME QueueInv, [Next]_queueVars PROVE QueueInv'
  OBVIOUS
<1> USE DEF QueueInv
<1>1. ASSUME listed' \in Seq(ListedJob), build' = None \/ build' \in Build,
             queue' = <<>>, yaml' = <<>>
      PROVE  QueueInv'
  BY <1>1, EmptyQueue
<1>2. CASE GetJobs
  <2>1. PICK jobs \in SeqOf(JenkinsJob, MaxListed) :
          /\ listed' = [i \in DOMAIN jobs |-> Summary(jobs[i])]
          /\ Answer(<<>>, <<>>, None)
    BY <1>2 DEF GetJobs
  <2>2. jobs \in Seq(JenkinsJob)
    BY QueueAssumption, SeqOfIsSeq
  <2>3. Len(jobs) \in Nat /\ \A i \in 1..Len(jobs) : jobs[i] \in JenkinsJob
    BY <2>2
  <2>4. \A i \in 1..Len(jobs) : Summary(jobs[i]) \in ListedJob
    BY <2>3 DEF Summary, JenkinsJob, ListedJob
  <2>5. listed' \in [1..Len(jobs) -> ListedJob]
    BY <2>1, <2>2, <2>4
  <2>6. listed' \in Seq(ListedJob)
    BY <2>3, <2>5, SeqDef
  <2> QED
    BY <1>1, <2>1, <2>6 DEF Answer
<1>3. CASE GetJobsFails
  BY <1>1, <1>3, EmptyQueue DEF GetJobsFails, Answer
<1>4. CASE GetBuildData
  <2>1. PICK name \in Names, text \in DOMAIN Numbered :
          /\ BuildNumber(text) # None
          /\ Answer(<<>>, <<>>, [host |-> JenkinsUrl, name |-> name,
                                number |-> BuildNumber(text)])
          /\ UNCHANGED listed
    BY <1>4 DEF GetBuildData
  <2>2. BuildNumber(text) \in Range(Numbered) \ {None}
    BY <2>1 DEF BuildNumber, Range
  <2>3. build' \in Build
    BY <2>1, <2>2 DEF Answer, Build
  <2> QED
    BY <1>1, <2>1, <2>3 DEF Answer
<1>5. CASE GetBuildDataFails
  BY <1>1, <1>5 DEF GetBuildDataFails, Answer
<1>6. ASSUME NEW body \in Bodies
      PROVE  /\ body \in Seq(Job \cup {None})
             /\ Convertible(body) => body \in Seq(Job)
  <2>1. ToSet(listed) \cup Foreign \cup {None} \subseteq Job \cup {None}
    <3>1. ListedJob \subseteq Job
      BY DEF ListedJob, Job, Hosts
    <3>2. ToSet(listed) \subseteq ListedJob
      BY DEF ToSet
    <3> QED
      BY <3>1, <3>2, QueueAssumption
  <2>2. body \in Seq(ToSet(listed) \cup Foreign \cup {None})
    BY QueueAssumption, SeqOfIsSeq DEF Bodies
  <2> HIDE DEF QueueInv
  <2>3. body \in Seq(Job \cup {None})
    BY <2>1, <2>2, SeqMonotonic
  <2>4. ASSUME Convertible(body)
        PROVE  body \in Seq(Job)
    <3>1. /\ Len(body) \in Nat /\ DOMAIN body = 1..Len(body)
          /\ body = [i \in 1..Len(body) |-> body[i]]
          /\ \A i \in 1..Len(body) : body[i] \in Job \cup {None}
      BY <2>3
    <3>2. \A i \in 1..Len(body) : body[i] \in Job
      BY <2>4, <3>1 DEF Convertible
    <3>3. body \in [1..Len(body) -> Job]
      BY <3>1, <3>2
    <3> QED
      BY <3>1, <3>3, SeqDef
  <2> QED
    BY <2>3, <2>4
<1>7. CASE AsYaml
  BY <1>6, <1>7 DEF AsYaml, Answer
<1>8. CASE AsYamlFails
  BY <1>6, <1>8 DEF AsYamlFails, Answer
<1>9. CASE UNCHANGED queueVars
  BY <1>9 DEF queueVars
<1> QED
  BY <1>2, <1>3, <1>4, <1>5, <1>7, <1>8, <1>9 DEF Next

\* Whatever is listed, read and queued, the last answer is that of its request.
LEMMA QueueInvariance == QueueSpec => []QueueInv
<1>1. Init => QueueInv
  BY EmptyQueue DEF Init, QueueInv
<1> QED
  BY <1>1, QueuePreserved, PTL DEF QueueSpec

-----------------------------------------------------------------------------
\* The k-th host of the YAML is that of the k-th index where one is first met;
\* none occurs twice.
LEMMA HostsInOrder ==
  ASSUME NEW q \in Seq(Job)
  PROVE  /\ UniqueHosts(q) \in Seq(JobHosts)
         /\ \E p \in [1..Len(UniqueHosts(q)) -> Firsts(q)] :
              /\ \A k, l \in 1..Len(UniqueHosts(q)) : k < l => p[k] < p[l]
              /\ \A w \in Firsts(q) : \E k \in 1..Len(UniqueHosts(q)) : p[k] = w
              /\ \A k \in 1..Len(UniqueHosts(q)) :
                   UniqueHosts(q)[k] = q[p[k]].host
         /\ \A k, l \in 1..Len(UniqueHosts(q)) :
              UniqueHosts(q)[k] = UniqueHosts(q)[l] => k = l
<1> DEFINE u == UniqueHosts(q)
           n == Len(u)
<1>1. u \in Seq(JobHosts) /\ n \in Nat
  BY UniqueHostsLists
<1>2. PICK p : Lists(u, HostOf(q), Firsts(q), p)
  BY UniqueHostsLists
<1>3. Firsts(q) \subseteq 1..Len(q) /\ Len(q) \in Nat
  BY DEF Firsts
<1> HIDE DEF u
<1>4. /\ p \in [1..n -> Firsts(q)]
      /\ \A k, l \in 1..n : k < l => p[k] < p[l]
      /\ \A w \in Firsts(q) : \E k \in 1..n : p[k] = w
      /\ \A k \in 1..n : u[k] = HostOf(q)[p[k]]
  BY <1>2 DEF Lists, IsOrder
<1> HIDE DEF n
<1>5. \A k \in 1..n : p[k] \in Firsts(q) /\ u[k] = q[p[k]].host
  BY <1>3, <1>4 DEF HostOf
<1>6. ASSUME NEW k \in 1..n, NEW l \in 1..n, k < l
      PROVE  u[k] # u[l]
  <2>1. p[k] < p[l] /\ p[k] \in 1..Len(q) /\ p[l] \in 1..Len(q)
    BY <1>3, <1>4, <1>5, <1>6
  <2>2. p[k] \in 1..(p[l] - 1)
    BY <1>3, <2>1
  <2> QED
    BY <1>5, <2>2 DEF Firsts
<1>7. \A k, l \in 1..n : u[k] = u[l] => k = l
  <2> SUFFICES ASSUME NEW k \in 1..n, NEW l \in 1..n, k # l PROVE u[k] # u[l]
    OBVIOUS
  <2>1. k < l \/ l < k
    BY <1>1
  <2> QED
    BY <1>6, <2>1
<1> QED
  BY <1>1, <1>4, <1>5, <1>7, Zenon DEF u, n

\* The jobs of a host are those of its indices, in their order.
LEMMA JobsInOrder ==
  ASSUME NEW q \in Seq(Job), Convertible(q), NEW host
  PROVE  /\ JobsOf(q, host) \in Seq(Entries)
         /\ \E p \in [1..Len(JobsOf(q, host)) -> OfHost(q, host)] :
              /\ \A k, l \in 1..Len(JobsOf(q, host)) : k < l => p[k] < p[l]
              /\ \A w \in OfHost(q, host) :
                   \E k \in 1..Len(JobsOf(q, host)) : p[k] = w
              /\ \A k \in 1..Len(JobsOf(q, host)) :
                   JobsOf(q, host)[k] = Entry(q[p[k]])
<1> DEFINE u == JobsOf(q, host)
           n == Len(u)
<1>1. u \in Seq(Entries) /\ n \in Nat
  BY JobsOfLists
<1>2. PICK p : Lists(u, EntryOf(q), OfHost(q, host), p)
  BY JobsOfLists
<1>3. OfHost(q, host) \subseteq 1..Len(q)
  BY DEF OfHost
<1> HIDE DEF u
<1>4. /\ p \in [1..n -> OfHost(q, host)]
      /\ \A k, l \in 1..n : k < l => p[k] < p[l]
      /\ \A w \in OfHost(q, host) : \E k \in 1..n : p[k] = w
      /\ \A k \in 1..n : u[k] = EntryOf(q)[p[k]]
  BY <1>2 DEF Lists, IsOrder
<1> HIDE DEF n
<1>5. \A k \in 1..n : u[k] = Entry(q[p[k]])
  BY <1>3, <1>4 DEF EntryOf
<1> QED
  BY <1>1, <1>4, <1>5, Zenon DEF u, n

\* Each index has one where its host is first met, and that is FirstOfHost.
LEMMA FirstIsFirst ==
  ASSUME queue \in Seq(Job), NEW i \in 1..Len(queue)
  PROVE  /\ FirstOfHost(i) \in Firsts(queue)
         /\ queue[FirstOfHost(i)].host = queue[i].host
         /\ \A w \in Firsts(queue) :
              queue[w].host = queue[i].host => w = FirstOfHost(i)
<1> DEFINE First(j) == /\ queue[j].host = queue[i].host
                       /\ \A k \in 1..(j - 1) : queue[k].host # queue[i].host
           T == {j \in 1..Len(queue) : queue[j].host = queue[i].host}
<1>1. Len(queue) \in Nat
  OBVIOUS
<1>2. PICK w \in T : \A j \in T : w <= j
  <2>1. T \in SUBSET Nat /\ i \in T
    OBVIOUS
  <2> HIDE DEF T
  <2> QED
    BY <2>1, LeastNatural
<1>3. w \in 1..i /\ First(w)
  BY <1>1, <1>2
<1>4. FirstOfHost(i) = CHOOSE j \in 1..i : First(j)
  BY DEF FirstOfHost
<1> DEFINE f == CHOOSE j \in 1..i : First(j)
<1>5. f \in 1..i /\ First(f)
  <2> HIDE DEF First
  <2> QED
    BY <1>3
<1> HIDE DEF f
<1>6. f \in Firsts(queue)
  BY <1>1, <1>5 DEF Firsts
<1>7. ASSUME NEW v \in Firsts(queue), queue[v].host = queue[i].host
      PROVE  v = f
  <2>1. v \in 1..Len(queue) /\ First(v)
    BY <1>7 DEF Firsts
  <2>2. ~(v < f) /\ ~(f < v)
    BY <1>1, <1>5, <2>1
  <2> QED
    BY <1>1, <1>5, <2>1, <2>2
<1> QED
  BY <1>4, <1>5, <1>6, <1>7 DEF f

\* The YAML is there, and nothing breaks it.
Grouped ==
  queue \in Seq(Job) /\ Convertible(queue) /\ yaml = Groups(queue)

LEMMA ReadableIsGrouped ==
  ASSUME QueueInv, yaml # None,
         yaml # Unreadable \/ \A i \in DOMAIN queue : ~Breaks(queue[i])
  PROVE  Grouped
  BY DEF QueueInv, Grouped, ConvertQueueToYAML

\* The groups of the YAML, and its places.
LEMMA YamlGroups ==
  ASSUME Grouped
  PROVE  /\ DOMAIN yaml = 1..Len(UniqueHosts(queue))
         /\ \A k \in DOMAIN yaml :
              /\ yaml[k] = [host |-> HostText(UniqueHosts(queue)[k]),
                            jobs |-> JobsOf(queue, UniqueHosts(queue)[k])]
              /\ UniqueHosts(queue)[k] \in JobHosts
              /\ yaml[k].jobs \in Seq(Entries) \ {<<>>}
<1> DEFINE u == UniqueHosts(queue)
<1>1. /\ queue \in Seq(Job) /\ Convertible(queue)
      /\ yaml = [k \in DOMAIN u |->
                   [host |-> HostText(u[k]), jobs |-> JobsOf(queue, u[k])]]
  BY DEF Grouped, Groups
<1>2. u \in Seq(JobHosts)
  BY <1>1, HostsInOrder
<1>3. DOMAIN u = 1..Len(u) /\ \A k \in 1..Len(u) : u[k] \in JobHosts
  BY <1>2
<1>4. ASSUME NEW k \in 1..Len(u)
      PROVE  JobsOf(queue, u[k]) \in Seq(Entries) \ {<<>>}
  <2>1. PICK p \in [1..Len(u) -> Firsts(queue)] :
          \A l \in 1..Len(u) : u[l] = queue[p[l]].host
    BY <1>1, HostsInOrder
  <2>2. p[k] \in OfHost(queue, u[k])
    BY <2>1 DEF OfHost, Firsts
  <2>3. \E j \in 1..Len(JobsOf(queue, u[k])) : TRUE
    BY <1>1, <2>2, JobsInOrder
  <2>4. Len(<<>>) = 0 /\ 1..0 = {}
    OBVIOUS
  <2>5. JobsOf(queue, u[k]) # <<>>
    BY <2>3, <2>4
  <2> QED
    BY <1>1, <2>5, JobsInOrder
<1> QED
  BY <1>1, <1>3, <1>4

\* A place is a group and a job of it.
LEMMA YamlPlaces ==
  ASSUME Grouped
  PROVE  \A p : p \in Places <=>
           /\ p = <<p[1], p[2]>>
           /\ p[1] \in DOMAIN yaml
           /\ p[2] \in 1..Len(yaml[p[1]].jobs)
<1>1. \A k \in DOMAIN yaml : DOMAIN yaml[k].jobs = 1..Len(yaml[k].jobs)
  BY YamlGroups
<1> QED
  BY <1>1 DEF Places

\* Hosts that differ are written differently.
LEMMA HostTextInjective ==
  \A host, other \in JobHosts : HostText(host) = HostText(other) => host = other
  BY QueueAssumption DEF HostText, JobHosts

\* The YAML of any queue lists the jobs host by host, as YamlIsQueueByHost says.
LEMMA YamlIsSorted ==
  ASSUME Grouped
  PROVE  /\ IsInjective([k \in DOMAIN yaml |-> yaml[k].host])
         /\ \E job \in Bijection(Places, DOMAIN queue) :
              \A p, r \in Places :
                /\ HostText(queue[job[p]].host) = yaml[p[1]].host
                /\ Entry(queue[job[p]]) = EntryAt(p)
                /\ Above(p, r) => Before(job[p], job[r])
<1> DEFINE u == UniqueHosts(queue)
           n == Len(u)
           Jobs(k) == JobsOf(queue, u[k])
           Orders(k, f) ==
             /\ f \in [1..Len(Jobs(k)) -> OfHost(queue, u[k])]
             /\ \A i, j \in 1..Len(Jobs(k)) : i < j => f[i] < f[j]
             /\ \A w \in OfHost(queue, u[k]) :
                  \E j \in 1..Len(Jobs(k)) : f[j] = w
             /\ \A j \in 1..Len(Jobs(k)) : Jobs(k)[j] = Entry(queue[f[j]])
           order == [k \in 1..n |-> CHOOSE f : Orders(k, f)]
           job == [p \in Places |-> order[p[1]][p[2]]]
<1>1. queue \in Seq(Job) /\ Convertible(queue)
  BY DEF Grouped
<1>2. n \in Nat /\ DOMAIN queue = 1..Len(queue) /\ Len(queue) \in Nat
  BY <1>1, HostsInOrder
<1>3. /\ DOMAIN yaml = 1..n
      /\ \A k \in 1..n : /\ yaml[k].host = HostText(u[k]) /\ u[k] \in JobHosts
                         /\ yaml[k].jobs = Jobs(k)
  BY YamlGroups
<1>4. PICK first \in [1..n -> Firsts(queue)] :
        /\ \A k, l \in 1..n : k < l => first[k] < first[l]
        /\ \A w \in Firsts(queue) : \E k \in 1..n : first[k] = w
        /\ \A k \in 1..n : u[k] = queue[first[k]].host
  BY <1>1, HostsInOrder
<1>5. \A k, l \in 1..n : u[k] = u[l] => k = l
  BY <1>1, HostsInOrder
<1>6. \A k \in 1..n : Orders(k, order[k])
  <2> SUFFICES ASSUME NEW k \in 1..n PROVE \E f : Orders(k, f)
    BY Zenon
  <2> HIDE DEF order
  <2> QED
    BY <1>1, JobsInOrder, SMTT(30)
<1>7. \A w \in 1..Len(queue), k \in 1..n :
        w \in OfHost(queue, u[k]) <=> queue[w].host = u[k]
  BY DEF OfHost
<1>8. \A k \in 1..n : OfHost(queue, u[k]) \subseteq 1..Len(queue)
  BY DEF OfHost
<1> HIDE DEF u, n, Jobs, order
<1>9. ASSUME NEW p \in Places
      PROVE  /\ p[1] \in 1..n /\ p[2] \in 1..Len(Jobs(p[1]))
             /\ p = <<p[1], p[2]>>
             /\ job[p] = order[p[1]][p[2]]
             /\ job[p] \in 1..Len(queue) /\ job[p] \in OfHost(queue, u[p[1]])
             /\ queue[job[p]].host = u[p[1]]
             /\ Jobs(p[1])[p[2]] = Entry(queue[job[p]])
  <2>1. p = <<p[1], p[2]>> /\ p[1] \in 1..n /\ p[2] \in 1..Len(Jobs(p[1]))
    BY <1>3, YamlPlaces
  <2>2. job[p] = order[p[1]][p[2]]
    OBVIOUS
  <2>3. /\ job[p] \in OfHost(queue, u[p[1]])
        /\ Jobs(p[1])[p[2]] = Entry(queue[job[p]])
    BY <1>6, <2>1, <2>2
  <2> QED
    BY <1>7, <1>8, <2>1, <2>2, <2>3
<1>10. job \in [Places -> DOMAIN queue]
  BY <1>2, <1>9
<1>11. ASSUME NEW p \in Places, NEW r \in Places, job[p] = job[r]
       PROVE  p = r
  <2>1. p[1] = r[1]
    BY <1>5, <1>9, <1>11
  <2>2. /\ p[2] \in 1..Len(Jobs(p[1])) /\ r[2] \in 1..Len(Jobs(p[1]))
        /\ order[p[1]][p[2]] = order[p[1]][r[2]]
        /\ order[p[1]][p[2]] \in 1..Len(queue)
    BY <1>9, <1>11, <2>1
  <2>3. ~(p[2] < r[2]) /\ ~(r[2] < p[2])
    BY <1>2, <1>6, <1>9, <2>2
  <2>4. p[2] = r[2]
    BY <2>2, <2>3
  <2> QED
    BY <1>9, <2>1, <2>4
<1>12. ASSUME NEW i \in DOMAIN queue
       PROVE  \E p \in Places : job[p] = i
  <2>1. /\ FirstOfHost(i) \in Firsts(queue)
        /\ queue[FirstOfHost(i)].host = queue[i].host
    BY <1>1, <1>2, FirstIsFirst
  <2>2. PICK k \in 1..n : u[k] = queue[i].host
    BY <1>4, <2>1
  <2>3. i \in OfHost(queue, u[k])
    BY <1>2, <1>7, <2>2
  <2>4. PICK j \in 1..Len(Jobs(k)) : order[k][j] = i
    BY <1>6, <2>3
  <2>5. <<k, j>> \in Places
    BY <1>3, YamlPlaces
  <2>6. job[<<k, j>>] = i
    BY <2>4, <2>5
  <2> HIDE DEF job
  <2> QED
    BY <2>5, <2>6
<1>13. ASSUME NEW p \in Places
       PROVE  FirstOfHost(job[p]) = first[p[1]]
  <2>1. job[p] \in 1..Len(queue) /\ p[1] \in 1..n
        /\ queue[job[p]].host = u[p[1]]
    BY <1>9
  <2>2. first[p[1]] \in Firsts(queue)
        /\ queue[first[p[1]]].host = queue[job[p]].host
    BY <1>4, <2>1
  <2> HIDE DEF job
  <2> QED
    BY <1>1, <2>1, <2>2, FirstIsFirst
<1>14. ASSUME NEW p \in Places, NEW r \in Places, Above(p, r)
       PROVE  Before(job[p], job[r])
  <2>1. CASE p[1] < r[1]
    BY <1>4, <1>9, <1>13, <2>1 DEF Before
  <2>2. CASE p[1] = r[1] /\ p[2] < r[2]
    <3>1. job[p] < job[r]
      BY <1>6, <1>9, <2>2
    <3> QED
      BY <1>13, <2>2, <3>1 DEF Before
  <2> QED
    BY <1>14, <2>1, <2>2 DEF Above
<1> HIDE DEF job
<1>15. job \in Bijection(Places, DOMAIN queue)
  BY <1>10, <1>11, <1>12
     DEF Bijection, Injection, Surjection, IsInjective
<1>16. \A p \in Places : /\ HostText(queue[job[p]].host) = yaml[p[1]].host
                         /\ Entry(queue[job[p]]) = EntryAt(p)
  BY <1>3, <1>9 DEF EntryAt
<1>17. IsInjective([k \in DOMAIN yaml |-> yaml[k].host])
  <2>1. \A k \in 1..n : yaml[k].host = HostText(u[k]) /\ u[k] \in JobHosts
    BY <1>3
  <2>2. \A k, l \in 1..n : yaml[k].host = yaml[l].host => k = l
    BY <2>1, <1>5, HostTextInjective
  <2> QED
    BY <1>3, <2>2 DEF IsInjective
<1>18. \A p, r \in Places : /\ HostText(queue[job[p]].host) = yaml[p[1]].host
                            /\ Entry(queue[job[p]]) = EntryAt(p)
                            /\ Above(p, r) => Before(job[p], job[r])
  BY <1>14, <1>16
<1> QED
  BY <1>15, <1>17, <1>18

\* The YAML of a queue of any length over any addresses is the queue sorted by
\* host: no job is lost, repeated or put under another host.
THEOREM YamlsAreQueuesByHost == QueueSpec => []YamlIsQueueByHost
<1>1. QueueInv => YamlIsQueueByHost
  <2> SUFFICES ASSUME QueueInv, yaml \notin {None, Unreadable}
               PROVE  YamlIsQueueByHost
    BY DEF YamlIsQueueByHost
  <2>1. Grouped
    BY ReadableIsGrouped
  <2> QED
    BY <2>1, YamlIsSorted DEF YamlIsQueueByHost
<1> QED
  BY <1>1, QueueInvariance, PTL

\* Every list, body, YAML and build has its shape.
THEOREM JobQueueTypes == QueueSpec => []JobQueueTypeOK
<1>1. QueueInv => JobQueueTypeOK
  <2> SUFFICES ASSUME QueueInv, yaml \notin {None, Unreadable}
               PROVE  yaml \in Seq(Group)
    BY DEF QueueInv, JobQueueTypeOK
  <2>0. Grouped
    BY ReadableIsGrouped
  <2>1. ASSUME NEW k \in DOMAIN yaml
        PROVE  yaml[k] \in Group
    <3>1. /\ yaml[k] = [host |-> HostText(UniqueHosts(queue)[k]),
                        jobs |-> JobsOf(queue, UniqueHosts(queue)[k])]
          /\ UniqueHosts(queue)[k] \in JobHosts
          /\ yaml[k].jobs \in Seq(Entries) \ {<<>>}
      BY <2>0, YamlGroups
    <3>2. \A host \in JobHosts, jobs \in Seq(Entries) \ {<<>>} :
            [host |-> HostText(host), jobs |-> jobs] \in Group
      BY DEF Group, Entries, HostText, JobHosts
    <3> QED
      BY <3>1, <3>2
  <2>2. UniqueHosts(queue) \in Seq(JobHosts)
    BY <2>0, HostsInOrder DEF Grouped
  <2>3. /\ Len(UniqueHosts(queue)) \in Nat
        /\ DOMAIN yaml = 1..Len(UniqueHosts(queue))
    BY <2>0, <2>2, YamlGroups
  <2>4. yaml = [k \in DOMAIN yaml |-> yaml[k]]
    BY <2>0 DEF Grouped, Groups
  <2>5. yaml \in [1..Len(UniqueHosts(queue)) -> Group]
    BY <2>1, <2>3, <2>4
  <2> QED
    BY <2>3, <2>5, SeqDef
<1> QED
  BY <1>1, QueueInvariance, PTL

\* A text is what it begins with and the rest.
LEMMA PrefixAndRest ==
  ASSUME NEW P, NEW t \in Seq(P), NEW n \in 0..Len(t)
  PROVE  SubSeq(t, 1, n) \o SubSeq(t, n + 1, Len(t)) = t
<1>1. 1 \in 1..(Len(t) + 1) /\ n \in (1 - 1)..Len(t) /\ Len(t) \in n..Len(t)
  OBVIOUS
<1>2. SubSeq(t, 1, n) \o SubSeq(t, n + 1, Len(t)) = SubSeq(t, 1, Len(t))
  BY <1>1, ConcatAdjacentSubSeq
<1> QED
  BY <1>2, SubSeqFull

\* The entry of a job that can be rebuilt is what is needed for it.
LEMMA EntryRebuilds ==
  ASSUME NEW job \in Job, job.url # None, Rebuildable(job)
  PROVE  /\ Entry(job).name = job.name
         /\ Entry(job).urlEnd # None
         /\ job.host \o Entry(job).urlEnd = job.url
<1> DEFINE host == job.host
           url == job.url
           rest == SubSeq(url, Len(host) + 1, Len(url))
<1>1. /\ host \in Seq(Parts) /\ HostText(host) = host
      /\ url \in Seq(Parts) /\ url \in Urls
  BY Texts DEF Job, JobHosts, HostText, Rebuildable
<1>2. /\ IsPrefix(host, url) /\ host # url
      /\ job.name \notin Altered /\ rest \notin Altered
  BY DEF Rebuildable, IsStrictPrefix
<1>3. Entry(job).name = job.name /\ Entry(job).urlEnd = rest
  BY <1>1, <1>2, PrefixRemoval DEF Entry, Unquoted, UrlEnd
<1>4. Len(host) <= Len(url) /\ SubSeq(url, 1, Len(host)) = host
  <2>1. SubSeq(host, 1, Len(host)) = host
    BY <1>1, SubSeqFull
  <2> QED
    BY <1>2, <2>1 DEF IsPrefix
<1>5. Len(host) < Len(url)
  <2>1. SubSeq(url, 1, Len(url)) = url
    BY <1>1, SubSeqFull
  <2>2. Len(host) # Len(url)
    BY <1>2, <1>4, <2>1
  <2> QED
    BY <1>1, <1>4, <2>2
<1>6. rest # None
  <2>1. Len(host) + 1 \in 1..Len(url)
    BY <1>1, <1>5
  <2>2. rest \in Suffixes(url)
    BY <2>1 DEF Suffixes
  <2> QED
    BY <1>1, <2>2, QueueAssumption
<1>7. host \o rest = url
  <2>1. Len(host) \in 0..Len(url)
    BY <1>1, <1>4
  <2> QED
    BY <1>1, <1>4, <2>1, PrefixAndRest
<1> QED
  BY <1>3, <1>6, <1>7

\* Who reads the YAML of any queue that no text breaks finds the url of every
\* job that lies under its host, whatever else the queue holds and however the
\* addresses contain or begin one another.
THEOREM YamlsRebuildJobs == QueueSpec => []YamlRebuildsJobs
<1>1. QueueInv => YamlRebuildsJobs
  <2> SUFFICES ASSUME QueueInv, yaml # None,
                      \A i \in DOMAIN queue : ~Breaks(queue[i]),
                      NEW i \in DOMAIN queue, Rebuildable(queue[i])
               PROVE  \E p \in Places :
                        /\ yaml[p[1]].host = queue[i].host
                        /\ EntryAt(p).name = queue[i].name
                        /\ EntryAt(p).urlEnd # None
                        /\ yaml[p[1]].host \o EntryAt(p).urlEnd = queue[i].url
    BY DEF YamlRebuildsJobs
  <2>0. Grouped
    BY ReadableIsGrouped
  <2>1. PICK job \in Bijection(Places, DOMAIN queue) : \A p \in Places :
          /\ HostText(queue[job[p]].host) = yaml[p[1]].host
          /\ Entry(queue[job[p]]) = EntryAt(p)
    BY <2>0, YamlIsSorted
  <2>2. PICK p \in Places : job[p] = i
    BY <2>1 DEF Bijection, Surjection
  <2>3. queue[i] \in Job /\ queue[i].url # None
    BY <2>0 DEF Grouped, Convertible
  <2>4. queue[i].host = yaml[p[1]].host /\ Entry(queue[i]) = EntryAt(p)
    BY <2>1, <2>2 DEF HostText, Rebuildable
  <2> QED
    BY <2>3, <2>4, EntryRebuilds
<1> QED
  BY <1>1, QueueInvariance, PTL

=============================================================================
