------------------------------ MODULE JobQueue ------------------------------
(***************************************************************************)
(* The jobs of a Jenkins server and their conversion to YAML: GET /jobs    *)
(* and GET /build of client.service.ts, POST /as-yaml of queue.service.ts. *)
(* The front end lists jobs, reads a build, picks jobs into a queue and    *)
(* has it converted; the body of that request is not validated: it may be  *)
(* no list, and any field of a job may be missing.                         *)
(*                                                                         *)
(* A text is a sequence of parts, as much of it as replace() needs.        *)
(***************************************************************************)
EXTENDS Naturals, SequencesExt, Functions

CONSTANTS
  Names,        \* names of jobs
  Urls,         \* URLs of jobs
  JenkinsUrl,   \* the address of the server the client reads
  Foreign,      \* jobs in a body that GET /jobs did not answer
  Altered,      \* texts that read back as something else once every double
                \* quote is deleted: the empty one, numbers, true, a text
                \* with a quote in it
  Breaking,     \* texts that are no YAML without their quotes, as "{x", "a: b"
                \* and "- x": nothing of a document with one can be read
  Undefined,    \* the text that a missing host is written as
  Numbered,     \* what may stand for a build in a path, and the number it is
  MaxListed,    \* bound on the jobs of the server
  MaxQueue,     \* bound on the jobs of a body
  Unreadable,   \* what a YAML parser makes of a broken document
  None

Hosts == {JenkinsUrl} \cup ({job.host : job \in Foreign} \ {None})

\* What the addresses are made of.
Parts == UNION {ToSet(text) : text \in Hosts \cup Urls \cup {Undefined}}

JenkinsJob == [name : Names, url : Urls]

\* A job that GET /jobs answers.
ListedJob == [host : {JenkinsUrl}, name : Names, url : Urls]

\* A job of a body; None is a field it comes without.
Job == [host : Hosts \cup {None}, name : Names \cup {None},
        url : Urls \cup {None}]

ASSUME QueueAssumption ==
  /\ MaxListed \in Nat
  /\ MaxQueue \in Nat
  /\ \A text \in Hosts \cup Urls \cup {Undefined} : text \in Seq(Parts)
  /\ Foreign \subseteq Job
  /\ Undefined \notin Hosts
  /\ None \notin Names \cup UNION {Suffixes(url) : url \in Urls}

\* What is kept of a build.
Build == [host : {JenkinsUrl}, name : Names, number : Range(Numbered) \ {None}]

VARIABLES
  listed,   \* the last answer of GET /jobs
  queue,    \* the body of POST /as-yaml, if that is the last request; None
            \* is one that is no list, or a job that is no object
  yaml,     \* its answer, as a YAML parser reads it; None is a 500
  build     \* the answer of GET /build, if that is the last request

queueVars == <<listed, queue, yaml, build>>

Init ==
  /\ listed = <<>>
  /\ queue = <<>>
  /\ yaml = <<>>
  /\ build = None

Answer(q, y, b) == queue' = q /\ yaml' = y /\ build' = b

-----------------------------------------------------------------------------
\* Mutation: the job as Jenkins describes it, without a host.
BareJob(job) == [host |-> None, name |-> job.name, url |-> job.url]

\* What the client keeps of a job of Jenkins.
Summary(job) == [host |-> JenkinsUrl, name |-> job.name, url |-> job.url]

GetJobs ==
  \E jobs \in SeqOf(JenkinsJob, MaxListed) :
    /\ listed' = [i \in DOMAIN jobs |-> Summary(jobs[i])]
    /\ Answer(<<>>, <<>>, None)

\* Jenkins does not answer, or with an error: 500, and no list.
GetJobsFails ==
  /\ listed' = <<>>
  /\ Answer(<<>>, <<>>, None)

\* The pipe makes a number of what the path has; of other texts, NaN.
BuildNumber(text) == Numbered[text]

\* The fields of the build that Jenkins has under that name and number.
GetBuildData ==
  \E name \in Names, text \in DOMAIN Numbered :
    /\ BuildNumber(text) # None
    /\ Answer(<<>>, <<>>, [host |-> JenkinsUrl, name |-> name,
                          number |-> BuildNumber(text)])
    /\ UNCHANGED listed

\* Jenkins has no such build (it has none with the number NaN), or no answer.
GetBuildDataFails ==
  /\ Answer(<<>>, <<>>, None)
  /\ UNCHANGED listed

-----------------------------------------------------------------------------
\* Mutation: one group for each job.
EveryHost(q) == [i \in DOMAIN q |-> q[i].host]

\* The Set of the hosts iterates in the order they were first added.
UniqueHosts(q) ==
  FoldLeft(LAMBDA hosts, job :
             IF Contains(hosts, job.host) THEN hosts
                                          ELSE Append(hosts, job.host),
           <<>>, q)

\* Mutation: the address the client reads, whatever the host of the job.
UrlOnServer(job) == ReplaceFirstSubSeq(<<>>, JenkinsUrl, job.url)

\* A host in a template literal, or as an argument of replace().
HostText(host) == IF host = None THEN Undefined ELSE host

\* replace() removes the host where it first occurs, or nothing.
UrlEnd(job) == ReplaceFirstSubSeq(<<>>, HostText(job.host), job.url)

\* stringify quotes a text that would not read back; replaceAll then deletes
\* the quotes.  (The quotes of a host are single ones, and stay.)
Unquoted(text) == IF text \in Altered THEN None ELSE text

\* The quotes are deleted over the whole document: one such text breaks it.
Breaks(job) == job.name \in Breaking \/ UrlEnd(job) \in Breaking

\* stringify leaves a name out that is not there.
Entry(job) == [name |-> Unquoted(job.name), urlEnd |-> Unquoted(UrlEnd(job))]

JobsOf(q, host) ==
  FoldLeft(LAMBDA jobs, job :
             IF job.host = host THEN Append(jobs, Entry(job)) ELSE jobs,
           <<>>, q)

Groups(q) ==
  LET hosts == UniqueHosts(q)
  IN  [k \in DOMAIN hosts |->
         [host |-> HostText(hosts[k]), jobs |-> JobsOf(q, hosts[k])]]

ConvertQueueToYAML(q) ==
  IF \E i \in DOMAIN q : Breaks(q[i]) THEN Unreadable ELSE Groups(q)

\* map() reads the host of each job, replace() is called on its url.
Convertible(q) == \A i \in DOMAIN q : q[i] # None /\ q[i].url # None

Bodies == SeqOf(ToSet(listed) \cup Foreign \cup {None}, MaxQueue)

AsYaml ==
  \E body \in Bodies :
    /\ Convertible(body)
    /\ Answer(body, ConvertQueueToYAML(body), None)
    /\ UNCHANGED listed

\* A job, or its url, is not there, or the body is no list and has no map():
\* the handler throws, and no job of the body is answered.
AsYamlFails ==
  /\ \/ \E body \in Bodies : ~Convertible(body) /\ Answer(body, None, None)
     \/ Answer(None, None, None)
  /\ UNCHANGED listed

Next ==
  \/ GetJobs
  \/ GetJobsFails
  \/ GetBuildData
  \/ GetBuildDataFails
  \/ AsYaml
  \/ AsYamlFails

QueueSpec == Init /\ [][Next]_queueVars

-----------------------------------------------------------------------------
Group == [host : Hosts \cup {Undefined},
          jobs : Seq([name : {None} \cup Names,
                      urlEnd : {None} \cup Seq(Parts)])
                   \ {<<>>}]

\* Every answer has its shape: each host of the YAML lists jobs.
JobQueueTypeOK ==
  /\ listed \in Seq(ListedJob)
  /\ queue = None \/ queue \in Seq(Job \cup {None})
  /\ yaml \in {None, Unreadable} \/ yaml \in Seq(Group)
  /\ build = None \/ build \in Build

-----------------------------------------------------------------------------
\* The places of the YAML where a job stands, one above the other.
Places == UNION {{k} \X DOMAIN yaml[k].jobs : k \in DOMAIN yaml}

Above(p, r) == p[1] < r[1] \/ (p[1] = r[1] /\ p[2] < r[2])

EntryAt(p) == yaml[p[1]].jobs[p[2]]

\* Where the host of the i-th job is first met in the queue.
FirstOfHost(i) ==
  CHOOSE j \in 1..i : /\ queue[j].host = queue[i].host
                      /\ \A k \in 1..(j - 1) : queue[k].host # queue[i].host

\* The i-th job is to be written before the j-th.
Before(i, j) ==
  \/ FirstOfHost(i) < FirstOfHost(j)
  \/ FirstOfHost(i) = FirstOfHost(j) /\ i < j

\* A YAML of convertQueueToYAML that can be read is the queue sorted by host,
\* hosts in the order they first occur and the jobs of a host in theirs: no job
\* is lost, repeated or put under another host, and no host occurs twice.  Jobs
\* without a host are listed together.
YamlIsQueueByHost ==
  yaml \notin {None, Unreadable} =>
    /\ IsInjective([k \in DOMAIN yaml |-> yaml[k].host])
    /\ \E job \in Bijection(Places, DOMAIN queue) : \A p, r \in Places :
         /\ HostText(queue[job[p]].host) = yaml[p[1]].host
         /\ Entry(queue[job[p]]) = EntryAt(p)
         /\ Above(p, r) => Before(job[p], job[r])

\* A job whose url lies under its host, and whose name and rest of the url need
\* no quotes.
Rebuildable(job) ==
  /\ job.host # None /\ job.name # None
  /\ job.name \notin Altered
  /\ IsStrictPrefix(job.host, job.url)
  /\ SubSeq(job.url, Len(job.host) + 1, Len(job.url)) \notin Altered

\* Who reads the YAML of convertQueueToYAML for a queue where no text of any job
\* breaks the document finds every such job, whatever else is queued with it:
\* the host with the urlEnd after it is its url, also when the url holds the
\* host again or the host begins with another one.
YamlRebuildsJobs ==
  yaml # None /\ (\A i \in DOMAIN queue : ~Breaks(queue[i])) =>
    \A i \in DOMAIN queue : Rebuildable(queue[i]) =>
      \E p \in Places :
        /\ yaml[p[1]].host = queue[i].host
        /\ EntryAt(p).name = queue[i].name
        /\ EntryAt(p).urlEnd # None
        /\ yaml[p[1]].host \o EntryAt(p).urlEnd = queue[i].url

=============================================================================
