------------------------------- MODULE Archive -------------------------------
(***************************************************************************)
(* Offline archives (archive.cpp, archive_tasks.cpp): a package export is a *)
(* task of a transaction whose jobs compress files one after the other; an  *)
(* import reads the table of contents, replaces repositories and indexes at *)
(* once and leaves the packages to install tasks that extract their files.  *)
(*                                                                          *)
(* The transaction is reduced to its queues and to what its tasks do to the *)
(* registry and the files, see Transaction for the rest.  The files of a    *)
(* package are one here, and its content tells the version.                 *)
(***************************************************************************)
EXTENDS RemoteList

CONSTANTS
  Self,        \* the protected remote, "ReaPack"
  Keys,        \* category and name of packages, the same in every repository
  Versions,    \* versions of a package
  NoVersion,   \* of what is not installed
  Flags,       \* flags of an installed package
  NoFlags,     \* of one that is not pinned
  Computers,   \* what the program starts from
  MaxCommands  \* what the user does (a bound)

Package == Names \X Keys

\* A file of the cache: it may be missing or broken.
NoIndex == [state |-> "missing", lists |-> {}]
Broken == [state |-> "broken", lists |-> {}]
IndexFile == {NoIndex, Broken} \union [state : {"good"}, lists : SUBSET (Keys \X Versions)]

NotInstalled == [version |-> NoVersion, flags |-> NoFlags]
Installed(e) == e.version # NoVersion
RegistryEntry == {NotInstalled} \union [version : Versions, flags : Flags]

\* remotes, cache and registry; the files on the disk are those of the registry.
Computer == [remotes : Seq(Remote), cache : [Names -> IndexFile], registry : [Package -> RegistryEntry]]

ASSUME ArchiveAssumption ==
  /\ Computers \subseteq Computer
  /\ \A c \in Computers : \E i \in DOMAIN c.remotes : c.remotes[i].name = Self
  /\ NoVersion \notin Versions /\ NoFlags \in Flags
  /\ IsFiniteSet(Keys) /\ MaxCommands \in Nat

VARIABLES
  list,      \* config()->remotes
  cache,     \* index files
  registry,  \* Registry::Entry of each package
  disk,      \* version of the file of each package
  open,      \* a transaction exists
  queues,    \* m_taskQueues: the tasks of each command
  active,    \* m_runningTasks
  jobs,      \* jobs of compressors and extractors, all of one worker
  failed,    \* active installs with a job that failed
  cancelled, \* m_isCancelled
  receipt,   \* errors of the transaction: [at |-> what they are about]
  temp,      \* the archive being written, {} for none
  zip,       \* the archive at its permanent location, {} for none
  imported,  \* history: what this transaction imported, {} for nothing
  touched,   \* history: packages of which the user asked something else in it
  commands   \* given so far (a bound)

computer == <<list, cache, registry, disk>>
tasks == <<open, queues, active, jobs, failed, cancelled, temp>>
history == <<imported, touched>>
vars == <<computer, tasks, receipt, zip, history, commands>>

-----------------------------------------------------------------------------
(* Lines of the table of contents *)

Repo(remote) == [type |-> "R", remote |-> remote]
Pack(key, e) == [type |-> "P", key |-> key, version |-> e.version, flags |-> e.flags]

KeysOf(reg, name) == SetToSeq({k \in Keys : Installed(reg[<<name, k>>])})

\* The lines of one repository, none when nothing of it is installed.
Section(reg, remote) ==
  LET keys == KeysOf(reg, remote.name)
  IN IF keys = <<>> THEN <<>>
     ELSE <<Repo(remote)>> \o [i \in DOMAIN keys |-> Pack(keys[i], reg[<<remote.name, keys[i]>>])]

TableOf(reg) ==
  FlattenSeq([i \in DOMAIN list.remotes |->
                IF list.remotes[i].enabled THEN Section(reg, list.remotes[i]) ELSE <<>>])

\* The repository of a line: the one of the last "REPO" line up to it.
RepoLine(toc, i) ==
  CHOOSE j \in 1..i : toc[j].type = "R" /\ \A n \in (j + 1)..i : toc[n].type # "R"
RepoOf(toc, i) == toc[RepoLine(toc, i)].remote.name

\* Mutant: indexes are not part of the archive.
MutantJobsOf(toc) ==
  LET Job(i) == [do |-> "compress", package |-> <<RepoOf(toc, i), toc[i].key>>]
      packs == SelectSeq([i \in DOMAIN toc |-> i], LAMBDA i : toc[i].type = "P")
  IN [i \in DOMAIN packs |-> Job(packs[i])]

JobsOf(toc) ==
  [i \in DOMAIN toc |->
     IF toc[i].type = "R" THEN [do |-> "index", name |-> toc[i].remote.name]
     ELSE [do |-> "compress", package |-> <<RepoOf(toc, i), toc[i].key>>]]

-----------------------------------------------------------------------------
(* Tasks *)

Line(i) == [at |-> "line", line |-> i]
Task(p) == [at |-> "package", package |-> p]
Exporting == [at |-> "export"]

Idle == active = <<>> /\ queues = <<>>

\* InstallTask::start and push: files to download are left to Commit.
ExtractJobs(queue) ==
  LET JobOf(t) == [do |-> "extract", package |-> t.package, archive |-> t.archive]
  IN FlattenSeq([i \in DOMAIN queue |->
       IF queue[i].kind = "install" /\ queue[i].archive # {} THEN <<JobOf(queue[i])>> ELSE <<>>])

\* ExportTask::start, the only task of its queue: the table is written at once.
ExportStarts(reg, errors) ==
  LET toc == TableOf(reg)
  IN \/ /\ active' = <<[kind |-> "export"]>> /\ jobs' = JobsOf(toc) /\ receipt' = errors
        /\ temp' = {[toc |-> toc, indexes |-> [n \in Names |-> NoIndex],
                     files |-> [p \in Package |-> NoVersion], whole |-> TRUE]}
     \/ active' = <<>> /\ jobs' = <<>> /\ temp' = {} /\ receipt' = errors \union {Exporting}

\* runQueue.  What tasks push to the registry to find conflicts is reverted.
RunQueue(queue, reg, errors) ==
  /\ failed' = {}
  /\ IF queue = <<[kind |-> "export"]>> THEN ExportStarts(reg, errors)
     ELSE active' = queue /\ jobs' = ExtractJobs(queue) /\ temp' = {} /\ receipt' = errors

\* A command queues tasks and calls runTasks: they start at once unless others run.
Queue(new, errors) ==
  /\ open' = TRUE /\ UNCHANGED cancelled
  /\ IF active # <<>> THEN /\ queues' = (IF new = <<>> THEN queues ELSE Append(queues, new))
                   /\ receipt' = errors /\ UNCHANGED <<active, jobs, failed, temp>>
     ELSE RunQueue(new, registry, errors) /\ UNCHANGED queues

-----------------------------------------------------------------------------
(* Import *)

Reading == [list |-> list, cache |-> cache, last |-> {}, queue |-> <<>>, errors |-> receipt]

\* The index file is opened for writing, thus emptied, before it is searched for;
\* unless it cannot be (locked: such names).
Extracted(s, archive, name, locked) ==
  IF name \in locked THEN s.cache[name]
  ELSE IF archive.indexes[name] = NoIndex THEN Broken ELSE archive.indexes[name]

\* Mutant: the previous repository is not cleared.
MutantimportRemote(s, archive, i, locked) ==
  LET remote == archive.toc[i].remote
      original == Get(s.list, remote.name)
      read == [s EXCEPT !.cache[remote.name] = Extracted(s, archive, remote.name, locked)]
      new == IF original # NoRemote /\ remote.name = Self
               THEN [remote EXCEPT !.url = original.url] ELSE remote
  IN IF remote.name \in locked \/ archive.indexes[remote.name] = NoIndex
       THEN [read EXCEPT !.errors = @ \union {Line(i)}]
     ELSE IF archive.indexes[remote.name] = Broken
       THEN [read EXCEPT !.list = AddTo(@, new), !.errors = @ \union {Line(i)}]
     ELSE [read EXCEPT !.list = AddTo(@, new), !.last = {remote.name}]

importRemote(s, archive, i, locked) ==
  LET remote == archive.toc[i].remote
      original == Get(s.list, remote.name)
      read == [s EXCEPT !.cache[remote.name] = Extracted(s, archive, remote.name, locked),
                        !.last = {}]
      new == IF original # NoRemote /\ remote.name = Self
               THEN [remote EXCEPT !.url = original.url] ELSE remote
  IN IF remote.name \in locked \/ archive.indexes[remote.name] = NoIndex
       THEN [read EXCEPT !.errors = @ \union {Line(i)}]
     ELSE IF archive.indexes[remote.name] = Broken
       THEN [read EXCEPT !.list = AddTo(@, new), !.errors = @ \union {Line(i)}]
     ELSE [read EXCEPT !.list = AddTo(@, new), !.last = {remote.name}]

importPackage(s, archive, i) ==
  LET line == archive.toc[i]
      name == CHOOSE n \in s.last : TRUE
  IN IF s.last = {} THEN s
     ELSE IF <<line.key, line.version>> \notin s.cache[name].lists
       THEN [s EXCEPT !.errors = @ \union {Line(i)}]
     ELSE [s EXCEPT !.queue = Append(@, [kind |-> "install", package |-> <<name, line.key>>,
                                         version |-> line.version, flags |-> line.flags,
                                         archive |-> {archive}])]

ImportLine(s, archive, i, locked) ==
  CASE archive.toc[i].type = "R" -> importRemote(s, archive, i, locked)
    [] archive.toc[i].type = "P" -> importPackage(s, archive, i)

Read(archive, locked) ==
  LET upTo[i \in 0..Len(archive.toc)] ==
        IF i = 0 THEN Reading ELSE ImportLine(upTo[i - 1], archive, i, locked)
  IN upTo[Len(archive.toc)]

-----------------------------------------------------------------------------
(* Actions *)

\* The remotes of the configuration, added one after the other.
Configured(remotes) ==
  LET upTo[i \in 0..Len(remotes)] ==
        IF i = 0 THEN EmptyList ELSE AddTo(upTo[i - 1], remotes[i])
  IN upTo[Len(remotes)]

Init ==
  /\ \E c \in Computers : /\ list = Configured(c.remotes)
                          /\ cache = c.cache /\ registry = c.registry
                          /\ disk = [p \in Package |-> c.registry[p].version]
  /\ open = FALSE /\ queues = <<>> /\ active = <<>> /\ jobs = <<>> /\ failed = {}
  /\ cancelled = FALSE /\ receipt = {}
  /\ temp = {} /\ zip = {} /\ imported = {} /\ touched = {} /\ commands = 0

\* The main thread is out of runTasks(), which finishes a transaction that has
\* nothing left to do.
Command == (open => active # <<>>) /\ ~cancelled /\ commands < MaxCommands /\ commands' = commands + 1

\* Manager::exportArchive
Export ==
  /\ Command /\ Queue(<<[kind |-> "export"]>>, receipt) /\ UNCHANGED <<computer, zip, history>>

\* A package of an index is installed from the network: by the browser.
Install(p, v, f) ==
  /\ Command /\ cache[p[1]].state = "good" /\ <<p[2], v>> \in cache[p[1]].lists
  /\ Queue(<<[kind |-> "install", package |-> p, version |-> v, flags |-> f, archive |-> {}]>>, receipt)
  /\ touched' = touched \union {p} /\ UNCHANGED <<computer, zip, imported>>

\* Transaction::uninstall(remote) as the manager uses it.
UninstallRemote(name) ==
  LET gone == SetToSeq({p \in Package : p[1] = name /\ Installed(registry[p])})
  IN /\ Command /\ name # Self /\ HasName(list, name)
     /\ list' = RemoveFrom(list, name) /\ cache' = [cache EXCEPT ![name] = NoIndex]
     /\ Queue([i \in DOMAIN gone |-> [kind |-> "uninstall", package |-> gone[i]]], receipt)
     /\ touched' = touched \union ToSet(gone) /\ UNCHANGED <<registry, disk, zip, imported>>

\* Archive::import.  A second one waits for the end of the transaction (a bound).
\* locked: names whose index file cannot be opened for writing.
Import(locked) ==
  /\ Command /\ imported = {}
  /\ \E archive \in zip :
       LET s == Read(archive, locked)
       IN /\ list' = s.list /\ cache' = s.cache /\ Queue(s.queue, s.errors)
          /\ imported' = {[toc |-> archive.toc, before |-> registry, self |-> Get(list, Self)]}
  /\ UNCHANGED <<registry, disk, zip, touched>>

\* FileCompressor::run; errors of writing into the archive are not checked.
Compress ==
  /\ jobs # <<>> /\ Head(jobs).do \in {"index", "compress"} /\ jobs' = Tail(jobs)
  /\ LET job == Head(jobs)
         exists == IF job.do = "index" THEN cache[job.name] # NoIndex
                   ELSE disk[job.package] # NoVersion
     IN \/ /\ exists /\ UNCHANGED receipt
           /\ temp' = {IF job.do = "index" THEN [z EXCEPT !.indexes[job.name] = cache[job.name]]
                       ELSE [z EXCEPT !.files[job.package] = disk[job.package]] : z \in temp}
        \/ /\ receipt' = receipt \union {Exporting}
           /\ temp' = {[z EXCEPT !.whole = FALSE] : z \in temp}
  /\ UNCHANGED <<computer, open, queues, active, failed, cancelled, zip, history, commands>>

\* FileExtractor::run, into a temporary file.
Extract ==
  /\ jobs # <<>> /\ Head(jobs).do = "extract" /\ jobs' = Tail(jobs)
  /\ LET p == Head(jobs).package
     IN \/ /\ \E archive \in Head(jobs).archive : archive.files[p] # NoVersion
           /\ UNCHANGED <<failed, receipt>>
        \/ failed' = failed \union {p} /\ receipt' = receipt \union {Task(p)}
  /\ UNCHANGED <<computer, open, queues, active, cancelled, temp, zip, history, commands>>

\* What a task leaves.
Content(t) ==
  IF t.kind = "uninstall" THEN NoVersion
  ELSE IF t.archive = {} THEN t.version
  ELSE (CHOOSE a \in t.archive : TRUE).files[t.package]
Registered(t) ==
  IF t.kind = "uninstall" THEN NotInstalled ELSE [version |-> t.version, flags |-> t.flags]

\* commitTasks, then the next queue.  down: packages that could not be downloaded;
\* moved: the archive could be renamed.
Commit(down, moved) ==
  LET done == {i \in DOMAIN active : active[i].kind # "export"
                                       /\ active[i].package \notin failed \union down}
      packages == {active[i].package : i \in done}
      TaskOf(p) == active[Max({i \in done : active[i].package = p})]
      exported == \E i \in DOMAIN active : active[i].kind = "export"
      errors == receipt \union {Task(p) : p \in down}
                  \union (IF exported /\ ~moved THEN {Exporting} ELSE {})
  IN /\ ~Idle /\ jobs = <<>>
     /\ registry' = [p \in Package |-> IF p \in packages THEN Registered(TaskOf(p)) ELSE registry[p]]
     /\ disk' = [p \in Package |-> IF p \in packages THEN Content(TaskOf(p)) ELSE disk[p]]
     /\ zip' = IF exported /\ moved THEN temp ELSE zip
     /\ IF queues = <<>> THEN RunQueue(<<>>, registry', errors) /\ UNCHANGED queues
        ELSE RunQueue(queues[1], registry', errors) /\ queues' = Tail(queues)
     /\ UNCHANGED <<list, cache, open, cancelled, history, commands>>

Downloads == {active[i].package : i \in {j \in DOMAIN active :
                active[j].kind = "install" /\ active[j].archive = {}}}

\* Cancel in the progress window: running jobs end, all tasks are rolled back, those
\* of other queues are dropped.
Cancel ==
  /\ active # <<>> /\ cancelled' = TRUE
  /\ queues' = <<>> /\ active' = <<>> /\ jobs' = <<>> /\ failed' = {} /\ temp' = {}
  /\ UNCHANGED <<computer, open, receipt, zip, history, commands>>

\* Transaction::finish
Finish ==
  /\ open /\ Idle /\ open' = FALSE
  /\ cancelled' = FALSE /\ receipt' = {} /\ imported' = {} /\ touched' = {}
  /\ UNCHANGED <<computer, queues, active, jobs, failed, temp, zip, commands>>

\* The archive is brought to another computer.
Carry(c) ==
  /\ ~open /\ zip # {} /\ commands < MaxCommands /\ commands' = commands + 1
  /\ list' = Configured(c.remotes) /\ cache' = c.cache /\ registry' = c.registry
  /\ disk' = [p \in Package |-> c.registry[p].version]
  /\ UNCHANGED <<tasks, receipt, zip, history>>

Next ==
  \/ Export
  \/ \E p \in Package, v \in Versions, f \in Flags : Install(p, v, f)
  \/ \E name \in Names : UninstallRemote(name)
  \/ \E locked \in SUBSET Names : Import(locked)
  \/ Compress
  \/ Extract
  \/ \E down \in SUBSET Downloads, moved \in BOOLEAN : Commit(down, moved)
  \/ Cancel
  \/ Finish
  \/ \E c \in Computers : Carry(c)

Spec == Init /\ [][Next]_vars

-----------------------------------------------------------------------------
(* Properties *)

\* An archive whose export reported no failed file has the index of every
\* repository and, for every package of its table, the files of the very version
\* that the table tells, whatever ran or was asked while it was written.
ArchiveHoldsWhatItLists ==
  \A z \in zip : z.whole =>
    \A i \in DOMAIN z.toc :
      IF z.toc[i].type = "R" THEN z.indexes[z.toc[i].remote.name] # NoIndex
      ELSE z.files[<<RepoOf(z.toc, i), z.toc[i].key>>] = z.toc[i].version

\* When a transaction ends, every package of the table it imported is installed
\* with its version and flags, or the report has an error about it or about its
\* repository; no other package changed, so none was taken from another
\* repository, and the protected repository keeps its address.
ImportFollowsTheTable ==
  open /\ Idle => \A m \in imported :
    LET lines == {i \in DOMAIN m.toc : m.toc[i].type = "P"}
        At(i) == <<RepoOf(m.toc, i), m.toc[i].key>>
    IN /\ cancelled \/ \A i \in lines :
            \/ registry[At(i)] = [version |-> m.toc[i].version, flags |-> m.toc[i].flags]
            \/ receipt \cap {Line(i), Line(RepoLine(m.toc, i)), Task(At(i))} # {}
            \/ At(i) \in touched
       /\ \A p \in Package \ (touched \union {At(i) : i \in lines}) : registry[p] = m.before[p]
       /\ Get(list, Self).url = m.self.url
=============================================================================
