---------------------------- MODULE Transaction ----------------------------
(***************************************************************************)
(* transaction.cpp with the tasks of task.cpp, install.cpp and              *)
(* synchronize.cpp: from a command of the user to the registry, the files   *)
(* and the action list of REAPER.  runTasks() and what it calls run on the  *)
(* main thread, one step at a time here because the process can die between *)
(* any two of them; between two calls of runTasks() the main thread is at   *)
(* rest and handles commands and the ends of jobs.                          *)
(*                                                                          *)
(* The jobs of a task are one here: they end together, see ThreadPool and   *)
(* TaskPool for what happens inside.                                        *)
(***************************************************************************)
EXTENDS RegistryTables, Sequences, FiniteSets

CONSTANTS
  Requests,   \* the tasks that can be queued, each once (a bound)
  Batches,    \* which of them go together (a bound)
  Initial,    \* contents of the database at first
  Pinned,     \* the flags with PinnedFlag
  NoFlags,    \* flags of a package that had none
  NoRelease,  \* a path without file
  Faults,     \* what can go wrong: "job", "disk", "abort", "crash"
  Impatient   \* the user may queue a package that is in the queue already

\* Requests have a kind and say who queues them: the user, SynchronizeTask or
\* the prompt for obsolete packages.  An "install" has a release, "uninstall"
\* and "flags" a pkg, "flags" the new flags, and "sync" the packages of a
\* repository, the latest release of those in its index, and autoInstall.
ASSUME TransactionAssumption ==
  /\ \A t \in Requests :
       /\ t.from \in {"user", "sync", "prompt"}
       /\ t.from = "sync" => t.kind = "install"
       /\ t.from = "prompt" => t.kind = "uninstall"
       /\ \/ t.kind = "install" /\ t.release \in Releases
          \/ t.kind = "uninstall" /\ t.pkg \in Packages
          \/ t.kind = "flags" /\ t.pkg \in Packages /\ t.flags \in Flags
          \/ t.kind = "sync" /\ t.pkgs \subseteq Packages
                             /\ t.index \subseteq Releases /\ t.auto \in BOOLEAN
  /\ Batches \subseteq SUBSET Requests
  /\ Initial \in Tables /\ ConsistentTables(Initial)
  /\ Pinned \subseteq Flags /\ NoFlags \in Flags
  /\ NoRelease \notin Releases
  /\ Faults \subseteq {"job", "disk", "abort", "crash"}
  /\ Impatient \in BOOLEAN

VARIABLES
  tables,    \* contents of the database as the transaction reads it
  durable,   \* contents of the database file
  saved,     \* the savepoint of runQueue
  disk,      \* the release whose file is at each path
  scripts,   \* the paths in the action list of REAPER
  pc,        \* where the main thread is
  next,      \* m_nextQueue
  queues,    \* m_taskQueues
  active,    \* m_runningTasks
  jobs,      \* tasks whose jobs are in the thread pool
  failed,    \* tasks with a job that did not succeed (m_fail)
  entry,     \* m_oldEntry or m_entry of each task
  old,       \* m_oldFiles or m_files of each task, main files apart
  obsolete,  \* m_obsolete
  cancelled, \* m_isCancelled
  tickets,   \* m_regQueue
  errors,    \* tasks with an error in the receipt
  asked,     \* tasks queued in this transaction
  made,      \* tasks queued ever (a bound)
  dirty,     \* paths written since the last COMMIT
  suspect,   \* paths a failed file operation or a crash left behind
  lost       \* paths whose tickets were dropped

registry == <<tables, durable, saved>>
outside == <<disk, scripts>>
queue == <<next, queues, active>>
tasks == <<jobs, failed, entry, old, errors, asked, made>>
history == <<dirty, suspect, lost>>
vars == <<registry, outside, pc, queue, tasks, obsolete, cancelled, tickets, history>>

-----------------------------------------------------------------------------
NoFiles == [files |-> {}, mains |-> {}]

Recorded(t, p) ==
  IF t.files[p] = NoFile THEN NoRelease ELSE t.entries[t.files[p].entry].release

Mains(t) == {p \in Paths : t.files[p] # NoFile /\ t.files[p].main}

PackagesOf(t) ==
  CASE t.kind = "install" -> {t.release.pkg}
    [] t.kind = "sync" -> t.pkgs
    [] OTHER -> {t.pkg}

SeqRange(s) == {s[i] : i \in DOMAIN s}

\* Tasks that were neither committed, rolled back nor refused.
Outstanding == next \union (UNION SeqRange(queues)) \union SeqRange(active)

Init ==
  /\ tables = Initial
  /\ durable = Initial
  /\ saved = <<>>
  /\ disk = [p \in Paths |-> Recorded(Initial, p)]
  /\ scripts = Mains(Initial)
  /\ pc = "rest"
  /\ next = {}
  /\ queues = <<>>
  /\ active = <<>>
  /\ jobs = {}
  /\ failed = {}
  /\ entry = [t \in Requests |-> NoEntry]
  /\ old = [t \in Requests |-> NoFiles]
  /\ obsolete = {}
  /\ cancelled = FALSE
  /\ tickets = <<>>
  /\ errors = {}
  /\ asked = {}
  /\ made \in {Requests \ batch : batch \in Batches}
  /\ dirty = {}
  /\ suspect = {}
  /\ lost = {}

-----------------------------------------------------------------------------
(* Commands and events of the main thread at rest *)

Disjoint(S) ==
  /\ \A t, u \in S : t # u => PackagesOf(t) \cap PackagesOf(u) = {}
  /\ \A t \in S, u \in Outstanding : PackagesOf(t) \cap PackagesOf(u) = {}

\* An install reads the registry, the others come with the entry that a window
\* shows, read from the transaction's registry or from the last committed one.
EntryFor(t, view) ==
  CASE t.kind = "install" -> GetEntry(tables, t.release.pkg)
    [] t.kind = "sync" -> NoEntry
    [] OTHER -> GetEntry(view, t.pkg)

Enqueue(S, view) ==
  /\ next' = next \union S
  /\ entry' = [t \in Requests |-> IF t \in S THEN EntryFor(t, view) ELSE entry[t]]
  /\ asked' = asked \union S
  /\ made' = made \union S

\* Any of the windows queues tasks, or none (commitConfig), and calls runTasks.
Apply ==
  /\ pc = "rest"
  /\ \E S \in SUBSET {t \in Requests \ made : t.from = "user"}, view \in {tables, durable} :
       /\ Impatient \/ Disjoint(S)
       /\ \A t \in S : t.kind \in {"uninstall", "flags"} => EntryFor(t, view) # NoEntry
       /\ Enqueue(S, view)
  /\ pc' = "head"
  /\ UNCHANGED <<registry, outside, queues, active, jobs, failed, old, errors,
                 obsolete, cancelled, tickets, history>>

\* Mutant: onDone is not bound to runTasks.
MutantWhenIdle == "rest"

WhenIdle == "head"

\* Mutant: the receipt does not hear of failures.
MutantJobsEnd(t) ==
  /\ pc = "rest"
  /\ t \in jobs
  /\ jobs' = jobs \ {t}
  /\ failed' \in {failed, failed \union {t}}
  /\ pc' = IF jobs' = {} THEN WhenIdle ELSE "rest"
  /\ UNCHANGED <<registry, outside, queue, entry, old, errors, asked, made, obsolete,
                 cancelled, tickets, history>>

\* The jobs of a task ended.  Those that were aborted report no error.
JobsEnd(t) ==
  /\ pc = "rest"
  /\ t \in jobs
  /\ jobs' = jobs \ {t}
  /\ \/ UNCHANGED <<failed, errors>>
     \/ /\ "job" \in Faults
        /\ failed' = failed \union {t}
        /\ errors' = errors \union {t}
     \/ /\ cancelled
        /\ failed' = failed \union {t}
        /\ UNCHANGED errors
  /\ pc' = IF jobs' = {} THEN WhenIdle ELSE "rest"
  /\ UNCHANGED <<registry, outside, queue, entry, old, asked, made, obsolete,
                 cancelled, tickets, history>>

TicketFiles == UNION {tickets[i].files : i \in DOMAIN tickets}

\* The cancel button of the progress window.
Abort ==
  /\ "abort" \in Faults
  /\ pc = "rest"
  /\ jobs # {}
  /\ ~cancelled
  /\ cancelled' = TRUE
  /\ tickets' = <<>>
  /\ lost' = lost \union TicketFiles
  /\ UNCHANGED <<registry, outside, pc, queue, tasks, obsolete, dirty, suspect>>

-----------------------------------------------------------------------------
(* runTasks *)

\* Take over m_nextQueue; wait for the thread pool.
EnterQueue ==
  /\ pc = "head"
  /\ queues' = IF next = {} THEN queues ELSE Append(queues, next)
  /\ next' = {}
  /\ pc' = IF jobs = {} THEN "commit" ELSE "rest"
  /\ UNCHANGED <<registry, outside, active, tasks, obsolete, cancelled, tickets, history>>

\* The first commitTasks is done.
Committed ==
  /\ pc = "commit"
  /\ active = <<>>
  /\ pc' = IF cancelled THEN "finish" ELSE "prompt"
  /\ UNCHANGED <<registry, outside, queue, tasks, obsolete, cancelled, tickets, history>>

\* ObsoleteQuery: rows that were selected when the window was confirmed, which takes
\* one at least; none otherwise.
ObsoleteQuery == SUBSET obsolete

\* The user selects obsolete packages to uninstall: with the last queue.
PromptFor(e) == {t \in Requests \ made : t.from = "prompt" /\ t.pkg = e.row.release.pkg}

PromptObsolete ==
  /\ pc = "prompt"
  /\ \E selected \in ObsoleteQuery :
       LET S == UNION {PromptFor(e) : e \in selected}
           last == Len(queues)
       IN /\ queues' = IF S = {} THEN queues
                       ELSE IF queues = <<>> THEN <<S>>
                       ELSE [queues EXCEPT ![last] = @ \union S]
          /\ entry' = [t \in Requests |->
               IF t \in S THEN CHOOSE e \in selected : e.row.release.pkg = t.pkg
                          ELSE entry[t]]
          /\ asked' = asked \union S
          /\ made' = made \union S
  /\ obsolete' = {}
  /\ pc' = "queues"
  /\ UNCHANGED <<registry, outside, next, active, jobs, failed, old, errors,
                 cancelled, tickets, history>>

\* Mutant: the outer loop is missing.
MutantNextQueue ==
  /\ pc = "queues"
  /\ IF queues # <<>>
       THEN pc' = "start" /\ saved' = <<tables>>
       ELSE pc' = "finish" /\ saved' = saved
  /\ UNCHANGED <<tables, durable, outside, queue, tasks, obsolete, cancelled,
                 tickets, history>>

\* The next queue runs inside a savepoint; commit() of a task may have
\* queued others.
NextQueue ==
  /\ pc = "queues"
  /\ IF queues # <<>>
       THEN pc' = "start" /\ saved' = <<tables>>
       ELSE pc' = (IF next # {} THEN "head" ELSE "finish") /\ saved' = saved
  /\ UNCHANGED <<tables, durable, outside, queue, tasks, obsolete, cancelled,
                 tickets, history>>

\* The second commitTasks is done, or the pool is busy: see EndQueue.
Recommitted ==
  /\ pc = "recommit"
  /\ active = <<>>
  /\ pc' = "queues"
  /\ UNCHANGED <<registry, outside, queue, tasks, obsolete, cancelled, tickets, history>>

-----------------------------------------------------------------------------
(* runQueue: Task::start *)

MutantPriority(t) == 0

Priority(t) == IF t.kind = "uninstall" THEN 1 ELSE 0

IsTop(t) ==
  /\ pc = "start"
  /\ t \in Head(queues)
  /\ \A u \in Head(queues) : Priority(u) <= Priority(t)

Popped(t) == [queues EXCEPT ![1] = @ \ {t}]

FlagsOf(t) == IF entry[t] = NoEntry THEN NoFlags ELSE entry[t].row.flags

FilesOf(t, view) == [files |-> GetFiles(view, entry[t]), mains |-> GetMainFiles(view, entry[t])]

\* Mutant: files that the new release keeps count as old.
MutantOldFiles(t) == FilesOf(t, tables)

OldFiles(t) ==
  [files |-> FilesOf(t, tables).files \ t.release.files,
   mains |-> FilesOf(t, tables).mains \ t.release.files]

StartInstall(t) ==
  /\ t.kind = "install"
  /\ IsTop(t)
  /\ Conflicts(tables, t.release) = {}
  /\ \E i \in Ids :
       /\ IsPushId(tables, t.release.pkg, i)
       /\ tables' = Pushed(tables, t.release, FlagsOf(t), i)
  /\ old' = [old EXCEPT ![t] = OldFiles(t)]
  /\ jobs' = jobs \union {t}
  /\ active' = Append(active, t)
  /\ queues' = Popped(t)
  /\ UNCHANGED <<durable, saved, outside, pc, next, failed, entry, errors, asked,
                 made, obsolete, cancelled, tickets, history>>

RefuseInstall(t) ==
  /\ t.kind = "install"
  /\ IsTop(t)
  /\ Conflicts(tables, t.release) # {}
  /\ errors' = errors \union {t}
  /\ queues' = Popped(t)
  /\ UNCHANGED <<registry, outside, pc, next, active, jobs, failed, entry, old,
                 asked, made, obsolete, cancelled, tickets, history>>

StartUninstall(t) ==
  /\ t.kind = "uninstall"
  /\ IsTop(t)
  /\ old' = [old EXCEPT ![t] = FilesOf(t, tables)]
  /\ tables' = Forgotten(tables, entry[t].id)
  /\ active' = Append(active, t)
  /\ queues' = Popped(t)
  /\ UNCHANGED <<durable, saved, outside, pc, next, jobs, failed, entry, errors,
                 asked, made, obsolete, cancelled, tickets, history>>

\* FlagsTask has no job, SynchronizeTask downloads the index.
StartOther(t) ==
  /\ t.kind \in {"flags", "sync"}
  /\ IsTop(t)
  /\ jobs' = IF t.kind = "sync" THEN jobs \union {t} ELSE jobs
  /\ active' = Append(active, t)
  /\ queues' = Popped(t)
  /\ UNCHANGED <<registry, outside, pc, next, failed, entry, old, errors, asked,
                 made, obsolete, cancelled, tickets, history>>

\* Mutant: no restore.
MutantEndQueue ==
  /\ pc = "start"
  /\ Head(queues) = {}
  /\ saved' = <<>>
  /\ queues' = Tail(queues)
  /\ pc' = IF jobs = {} THEN "recommit" ELSE "rest"
  /\ UNCHANGED <<tables, durable, outside, next, active, tasks, obsolete, cancelled,
                 tickets, history>>

\* What was pushed and forgotten by start() is undone.
EndQueue ==
  /\ pc = "start"
  /\ Head(queues) = {}
  /\ tables' = saved[1]
  /\ saved' = <<>>
  /\ queues' = Tail(queues)
  /\ pc' = IF jobs = {} THEN "recommit" ELSE "rest"
  /\ UNCHANGED <<durable, outside, next, active, tasks, obsolete, cancelled,
                 tickets, history>>

-----------------------------------------------------------------------------
(* commitTasks: Task::commit and rollback *)

Committing(t) ==
  /\ pc \in {"commit", "recommit"}
  /\ active # <<>>
  /\ t = Head(active)
  /\ active' = Tail(active)

\* Mutant: failed installs only.
MutantRollsBack(t) == t.kind = "install" /\ t \in failed

\* A cancelled transaction rolls everything back; a failed install was rolled
\* back when its job failed.
RollsBack(t) == cancelled \/ (t.kind = "install" /\ t \in failed)

Rollback(t) ==
  /\ Committing(t)
  /\ RollsBack(t)
  /\ UNCHANGED <<registry, outside, pc, next, queues, tasks, obsolete, cancelled,
                 tickets, history>>

Written(files, release) == [p \in Paths |-> IF p \in files THEN release ELSE disk[p]]

Removed(d, files) == [p \in Paths |-> IF p \in files THEN NoRelease ELSE d[p]]

\* A file could not be renamed; those before it were, and FS::rename may have
\* removed its target.
FailInstall(t) ==
  /\ t.kind = "install"
  /\ Committing(t)
  /\ ~RollsBack(t)
  /\ "disk" \in Faults
  /\ \E bad \in t.release.files, gone \in BOOLEAN :
       \E done \in SUBSET (t.release.files \ {bad}) :
         LET renamed == Written(done, t.release)
         IN /\ disk' = IF gone THEN Removed(renamed, {bad}) ELSE renamed
            /\ dirty' = dirty \union done \union {bad}
            /\ suspect' = suspect \union done \union {bad}
  /\ errors' = errors \union {t}
  /\ UNCHANGED <<registry, scripts, pc, next, queues, jobs, failed, entry, old,
                 asked, made, obsolete, cancelled, tickets, lost>>

Ticket(add, files) == IF files = {} THEN <<>> ELSE <<[add |-> add, files |-> files]>>

\* Which of the files cannot be deleted.
Undeletable(files) == IF "disk" \in Faults THEN SUBSET files ELSE {{}}

\* The files are in place when push() is called: with a conflict, of a file that
\* another package still has, it throws and nothing catches the exception.
CommitInstall(t) ==
  /\ t.kind = "install"
  /\ Committing(t)
  /\ ~RollsBack(t)
  /\ \E kept \in Undeletable(old[t].files) :
       /\ disk' = Removed(Written(t.release.files, t.release), old[t].files \ kept)
       /\ suspect' = (suspect \ t.release.files) \union kept
  /\ dirty' = dirty \union t.release.files \union old[t].files
  /\ IF Conflicts(tables, t.release) = {}
       THEN /\ \E i \in Ids :
                 /\ IsPushId(tables, t.release.pkg, i)
                 /\ tables' = Pushed(tables, t.release, FlagsOf(t), i)
            /\ tickets' = tickets \o Ticket(FALSE, old[t].mains)
                                  \o Ticket(TRUE, t.release.mains)
            /\ pc' = pc
       ELSE pc' = "thrown" /\ UNCHANGED <<tables, tickets>>
  /\ UNCHANGED <<durable, saved, scripts, next, queues, tasks, obsolete, cancelled, lost>>

CommitUninstall(t) ==
  /\ t.kind = "uninstall"
  /\ Committing(t)
  /\ ~RollsBack(t)
  /\ \E kept \in Undeletable(old[t].files) :
       /\ disk' = Removed(disk, old[t].files \ kept)
       /\ suspect' = (suspect \ old[t].files) \union kept
       /\ errors' = IF kept = {} THEN errors ELSE errors \union {t}
  /\ dirty' = dirty \union old[t].files
  /\ tables' = Forgotten(tables, entry[t].id)
  /\ tickets' = tickets \o Ticket(FALSE, old[t].mains)
  /\ UNCHANGED <<durable, saved, scripts, pc, next, queues, jobs, failed, entry, old,
                 asked, made, obsolete, cancelled, lost>>

CommitFlags(t) ==
  /\ t.kind = "flags"
  /\ Committing(t)
  /\ ~RollsBack(t)
  /\ tables' = FlagsSet(tables, entry[t].id, t.flags)
  /\ UNCHANGED <<durable, saved, outside, pc, next, queues, tasks, obsolete,
                 cancelled, tickets, history>>

\* SynchronizeTask::synchronize: whether the latest release of a package is to
\* be installed.
Wanted(t, r) ==
  LET e == GetEntry(tables, r.pkg)
  IN IF e = NoEntry THEN t.auto
     ELSE IF e.row.release = r THEN \E p \in r.files : disk[p] = NoRelease
     ELSE e.row.flags \notin Pinned /\ r.version > e.row.release.version

InstallsOf(t) ==
  {u \in Requests \ made : u.from = "sync" /\ u.release \in {r \in t.index : Wanted(t, r)}}

ObsoleteOf(t) ==
  {e \in GetEntries(tables, t.pkgs) :
     e.row.flags \notin Pinned /\ \A r \in t.index : r.pkg # e.row.release.pkg}

\* Without an index, of now or of an earlier download, there is nothing to do.
CommitSync(t) ==
  /\ t.kind = "sync"
  /\ Committing(t)
  /\ ~RollsBack(t)
  /\ \/ /\ next' = next \union InstallsOf(t)
        /\ entry' = [u \in Requests |->
             IF u \in InstallsOf(t) THEN EntryFor(u, tables) ELSE entry[u]]
        /\ asked' = asked \union InstallsOf(t)
        /\ made' = made \union InstallsOf(t)
        /\ obsolete' = obsolete \union ObsoleteOf(t)
     \/ /\ t \in failed
        /\ UNCHANGED <<next, entry, asked, made, obsolete>>
  /\ UNCHANGED <<registry, outside, pc, queues, jobs, failed, old, errors, cancelled,
                 tickets, history>>

-----------------------------------------------------------------------------
(* finish *)

CommitRegistry ==
  /\ pc = "finish"
  /\ durable' = tables
  /\ dirty' = {}
  /\ pc' = "register"
  /\ UNCHANGED <<tables, saved, outside, queue, tasks, obsolete, cancelled, tickets,
                 suspect, lost>>

\* Mutant: the latest ticket first.
MutantFirstTicket == Len(tickets)

FirstTicket == 1

RegisterQueued ==
  /\ pc = "register"
  /\ IF tickets = <<>>
       THEN pc' = "over" /\ UNCHANGED <<scripts, tickets, lost>>
       ELSE LET reg == tickets[FirstTicket]
            IN /\ scripts' = IF reg.add THEN scripts \union reg.files
                                        ELSE scripts \ reg.files
               /\ lost' = lost \ reg.files
               /\ tickets' = SubSeq(tickets, 1, FirstTicket - 1)
                              \o SubSeq(tickets, FirstTicket + 1, Len(tickets))
               /\ pc' = pc
  /\ UNCHANGED <<registry, disk, queue, tasks, obsolete, cancelled, dirty, suspect>>

\* A new Transaction, with a new connection to the database.
NewTransaction ==
  /\ pc' = "rest"
  /\ tables' = durable
  /\ saved' = <<>>
  /\ next' = {}
  /\ queues' = <<>>
  /\ active' = <<>>
  /\ jobs' = {}
  /\ failed' = {}
  /\ entry' = [t \in Requests |-> NoEntry]
  /\ old' = [t \in Requests |-> NoFiles]
  /\ obsolete' = {}
  /\ cancelled' = FALSE
  /\ tickets' = <<>>
  /\ errors' = {}
  /\ asked' = {}
  /\ dirty' = {}
  /\ UNCHANGED <<durable, outside, made>>

Teardown ==
  /\ pc = "over"
  /\ NewTransaction
  /\ UNCHANGED <<suspect, lost>>

\* The process dies, of an exception or otherwise, and is started again.
Restart ==
  /\ pc = "thrown" \/ "crash" \in Faults
  /\ NewTransaction
  /\ suspect' = suspect \union dirty
  /\ lost' = IF pc = "register" THEN lost \union TicketFiles ELSE lost

-----------------------------------------------------------------------------
StartTask(t) == StartInstall(t) \/ RefuseInstall(t) \/ StartUninstall(t) \/ StartOther(t)

CommitTask(t) ==
  \/ Rollback(t) \/ FailInstall(t) \/ CommitInstall(t)
  \/ CommitUninstall(t) \/ CommitFlags(t) \/ CommitSync(t)

MainStep ==
  \/ EnterQueue \/ Committed \/ PromptObsolete \/ NextQueue \/ EndQueue \/ Recommitted
  \/ \E t \in Requests : StartTask(t) \/ CommitTask(t)
  \/ CommitRegistry \/ RegisterQueued \/ Teardown

Next ==
  \/ Apply
  \/ Abort
  \/ \E t \in Requests : JobsEnd(t)
  \/ MainStep
  \/ Restart

\* runTasks() runs to its end; every job ends (see ThreadPool) and the host's
\* timer gets its turn even if commands keep coming, so SF and not WF.
Fairness == WF_vars(MainStep) /\ SF_vars(\E t \in Requests : JobsEnd(t))

Spec == Init /\ [][Next]_vars /\ Fairness

-----------------------------------------------------------------------------
(* Properties *)

\* The registry without what runQueue did for the time of the queue.
Visible == IF saved = <<>> THEN tables ELSE saved[1]

\* The files on disk are those of the releases the registry has, whenever the
\* main thread is at rest and after any mix of failed jobs, cancellations and
\* restarts: what a crash or a failed file operation can harm are the paths it
\* was about (install.cpp:97-137, task.cpp:44-56, transaction.cpp:176-209).
DiskAgrees ==
  pc \in {"rest", "over"} =>
    \A p \in Paths \ suspect : disk[p] = Recorded(tables, p)

\* Files that one release of a package has as a script for the action list and another
\* without: an update takes them for files that are kept, so they stay in the
\* action list (install.cpp:59-68).
Demoted ==
  {p \in Paths : \E r, s \in Releases :
     r.pkg = s.pkg /\ p \in r.mains /\ p \in s.files \ s.mains}

\* When a transaction is over, REAPER's action list has the main files of the
\* installed packages, in whatever order packages handed a path over; the
\* tickets of a cancelled transaction are lost (transaction.cpp:220-244).
ScriptsAgree ==
  pc = "over" =>
    \A p \in Paths \ (lost \union Demoted) : p \in scripts <=> p \in Mains(durable)

\* An install that is through has an error in the report or did happen, unless
\* the transaction is cancelled (transaction.cpp:36-41, install.cpp:45-57, 103-112).
FailuresAreReported ==
  [][\A t \in Outstanding \ Outstanding' :
       t.kind = "install" /\ ~cancelled /\ ~Restart /\ pc' # "thrown" =>
         \/ t \in errors'
         \/ \E i \in Ids : /\ tables'.entries[i] # NoRow
                           /\ tables'.entries[i].release = t.release]_vars

\* Nothing that was queued is left when a transaction ends, neither by a
\* commit() nor by a command that came in while jobs were running; a
\* cancelled transaction drops what it has (transaction.cpp:145-174).
NoTaskIsDropped ==
  pc = "over" /\ ~cancelled => Outstanding = {} /\ obsolete = {}

\* A path that an install among the tasks wants.
TakenBy(S, p) == \E t \in S : t.kind = "install" /\ p \in t.release.files

\* task.cpp:38: an install is refused only for a file that no task of its queue
\* frees by uninstalling its owner, unless another install was faster to take it.
ConflictsAreReal ==
  [][\A t \in Requests : RefuseInstall(t) =>
       \A p \in Conflicts(tables, t.release) :
         \A u \in Head(queues) \union SeqRange(active) :
           u.kind = "uninstall" => \/ ~OwnedBy(saved[1], p, entry[u].id)
                                   \/ TakenBy(SeqRange(active), p)]_vars

\* Once cancelled, a transaction changes no file and no package any more
\* (transaction.cpp:155, 200-201).
CancelHonoured ==
  [][cancelled /\ ~Restart => disk' = disk /\ Visible' = Visible]_vars

\* Every task that was queued is committed, rolled back or refused, unless the
\* process dies of an exception.
EveryTaskEnds ==
  \A t \in Requests : t \in Outstanding ~> t \notin Outstanding \/ pc = "thrown"

Promised == INSTANCE Installer
  WITH installed <- InstalledIn(Visible), durable <- InstalledIn(durable),
       NotInstalled <- NoRow, Initially <- InstalledIn(Initial)

\* Only packages that were asked for are installed or removed, each as a whole;
\* all of a transaction becomes durable or nothing.
ImplementsInstaller == Promised!Spec
=============================================================================
