----------------------------- MODULE InstallJobs -----------------------------
(***************************************************************************)
(* install.cpp inside ThreadPool: the jobs of the install tasks of one      *)
(* queue, one job per source, and the temporary (.part) files they write.   *)
(* Handlers of a job's start and finish events keep the task's books on the *)
(* main thread while its other jobs go on writing.  Transaction has one     *)
(* job per task instead: what it assumes of JobsEnd is shown here.          *)
(***************************************************************************)
EXTENDS ThreadPool

CONSTANTS Tasks,
          TaskOf \* the task of each job

ASSUME InstallJobsAssumption == TaskOf \in [Jobs -> Tasks]

VARIABLES phase,     \* of runTasks: start, wait for the pool, commit, over
          newFiles,  \* m_newFiles of each task, by job
          waiting,   \* m_waiting
          fail,      \* tasks with m_fail
          cancelled, \* m_isCancelled
          aborting,  \* what is left of rollback's loop over m_waiting
          temp,      \* temporary files on disk, by job
          opened,    \* jobs whose current attempt has opened its file
          placed,    \* files renamed to their target, by job
          result,    \* what became of each task
          late       \* history: jobs over before their start event was handled

poolVars == vars
books == <<newFiles, waiting, fail>>
files == <<temp, opened, placed>>
allVars == <<poolVars, phase, books, cancelled, aborting, files, result, late>>

JobsOf(t) == {j \in Jobs : TaskOf[j] = t}

TasksInit ==
  /\ Init
  /\ phase = "start"
  /\ newFiles = [t \in Tasks |-> {}]
  /\ waiting = [t \in Tasks |-> {}]
  /\ fail = {}
  /\ cancelled = FALSE
  /\ aborting = {}
  /\ temp = {}
  /\ opened = {}
  /\ placed = {}
  /\ result = [t \in Tasks |-> "pending"]
  /\ late = {}

-----------------------------------------------------------------------------
(* InstallTask::start and push.  The main thread is busy: events wait. *)

StartJob(j) ==
  /\ phase = "start"
  /\ Push(j)
  /\ waiting' = [waiting EXCEPT ![TaskOf[j]] = @ \union {j}]
  /\ UNCHANGED <<phase, newFiles, fail, cancelled, aborting, files, result, late>>

Started ==
  /\ phase = "start"
  /\ \A j \in Jobs : stage[j] # "new"
  /\ phase' = "wait"
  /\ UNCHANGED <<poolVars, books, cancelled, aborting, files, result, late>>

-----------------------------------------------------------------------------
(* Events of the jobs *)

Listening == phase \in {"wait", "over"} /\ aborting = {}

Cancel ==
  /\ Listening
  /\ running # {}
  /\ ~cancelled
  /\ Abort
  /\ cancelled' = TRUE
  /\ UNCHANGED <<phase, books, aborting, files, result, late>>

OnStart(j) ==
  /\ Listening
  /\ HandleStart(j)
  /\ newFiles' = [newFiles EXCEPT ![TaskOf[j]] = @ \union {j}]
  /\ UNCHANGED <<phase, waiting, fail, cancelled, aborting, files, result, late>>

\* Mutant: the job is not erased.
MutantStillWaiting(j) == waiting[TaskOf[j]]

StillWaiting(j) == waiting[TaskOf[j]] \ {j}

\* Mutant: rollback once.
MutantMustRollBack(j) == state[j] # "Success" /\ TaskOf[j] \notin fail

MustRollBack(j) == state[j] # "Success"

\* Mutant: m_fail is forgotten.
MutantFailed(t) == fail

Failed(t) == fail \union {t}

\* Mutant: the other jobs go on.
MutantSiblings(t) == {}

\* The jobs that rollback() aborts.
Siblings(t) == waiting'[t]

\* The task's handler and then the pool's.  rollback() removes the files of
\* m_newFiles, then aborts what is in m_waiting, one job after the other.
OnFinish(j) ==
  LET t == TaskOf[j]
  IN /\ Listening
     /\ HandleFinish(j)
     /\ waiting' = [waiting EXCEPT ![t] = StillWaiting(j)]
     /\ IF MustRollBack(j)
          THEN /\ temp' = temp \ newFiles[t]
               /\ aborting' = Siblings(t)
               /\ fail' = Failed(t)
          ELSE UNCHANGED <<temp, aborting, fail>>
     /\ phase' = IF running' = {} THEN "commit" ELSE phase
     /\ late' = late \union ({j} \ newFiles[t])
     /\ UNCHANGED <<newFiles, cancelled, opened, placed, result>>

AbortSibling ==
  /\ \E k \in aborting :
       /\ abort' = [abort EXCEPT ![k] = TRUE]
       /\ aborting' = aborting \ {k}
  /\ UNCHANGED <<stage, state, running, workerVars, proxy, loop, frames,
                 phase, books, cancelled, files, result, late>>

OnOther ==
  /\ Listening
  /\ Tick \/ EndTick \/ Answer \/ \E j \in Jobs : HandleProxy(j)
  /\ UNCHANGED <<phase, books, cancelled, aborting, files, result, late>>

-----------------------------------------------------------------------------
(* The workers *)

\* Download::openStream, FileExtractor: creates the file, or empties it.
Open(w) ==
  /\ Executing(w, "running")
  /\ busy[w] \notin opened
  /\ opened' = opened \union {busy[w]}
  /\ temp' = temp \union {busy[w]}
  /\ UNCHANGED <<poolVars, phase, books, cancelled, aborting, placed, result, late>>

\* A job that could not open its file fails.
RunJob(w) ==
  /\ Run(w)
  /\ state'[busy[w]] = "Success" => busy[w] \in opened
  /\ UNCHANGED <<phase, books, cancelled, aborting, files, result, late>>

AskForProxy(w) ==
  /\ Ask(w)
  /\ busy[w] \in opened
  /\ opened' = opened \ {busy[w]}
  /\ UNCHANGED <<phase, books, cancelled, aborting, temp, placed, result, late>>

WorkerOther(w) ==
  /\ Take(w) \/ Start(w) \/ Check(w) \/ Post(w)
  /\ UNCHANGED <<phase, books, cancelled, aborting, files, result, late>>

-----------------------------------------------------------------------------
(* commitTasks *)

Finished(t, r) ==
  /\ phase = "commit"
  /\ result[t] = "pending"
  /\ result' = [result EXCEPT ![t] = r]
  /\ phase' = IF \E u \in Tasks \ {t} : result[u] = "pending" THEN phase ELSE "over"
  /\ UNCHANGED <<poolVars, books, cancelled, aborting, opened, late>>

CommitTask(t) ==
  /\ ~cancelled
  /\ t \notin fail
  /\ newFiles[t] \subseteq temp
  /\ placed' = placed \union newFiles[t]
  /\ temp' = temp \ newFiles[t]
  /\ Finished(t, "installed")

\* FS::rename fails for one of the files, others are renamed already.
CommitFails(t) ==
  /\ ~cancelled
  /\ t \notin fail
  /\ \E bad \in newFiles[t] : \E done \in SUBSET (newFiles[t] \ {bad}) :
       /\ done \subseteq temp
       /\ placed' = placed \union done
  /\ temp' = temp \ newFiles[t]
  /\ Finished(t, "broken")

RollbackTask(t) ==
  /\ \/ cancelled /\ temp' = temp \ newFiles[t]
     \/ ~cancelled /\ t \in fail /\ temp' = temp
  /\ UNCHANGED placed
  /\ Finished(t, "failed")

-----------------------------------------------------------------------------
TasksNext ==
  \/ \E j \in Jobs : StartJob(j) \/ OnStart(j) \/ OnFinish(j)
  \/ Started \/ Cancel \/ AbortSibling \/ OnOther
  \/ \E w \in Workers : Open(w) \/ RunJob(w) \/ AskForProxy(w) \/ WorkerOther(w)
  \/ \E t \in Tasks : CommitTask(t) \/ CommitFails(t) \/ RollbackTask(t)

TasksSpec == TasksInit /\ [][TasksNext]_allVars

-----------------------------------------------------------------------------
(* Properties *)

\* Files are put in place only for tasks whose every source was fetched, and a
\* task that reports an install has put all of them in place: newFiles, filled
\* by start events, is complete when the pool is idle (install.cpp:83-113).
OnlyWholePackages ==
  /\ \A j \in placed : \A k \in JobsOf(TaskOf[j]) : state[k] = "Success"
  /\ \A t \in Tasks : result[t] = "installed" => JobsOf(t) \subseteq placed

\* rollback() calls abort() on live jobs only: m_waiting and the loop over it
\* never name one the pool has deleted (install.cpp:86-93, 132-134).
NoDanglingJob ==
  (UNION {waiting[t] : t \in Tasks}) \union aborting \subseteq running

\* A job that failed or was aborted leaves no temporary file, even if it created
\* the file after its task was rolled back.  What can stay is the file of a job
\* that ended well in a task that failed: its start event is handled, or the
\* abort of a sibling comes, after the rollback (install.cpp:85-91, 128-137).
\* Jobs whose end was handled inside the box that their start event's batch
\* waits for are excepted: that event comes after the job's end (event.cpp:151-176).
FailedJobsLeaveNoFile ==
  phase = "over" =>
    \A j \in temp \ late : state[j] = "Success" /\ TaskOf[j] \in fail

\* After a failure no job of the same task goes on for long: each one that has
\* not ended has been told to stop (install.cpp:89-90, 133-134).
FailureStopsSiblings ==
  aborting = {} => \A t \in fail : \A j \in waiting[t] : abort[j]
=============================================================================
