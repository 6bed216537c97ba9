----------------------------- MODULE ThreadPool -----------------------------
(***************************************************************************)
(* thread.cpp and event.cpp: jobs (ThreadTask) run on worker threads, their *)
(* start, finish and proxy events run on the main thread.  Each worker has  *)
(* a queue; the main thread's timer takes all pending events as one batch   *)
(* and runs them in the order of the events' addresses, so by job and only  *)
(* then by time.  A handler that opens a message box (requestProxy) lets    *)
(* the timer run inside it: batches are nested, each in a frame of its own. *)
(***************************************************************************)
EXTENDS Naturals, Sequences, FiniteSets

CONSTANTS Jobs,
          NWorkers,  \* size of m_pool, 6 in the code
          Serial,    \* jobs whose concurrent() is false
          MayAsk,    \* downloads that may be answered 429
          AddressOf, \* the order of the jobs in memory
          NoJob

ASSUME ThreadPoolAssumption ==
  /\ NWorkers \in Nat \ {0}
  /\ Serial \subseteq Jobs
  /\ MayAsk \subseteq Jobs
  /\ AddressOf \in [Jobs -> Nat]
  /\ \A j, k \in Jobs : AddressOf[j] = AddressOf[k] => j = k
  /\ NoJob \notin Jobs

Workers == 0..(NWorkers - 1)

VARIABLES stage,    \* what became of each job
          state,    \* m_state
          abort,    \* m_abort
          running,  \* m_running of the pool
          queue,    \* m_queue of each worker
          busy,     \* the job each worker executes
          proxied,  \* jobs on their second attempt, run(true)
          proxy,    \* fallbackProxy: "ask", "yes" or "no"
          loop,     \* m_queue of the event loop
          frames    \* nested batches, innermost last

workerVars == <<queue, busy, proxied>>
vars == <<stage, state, abort, running, queue, busy, proxied, proxy, loop, frames>>

Stages == {"new", "queued", "taken", "running", "asking", "ran", "checked",
           "posted", "deleted"}
States == {"Idle", "Success", "Failure", "Aborted"}
Kinds == {"start", "finish", "proxy"}
Events == Jobs \X Kinds
Frames == [events : SUBSET Events, asking : Jobs \union {NoJob}]

TypeOK ==
  /\ stage \in [Jobs -> Stages]
  /\ state \in [Jobs -> States]
  /\ abort \in [Jobs -> BOOLEAN]
  /\ running \subseteq Jobs
  /\ queue \in [Workers -> Seq(Jobs)]
  /\ busy \in [Workers -> Jobs \union {NoJob}]
  /\ proxied \subseteq Jobs
  /\ proxy \in {"ask", "yes", "no"}
  /\ loop \subseteq Events
  /\ frames \in Seq(Frames)

Init ==
  /\ stage = [j \in Jobs |-> "new"]
  /\ state = [j \in Jobs |-> "Idle"]
  /\ abort = [j \in Jobs |-> FALSE]
  /\ running = {}
  /\ queue = [w \in Workers |-> <<>>]
  /\ busy = [w \in Workers |-> NoJob]
  /\ proxied = {}
  /\ proxy = "ask"
  /\ loop = {}
  /\ frames = <<>>

-----------------------------------------------------------------------------
(* The main thread *)

Top == frames[Len(frames)]

\* The main thread returned to the host's message loop, the one of the
\* application or the one inside a message box.
AtMessageLoop == frames # <<>> => Top.asking # NoJob

\* Mutant: concurrent() ignored.
MutantWorkerFor(j, n) == n % NWorkers

\* The worker of the n-th running job; jobs that are not concurrent share one.
WorkerFor(j, n) == IF j \in Serial THEN 0 ELSE n % NWorkers

\* WorkerThread::push
PushTo(w, j) == queue' = [queue EXCEPT ![w] = Append(@, j)]

\* From a command of the user, or from onDone when the pool became idle.
Push(j) ==
  /\ AtMessageLoop \/ running = {}
  /\ stage[j] = "new"
  /\ stage' = [stage EXCEPT ![j] = "queued"]
  /\ running' = running \union {j}
  /\ PushTo(WorkerFor(j, Cardinality(running')), j)
  /\ UNCHANGED <<state, abort, busy, proxied, proxy, loop, frames>>

\* The progress window's cancel button; requestProxy locks that window while
\* its message box is open.
Abort ==
  /\ frames = <<>>
  /\ abort' = [j \in Jobs |-> abort[j] \/ j \in running]
  /\ UNCHANGED <<stage, state, running, workerVars, proxy, loop, frames>>

Tick ==
  /\ AtMessageLoop
  /\ loop # {}
  /\ frames' = Append(frames, [events |-> loop, asking |-> NoJob])
  /\ loop' = {}
  /\ UNCHANGED <<stage, state, abort, running, workerVars, proxy>>

\* Emitters of a job are members of one object, in this order.
Rank(kind) == CASE kind = "start" -> 1 [] kind = "finish" -> 2 [] kind = "proxy" -> 3

Before(e, f) ==
  \/ AddressOf[e[1]] < AddressOf[f[1]]
  \/ e[1] = f[1] /\ Rank(e[2]) < Rank(f[2])

IsNext(e) ==
  /\ frames # <<>>
  /\ Top.asking = NoJob
  /\ e \in Top.events
  /\ \A f \in Top.events \ {e} : Before(e, f)

Rest(e) == [frames EXCEPT ![Len(frames)].events = @ \ {e}]

HandleStart(j) ==
  /\ IsNext(<<j, "start">>)
  /\ frames' = Rest(<<j, "start">>)
  /\ UNCHANGED <<stage, state, abort, running, workerVars, proxy, loop>>

\* Mutant: the events of other jobs are forgotten too.
MutantHandleFinish(j) ==
  /\ IsNext(<<j, "finish">>)
  /\ running' = running \ {j}
  /\ stage' = [stage EXCEPT ![j] = "deleted"]
  /\ loop' = {}
  /\ frames' = Rest(<<j, "finish">>)
  /\ UNCHANGED <<state, abort, workerVars, proxy>>

\* The pool's handler, the last one of the finish event: deleting the job
\* destroys its emitters, which forget their events in the loop's queue, but
\* not in the batches being run.
HandleFinish(j) ==
  /\ IsNext(<<j, "finish">>)
  /\ running' = running \ {j}
  /\ stage' = [stage EXCEPT ![j] = "deleted"]
  /\ loop' = loop \ ({j} \X Kinds)
  /\ frames' = Rest(<<j, "finish">>)
  /\ UNCHANGED <<state, abort, workerVars, proxy>>

Resume(j, yes) ==
  /\ stage' = [stage EXCEPT ![j] = IF yes THEN "running" ELSE "ran"]
  /\ proxied' = IF yes THEN proxied \union {j} ELSE proxied
  /\ state' = IF yes THEN state ELSE [state EXCEPT ![j] = "Failure"]

HandleProxy(j) ==
  /\ IsNext(<<j, "proxy">>)
  /\ IF proxy = "ask"
       THEN /\ frames' = [Rest(<<j, "proxy">>) EXCEPT ![Len(frames)].asking = j]
            /\ UNCHANGED <<stage, state, proxied>>
       ELSE /\ frames' = Rest(<<j, "proxy">>)
            /\ Resume(j, proxy = "yes")
  /\ UNCHANGED <<abort, running, queue, busy, proxy, loop>>

\* The user answers the innermost message box: the download waiting for it goes on.
Answer ==
  /\ frames # <<>>
  /\ Top.asking # NoJob
  /\ \E yes \in BOOLEAN :
       /\ proxy' = IF yes THEN "yes" ELSE "no"
       /\ Resume(Top.asking, yes)
  /\ frames' = [frames EXCEPT ![Len(frames)].asking = NoJob]
  /\ UNCHANGED <<abort, running, queue, busy, loop>>

EndTick ==
  /\ frames # <<>>
  /\ Top = [events |-> {}, asking |-> NoJob]
  /\ frames' = SubSeq(frames, 1, Len(frames) - 1)
  /\ UNCHANGED <<stage, state, abort, running, workerVars, proxy, loop>>

-----------------------------------------------------------------------------
(* The workers: ThreadTask::exec *)

\* Mutant: the job is read and not popped.
MutantTake(w) ==
  /\ busy[w] = NoJob
  /\ queue[w] # <<>>
  /\ busy' = [busy EXCEPT ![w] = Head(queue[w])]
  /\ stage' = [stage EXCEPT ![Head(queue[w])] = "taken"]
  /\ UNCHANGED <<state, abort, running, queue, proxied, proxy, loop, frames>>

Take(w) ==
  /\ busy[w] = NoJob
  /\ queue[w] # <<>>
  /\ busy' = [busy EXCEPT ![w] = Head(queue[w])]
  /\ queue' = [queue EXCEPT ![w] = Tail(@)]
  /\ stage' = [stage EXCEPT ![Head(queue[w])] = "taken"]
  /\ UNCHANGED <<state, abort, running, proxied, proxy, loop, frames>>

Executing(w, s) == busy[w] # NoJob /\ stage[busy[w]] = s

\* An aborted job is not run and emits no start event.
Start(w) ==
  /\ Executing(w, "taken")
  /\ IF abort[busy[w]]
       THEN stage' = [stage EXCEPT ![busy[w]] = "ran"] /\ loop' = loop
       ELSE /\ stage' = [stage EXCEPT ![busy[w]] = "running"]
            /\ loop' = loop \union {<<busy[w], "start">>}
  /\ UNCHANGED <<state, abort, running, workerVars, proxy, frames>>

\* run() returns. (state is a local variable of exec() until Post.)
Run(w) ==
  /\ Executing(w, "running")
  /\ stage' = [stage EXCEPT ![busy[w]] = "ran"]
  /\ \E s \in {"Success", "Failure"} : state' = [state EXCEPT ![busy[w]] = s]
  /\ UNCHANGED <<abort, running, workerVars, proxy, loop, frames>>

\* The server answers 429: wait for the main thread's decision.
Ask(w) ==
  /\ Executing(w, "running")
  /\ busy[w] \in MayAsk \ proxied
  /\ stage' = [stage EXCEPT ![busy[w]] = "asking"]
  /\ loop' = loop \union {<<busy[w], "proxy">>}
  /\ UNCHANGED <<state, abort, running, workerVars, proxy, frames>>

\* Mutant: no second look at the flag.
MutantCheck(w) ==
  /\ Executing(w, "ran")
  /\ stage' = [stage EXCEPT ![busy[w]] = "checked"]
  /\ UNCHANGED <<state, abort, running, workerVars, proxy, loop, frames>>

Check(w) ==
  /\ Executing(w, "ran")
  /\ stage' = [stage EXCEPT ![busy[w]] = "checked"]
  /\ state' = IF abort[busy[w]] THEN [state EXCEPT ![busy[w]] = "Aborted"] ELSE state
  /\ UNCHANGED <<abort, running, workerVars, proxy, loop, frames>>

Post(w) ==
  /\ Executing(w, "checked")
  /\ stage' = [stage EXCEPT ![busy[w]] = "posted"]
  /\ loop' = loop \union {<<busy[w], "finish">>}
  /\ busy' = [busy EXCEPT ![w] = NoJob]
  /\ UNCHANGED <<state, abort, running, queue, proxied, proxy, frames>>

-----------------------------------------------------------------------------
WorkerStep(w) == Take(w) \/ Start(w) \/ Run(w) \/ Ask(w) \/ Check(w) \/ Post(w)

Handle == \E j \in Jobs : HandleStart(j) \/ HandleFinish(j) \/ HandleProxy(j)

MainStep == Tick \/ Handle \/ Answer \/ EndTick

Next ==
  \/ \E j \in Jobs : Push(j)
  \/ Abort
  \/ MainStep
  \/ \E w \in Workers : WorkerStep(w)

\* Threads are scheduled and downloads time out (DOWNLOAD_TIMEOUT); the host
\* runs the timer; handlers return and the user answers message boxes.
Fairness ==
  /\ \A w \in Workers : WF_vars(WorkerStep(w))
  /\ WF_vars(MainStep)

Spec == Init /\ [][Next]_vars /\ Fairness

-----------------------------------------------------------------------------
(* Properties *)

Waiting(j) == {w \in Workers : \E i \in DOMAIN queue[w] : queue[w][i] = j}
Executed(j) == {w \in Workers : busy[w] = j}

\* The events that will still run: those of the loop and of open batches.
Pending == loop \union UNION {frames[i].events : i \in DOMAIN frames}

\* The pool never loses or duplicates a job: each one it believes running is in
\* one place, a worker's queue, a worker's hands, or its finish event, and the
\* pool is idle (onDone) only when nothing is left of any job
\* (thread.cpp:108-114, 125-148).
JobsAreTracked ==
  \A j \in Jobs :
    /\ j \in running <=> stage[j] \notin {"new", "deleted"}
    /\ stage[j] \in {"new", "deleted"} =>
         Waiting(j) = {} /\ Executed(j) = {} /\ <<j, "finish">> \notin Pending
    /\ j \in running =>
         \/ Cardinality(Waiting(j)) = 1 /\ Executed(j) = {} /\ <<j, "finish">> \notin Pending
         \/ Waiting(j) = {} /\ Cardinality(Executed(j)) = 1 /\ <<j, "finish">> \notin Pending
         \/ Waiting(j) = {} /\ Executed(j) = {} /\ <<j, "finish">> \in Pending

\* archive.hpp:63, 76: jobs that share a zip file are never executed by two
\* threads at a time, whatever is pushed and deleted in between.
SerialJobsAlone ==
  \A j, k \in Serial :
    Executed(j) # {} /\ Executed(k) # {} => j = k

\* A job aborted before its last look at the flag never counts as a success or
\* failure (thread.cpp:44-45): nothing it downloaded gets installed.
AbortedJobsEndAborted ==
  \A j \in Jobs :
    []( abort[j] /\ stage[j] \in {"queued", "taken", "running", "asking", "ran"} =>
        [](stage[j] \in {"posted", "deleted"} => state[j] = "Aborted") )

\* The job's progress as the pool's users see it.
AbstractStage ==
  [j \in Jobs |-> CASE stage[j] = "new" -> "new"
                    [] stage[j] = "posted" -> "ended"
                    [] stage[j] = "deleted" -> "reported"
                    [] OTHER -> "running"]

AbstractResult ==
  [j \in Jobs |-> IF stage[j] \in {"posted", "deleted"} THEN state[j] ELSE "Idle"]

Users == INSTANCE TaskPool WITH stage <- AbstractStage, result <- AbstractResult

\* Every job pushed ends once and is reported once, also when batches nest and
\* when downloads wait for the main thread.
ImplementsTaskPool == Users!Spec
=============================================================================
