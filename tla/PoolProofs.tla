------------------------------ MODULE PoolProofs ------------------------------
(***************************************************************************)
(* Proofs about ThreadPool, for any number of jobs and workers and for any  *)
(* nesting of batches: the invariant says where each job and each of its    *)
(* events is, in one place, the one that its stage tells.  Then about       *)
(* InstallJobs, which extends it: the books of the tasks are exact because  *)
(* of how events are ordered, where a start event can still be when its job *)
(* is deleted, and because the pool is not idle as long as there is one.    *)
(***************************************************************************)
EXTENDS InstallJobs, FiniteSetTheorems, SequenceTheorems, TLAPS

Working == {"taken", "running", "asking", "ran", "checked"}

InFrame(e, i) == e \in frames[i].events

\* The pool's own set, from which onDone and the worker of the next job are taken.
RunningTold ==
  /\ IsFiniteSet(running)
  /\ \A j \in Jobs : j \in running <=> stage[j] \notin {"new", "deleted"}

\* A queued job is in one queue, once.
QueuesHold ==
  /\ \A w \in Workers : \A i \in DOMAIN queue[w] : stage[queue[w][i]] = "queued"
  /\ \A w, v \in Workers : \A i \in DOMAIN queue[w], k \in DOMAIN queue[v] :
       queue[w][i] = queue[v][k] => w = v /\ i = k
  /\ \A j \in Jobs : stage[j] = "queued" => Waiting(j) # {}

\* A job that is executed is in the hands of one worker.
HandsHold ==
  /\ \A w \in Workers : busy[w] # NoJob => stage[busy[w]] \in Working
  /\ \A w, v \in Workers : busy[w] = busy[v] /\ busy[w] # NoJob => w = v
  /\ \A j \in Jobs : stage[j] \in Working => Executed(j) # {}

\* An event is in the loop or in one batch.
EventsOnce ==
  /\ \A e \in loop : \A i \in DOMAIN frames : ~InFrame(e, i)
  /\ \A i, k \in DOMAIN frames : \A e \in Events : InFrame(e, i) /\ InFrame(e, k) => i = k

\* A start event is pending only after its job was started.
StartTold ==
  \A j \in Jobs : <<j, "start">> \in Pending => stage[j] \notin {"new", "queued", "taken"}

\* A finish event is pending from the job's end to its deletion.
FinishTold ==
  \A j \in Jobs : <<j, "finish">> \in Pending <=> stage[j] = "posted"

\* A download that waits has a proxy event or a box, not both, and one box.
AskingTold ==
  /\ \A j \in Jobs : <<j, "proxy">> \in Pending => stage[j] = "asking"
  /\ \A i \in DOMAIN frames : frames[i].asking # NoJob =>
       /\ stage[frames[i].asking] = "asking"
       /\ <<frames[i].asking, "proxy">> \notin Pending
  /\ \A i, k \in DOMAIN frames :
       frames[i].asking = frames[k].asking /\ frames[i].asking # NoJob => i = k

\* Jobs that are not concurrent are with the first worker.
SerialOnFirst ==
  \A w \in Workers \ {0} : /\ busy[w] \notin Serial
                           /\ \A i \in DOMAIN queue[w] : queue[w][i] \notin Serial

PoolInv ==
  /\ TypeOK /\ RunningTold /\ QueuesHold /\ HandsHold
  /\ EventsOnce /\ StartTold /\ FinishTold /\ AskingTold /\ SerialOnFirst

-----------------------------------------------------------------------------
(* Pending events and stacks of batches *)

\* An event is pending when it is in the loop or in a batch, before and after a step.
LEMMA PendingIs ==
  /\ \A e : e \in Pending <=> e \in loop \/ \E i \in DOMAIN frames : InFrame(e, i)
  /\ \A e : e \in Pending' <=> e \in loop' \/ \E i \in DOMAIN frames' : InFrame(e, i)'
BY DEF Pending, InFrame

\* The innermost batch is one of the batches.
LEMMA TopIsFrame ==
  ASSUME frames \in Seq(Frames), frames # <<>>
  PROVE  /\ Len(frames) \in Nat \ {0} /\ DOMAIN frames = 1..Len(frames)
         /\ Len(frames) \in DOMAIN frames
         /\ Top \in Frames /\ Top.events \subseteq Events /\ Top.asking \in Jobs \union {NoJob}
<1>1. Len(frames) \in Nat \ {0} /\ DOMAIN frames = 1..Len(frames)
  BY EmptySeq
<1>2. Top \in Frames
  BY <1>1, ElementOfSeq DEF Top
<1> QED BY <1>1, <1>2 DEF Frames

\* A batch is replaced by another in its place.
LEMMA ReplaceFrame ==
  ASSUME NEW s \in Seq(Frames), NEW n \in 1..Len(s), NEW f \in Frames,
         NEW t, t = [s EXCEPT ![n] = f]
  PROVE  /\ t \in Seq(Frames) /\ Len(t) = Len(s) /\ DOMAIN t = DOMAIN s
         /\ \A i \in DOMAIN s : t[i] = IF i = n THEN f ELSE s[i]
<1>1. t \in Seq(Frames) /\ Len(t) = Len(s) /\ \A i \in 1..Len(s) : t[i] = IF i = n THEN f ELSE s[i]
  BY ExceptSeq
<1>2. DOMAIN t = 1..Len(s) /\ DOMAIN s = 1..Len(s)
  BY <1>1
<1> QED BY <1>1, <1>2

\* The box of a batch is a job's, or none.
LEMMA BoxIsAJobs ==
  ASSUME frames \in Seq(Frames)
  PROVE  \A i \in DOMAIN frames : frames[i].asking \in Jobs \union {NoJob}
<1>1. DOMAIN frames = 1..Len(frames)
  OBVIOUS
<1>2. \A i \in DOMAIN frames : frames[i] \in Frames
  BY <1>1, ElementOfSeq
<1> QED BY <1>2 DEF Frames

\* After an event of the innermost batch was handled.
LEMMA RestFrames ==
  ASSUME frames \in Seq(Frames), frames # <<>>, NEW e, frames' = Rest(e)
  PROVE  /\ frames' \in Seq(Frames) /\ Len(frames') = Len(frames)
         /\ DOMAIN frames' = DOMAIN frames
         /\ \A i \in DOMAIN frames : frames'[i].asking = frames[i].asking
         /\ \A i \in DOMAIN frames : \A f :
              InFrame(f, i)' <=> InFrame(f, i) /\ ~(f = e /\ i = Len(frames))
<1> DEFINE n == Len(frames)
           top == [Top EXCEPT !.events = @ \ {e}]
<1>1. n \in 1..n /\ DOMAIN frames = 1..n /\ top \in Frames
  BY TopIsFrame DEF Frames
<1>2. frames' = [frames EXCEPT ![n] = top]
  BY DEF Rest, Top
<1>3. frames' \in Seq(Frames) /\ Len(frames') = n /\ DOMAIN frames' = DOMAIN frames
  BY <1>1, <1>2, ExceptSeq
<1>4. \A i \in DOMAIN frames : frames'[i] = IF i = n THEN top ELSE frames[i]
  BY <1>1, <1>2
<1>5. top.asking = frames[n].asking /\ top.events = frames[n].events \ {e}
  BY TopIsFrame DEF Top, Frames
<1> QED BY <1>3, <1>4, <1>5 DEF InFrame

\* A new batch takes the events of the loop.
LEMMA TickFrames ==
  ASSUME TypeOK, Tick, NEW n, n = Len(frames) + 1
  PROVE  /\ frames' \in Seq(Frames) /\ Len(frames') = n
         /\ n \in Nat \ {0} /\ DOMAIN frames = 1..(n - 1)
         /\ DOMAIN frames' = DOMAIN frames \union {n} /\ n \notin DOMAIN frames
         /\ frames'[n].asking = NoJob
         /\ \A f : InFrame(f, n)' <=> f \in loop
         /\ \A i \in DOMAIN frames : frames'[i] = frames[i]
<1> DEFINE batch == [events |-> loop, asking |-> NoJob]
<1>1. frames \in Seq(Frames) /\ batch \in Frames /\ frames' = Append(frames, batch)
  BY DEF TypeOK, Frames, Tick
<1>2. Len(frames) \in Nat /\ DOMAIN frames = 1..Len(frames)
  BY <1>1
<1>3. /\ frames' \in Seq(Frames) /\ Len(frames') = Len(frames) + 1
      /\ \A i \in 1..Len(frames) : frames'[i] = frames[i]
      /\ frames'[Len(frames) + 1] = batch
  BY <1>1, AppendProperties
<1>4. DOMAIN frames' = 1..(Len(frames) + 1)
  BY <1>3
<1>5. n \notin DOMAIN frames /\ DOMAIN frames' = DOMAIN frames \union {n}
  BY <1>2, <1>4
<1>6. \A f : InFrame(f, n)' <=> f \in loop
  BY <1>3 DEF InFrame
<1> QED BY <1>2, <1>3, <1>5, <1>6

\* A batch that is over had no event left.
LEMMA EndTickFrames ==
  ASSUME TypeOK, EndTick
  PROVE  /\ frames' \in Seq(Frames) /\ Len(frames') = Len(frames) - 1
         /\ DOMAIN frames' = DOMAIN frames \ {Len(frames)}
         /\ Len(frames) \in DOMAIN frames
         /\ \A f : ~InFrame(f, Len(frames))
         /\ \A i \in DOMAIN frames' : frames'[i] = frames[i]
<1>1. /\ frames \in Seq(Frames) /\ frames # <<>>
      /\ frames' = SubSeq(frames, 1, Len(frames) - 1)
      /\ frames[Len(frames)].events = {}
  BY DEF TypeOK, EndTick, Top
<1>2. Len(frames) \in Nat \ {0} /\ DOMAIN frames = 1..Len(frames)
  BY <1>1, TopIsFrame
<1>3. 1 \in 1..(Len(frames) + 1) /\ Len(frames) - 1 \in 0..Len(frames)
  BY <1>2
<1>4. /\ frames' \in Seq(Frames) /\ Len(frames') = Len(frames) - 1
      /\ \A i \in 1..(Len(frames) - 1) : frames'[i] = frames[i]
  BY <1>1, <1>2, SMT
<1>5. DOMAIN frames' = 1..(Len(frames) - 1)
  BY <1>2, <1>4
<1> QED BY <1>1, <1>2, <1>4, <1>5 DEF InFrame

\* A box is opened by the handler of an event, which is then handled.
LEMMA AskFrames ==
  ASSUME frames \in Seq(Frames), frames # <<>>, NEW e, NEW j \in Jobs,
         frames' = [Rest(e) EXCEPT ![Len(frames)].asking = j]
  PROVE  /\ frames' \in Seq(Frames) /\ Len(frames') = Len(frames)
         /\ DOMAIN frames' = DOMAIN frames
         /\ \A i \in DOMAIN frames :
              frames'[i].asking = IF i = Len(frames) THEN j ELSE frames[i].asking
         /\ \A i \in DOMAIN frames : \A f :
              InFrame(f, i)' <=> InFrame(f, i) /\ ~(f = e /\ i = Len(frames))
<1>1. PICK n, rest, top : n = Len(frames) /\ rest = Rest(e) /\ top = [rest[n] EXCEPT !.asking = j]
  OBVIOUS
<1>2. n \in 1..n /\ DOMAIN frames = 1..n /\ Top = frames[n] /\ Top \in Frames
  BY <1>1, TopIsFrame DEF Top
<1>3. rest = [frames EXCEPT ![n] = [Top EXCEPT !.events = @ \ {e}]]
  BY <1>1 DEF Rest, Top
<1>4. [Top EXCEPT !.events = @ \ {e}] \in Frames
  BY <1>2 DEF Frames
<1>5. /\ rest \in Seq(Frames) /\ Len(rest) = n /\ DOMAIN rest = DOMAIN frames
      /\ \A i \in DOMAIN frames :
           rest[i] = IF i = n THEN [Top EXCEPT !.events = @ \ {e}] ELSE frames[i]
  BY <1>1, <1>2, <1>3, <1>4, ReplaceFrame
<1>6. top \in Frames /\ top.asking = j /\ top.events = frames[n].events \ {e}
  BY <1>1, <1>2, <1>5 DEF Frames
<1>7. frames' = [rest EXCEPT ![n] = top]
  BY <1>1
<1>8. /\ frames' \in Seq(Frames) /\ Len(frames') = n /\ DOMAIN frames' = DOMAIN frames
      /\ \A i \in DOMAIN frames : frames'[i] = IF i = n THEN top ELSE rest[i]
  BY ONLY <1>2, <1>5, <1>6, <1>7, ReplaceFrame
<1> QED BY <1>1, <1>5, <1>6, <1>8 DEF InFrame

\* A box is closed by the user's answer.
LEMMA AnswerFrames ==
  ASSUME frames \in Seq(Frames), frames # <<>>,
         frames' = [frames EXCEPT ![Len(frames)].asking = NoJob]
  PROVE  /\ frames' \in Seq(Frames) /\ Len(frames') = Len(frames)
         /\ DOMAIN frames' = DOMAIN frames
         /\ \A i \in DOMAIN frames :
              frames'[i].asking = IF i = Len(frames) THEN NoJob ELSE frames[i].asking
         /\ \A i \in DOMAIN frames : \A f : InFrame(f, i)' <=> InFrame(f, i)
<1> DEFINE n == Len(frames)
           top == [Top EXCEPT !.asking = NoJob]
<1>1. n \in 1..n /\ DOMAIN frames = 1..n /\ Top = frames[n] /\ Top \in Frames
  BY TopIsFrame DEF Top
<1>2. top \in Frames /\ top.asking = NoJob /\ top.events = frames[n].events
  BY <1>1 DEF Frames
<1>3. frames' = [frames EXCEPT ![n] = top]
  BY DEF Top
<1> HIDE DEF top
<1>4. frames' \in Seq(Frames) /\ Len(frames') = n /\ DOMAIN frames' = DOMAIN frames
  BY <1>1, <1>2, <1>3, ExceptSeq
<1>5. \A i \in DOMAIN frames : frames'[i] = IF i = n THEN top ELSE frames[i]
  BY <1>1, <1>3
<1> QED BY <1>2, <1>4, <1>5 DEF InFrame

-----------------------------------------------------------------------------
(* The invariant holds at first *)

\* No job, no batch, no event at first.
LEMMA PoolInit == Init => PoolInv
<1> SUFFICES ASSUME Init PROVE PoolInv
  OBVIOUS
<1>1. /\ frames = <<>> /\ DOMAIN frames = {} /\ loop = {} /\ running = {}
      /\ stage = [j \in Jobs |-> "new"] /\ busy = [w \in Workers |-> NoJob]
      /\ \A w \in Workers : queue[w] = <<>> /\ DOMAIN queue[w] = {}
  BY DEF Init
<1>2. TypeOK
  <2>1. frames \in Seq(Frames) /\ queue \in [Workers -> Seq(Jobs)]
    BY EmptySeq DEF Init
  <2> QED BY <2>1 DEF Init, TypeOK, Stages, States
<1>3. RunningTold
  BY <1>1, FS_EmptySet DEF RunningTold
<1>4. QueuesHold
  BY <1>1 DEF QueuesHold
<1>5. HandsHold
  BY <1>1 DEF HandsHold, Working
<1>6. EventsOnce
  BY <1>1 DEF EventsOnce
<1>7. StartTold /\ FinishTold /\ AskingTold
  BY <1>1, PendingIs DEF StartTold, FinishTold, AskingTold
<1>8. SerialOnFirst
  BY <1>1, ThreadPoolAssumption DEF SerialOnFirst, ThreadPoolAssumption
<1> QED BY <1>2, <1>3, <1>4, <1>5, <1>6, <1>7, <1>8 DEF PoolInv

-----------------------------------------------------------------------------
(* Steps of the main thread *)

\* The worker of the next job exists, and is the first one for serial jobs.
LEMMA WorkerForIsWorker ==
  ASSUME NEW j \in Jobs, NEW n \in Nat
  PROVE  WorkerFor(j, n) \in Workers /\ (j \in Serial => WorkerFor(j, n) = 0)
BY ThreadPoolAssumption DEF WorkerFor, Workers, ThreadPoolAssumption

\* A new job joins the end of one queue.
LEMMA PushKeeps ==
  ASSUME PoolInv, NEW j \in Jobs, Push(j)
  PROVE  PoolInv'
<1> DEFINE w == WorkerFor(j, Cardinality(running'))
<1> USE DEF PoolInv
<1>1. IsFiniteSet(running') /\ running' = running \union {j}
  BY FS_AddElement DEF Push, RunningTold
<1>2. w \in Workers /\ (j \in Serial => w = 0)
  BY <1>1, FS_CardinalityType, WorkerForIsWorker
<1> HIDE DEF w
<1>3. /\ queue' = [queue EXCEPT ![w] = Append(queue[w], j)]
      /\ stage' = [stage EXCEPT ![j] = "queued"] /\ stage[j] = "new"
      /\ UNCHANGED <<state, abort, busy, proxied, proxy, loop, frames>>
  BY DEF Push, PushTo, w
<1>4. /\ queue[w] \in Seq(Jobs) /\ Len(queue[w]) \in Nat
      /\ DOMAIN queue[w] = 1..Len(queue[w])
  BY <1>2 DEF TypeOK
<1>5. /\ Append(queue[w], j) \in Seq(Jobs)
      /\ DOMAIN Append(queue[w], j) = 1..(Len(queue[w]) + 1)
      /\ \A i \in 1..Len(queue[w]) : Append(queue[w], j)[i] = queue[w][i]
      /\ Append(queue[w], j)[Len(queue[w]) + 1] = j
  BY <1>4, AppendProperties
<1>6. /\ queue' \in [Workers -> Seq(Jobs)]
      /\ \A v \in Workers \ {w} : queue'[v] = queue[v]
      /\ queue'[w] = Append(queue[w], j)
  BY <1>2, <1>3, <1>5 DEF TypeOK
<1>7. TypeOK'
  BY <1>1, <1>3, <1>6 DEF TypeOK, Stages
<1>8. RunningTold'
  BY <1>1, <1>3 DEF RunningTold, TypeOK
<1>9. QueuesHold'
  <2>1. \A v \in Workers : \A i \in DOMAIN queue[v] : queue[v][i] # j
    BY <1>3 DEF QueuesHold
  <2>2. \A v \in Workers : \A i \in DOMAIN queue'[v] :
          \/ i \in DOMAIN queue[v] /\ queue'[v][i] = queue[v][i]
          \/ v = w /\ i = Len(queue[w]) + 1 /\ queue'[v][i] = j
    BY <1>4, <1>5, <1>6
  <2>3. \A v \in Workers : \A i \in DOMAIN queue[v] :
          i \in DOMAIN queue'[v] /\ queue'[v][i] = queue[v][i]
    <3> SUFFICES ASSUME NEW v \in Workers, NEW i \in DOMAIN queue[v]
                 PROVE  i \in DOMAIN queue'[v] /\ queue'[v][i] = queue[v][i]
      OBVIOUS
    <3>1. CASE v = w
      BY <3>1, <1>4, <1>5, <1>6
    <3> QED BY <3>1, <1>6
  <2>4. \A v \in Workers : \A i \in DOMAIN queue'[v] : stage'[queue'[v][i]] = "queued"
    BY <1>3, <1>6, <2>1, <2>2 DEF QueuesHold, TypeOK
  <2>5. \A v, u \in Workers : \A i \in DOMAIN queue'[v], k \in DOMAIN queue'[u] :
          queue'[v][i] = queue'[u][k] => v = u /\ i = k
    BY <2>1, <2>2 DEF QueuesHold
  <2>6. \A k \in Jobs : stage'[k] = "queued" => Waiting(k)' # {}
    <3> SUFFICES ASSUME NEW k \in Jobs, stage'[k] = "queued" PROVE Waiting(k)' # {}
      OBVIOUS
    <3>1. CASE k = j
      BY <3>1, <1>2, <1>5, <1>6, <1>4 DEF Waiting
    <3>2. CASE k # j
      <4>1. PICK v \in Workers : \E i \in DOMAIN queue[v] : queue[v][i] = k
        BY <3>2, <1>3 DEF QueuesHold, TypeOK, Waiting
      <4> QED BY <4>1, <2>3 DEF Waiting
    <3> QED BY <3>1, <3>2
  <2> QED BY <2>4, <2>5, <2>6 DEF QueuesHold
<1>10. HandsHold'
  BY <1>3 DEF HandsHold, Working, Executed, TypeOK
<1>11. EventsOnce'
  BY <1>3 DEF EventsOnce, InFrame
<1>12. StartTold' /\ FinishTold' /\ AskingTold'
  BY <1>3 DEF StartTold, FinishTold, AskingTold, Pending, TypeOK
<1>13. SerialOnFirst'
  BY <1>2, <1>3, <1>4, <1>5, <1>6 DEF SerialOnFirst, TypeOK
<1> QED BY <1>7, <1>8, <1>9, <1>10, <1>11, <1>12, <1>13

\* The flags are no part of where jobs and events are.
LEMMA FlagsKeep ==
  ASSUME PoolInv, abort' \in [Jobs -> BOOLEAN],
         UNCHANGED <<stage, state, running, workerVars, proxy, loop, frames>>
  PROVE  PoolInv'
<1>1. TypeOK'
  BY DEF PoolInv, TypeOK, workerVars
<1>2. RunningTold' /\ QueuesHold' /\ HandsHold'
  BY DEF PoolInv, workerVars, RunningTold, QueuesHold, HandsHold, Waiting, Executed
<1>3. EventsOnce' /\ StartTold' /\ FinishTold' /\ AskingTold' /\ SerialOnFirst'
  BY DEF PoolInv, workerVars, EventsOnce, StartTold, FinishTold, AskingTold, SerialOnFirst,
         Pending, InFrame
<1> QED BY <1>1, <1>2, <1>3 DEF PoolInv

\* The cancel button sets the flags of the running jobs.
LEMMA AbortKeeps ==
  ASSUME PoolInv, Abort
  PROVE  PoolInv'
BY FlagsKeep DEF Abort, PoolInv, TypeOK

\* What changes no job, worker or set of running jobs.
LEMMA JobsStay ==
  ASSUME RunningTold, QueuesHold, HandsHold, SerialOnFirst,
         UNCHANGED <<stage, running, queue, busy>>
  PROVE  RunningTold' /\ QueuesHold' /\ HandsHold' /\ SerialOnFirst'
BY DEF RunningTold, QueuesHold, HandsHold, SerialOnFirst, Waiting, Executed

\* The events of the loop change place, all at once.
LEMMA TickKeeps ==
  ASSUME PoolInv, Tick
  PROVE  PoolInv'
<1> DEFINE n == Len(frames) + 1
<1> USE DEF PoolInv
<1>1. UNCHANGED <<stage, state, abort, running, queue, busy, proxied, proxy>> /\ loop' = {}
  BY DEF Tick, workerVars
<1>2. /\ frames' \in Seq(Frames)
      /\ DOMAIN frames' = DOMAIN frames \union {n} /\ n \notin DOMAIN frames
      /\ frames'[n].asking = NoJob
      /\ \A f : f \in frames'[n].events <=> f \in loop
      /\ \A i \in DOMAIN frames : frames'[i] = frames[i]
  BY TickFrames DEF InFrame
<1> HIDE DEF n
<1>3. \A e : e \in Pending' <=> e \in Pending
  BY <1>1, <1>2, PendingIs DEF InFrame
<1>4. TypeOK'
  BY <1>1, <1>2 DEF TypeOK
<1>5. RunningTold' /\ QueuesHold' /\ HandsHold' /\ SerialOnFirst'
  BY <1>1, JobsStay
<1>6. EventsOnce'
  BY <1>1, <1>2 DEF EventsOnce, InFrame
<1>7. StartTold' /\ FinishTold' /\ AskingTold'
  BY <1>1, <1>2, <1>3 DEF StartTold, FinishTold, AskingTold
<1> QED BY <1>4, <1>5, <1>6, <1>7

\* A start event is handled.
LEMMA HandleStartKeeps ==
  ASSUME PoolInv, NEW j \in Jobs, HandleStart(j)
  PROVE  PoolInv'
<1> DEFINE e == <<j, "start">>
<1> USE DEF PoolInv
<1>1. /\ UNCHANGED <<stage, state, abort, running, queue, busy, proxied, proxy, loop>>
      /\ frames # <<>> /\ frames' = Rest(e)
  BY DEF HandleStart, IsNext, workerVars
<1>2. /\ frames' \in Seq(Frames) /\ DOMAIN frames' = DOMAIN frames
      /\ \A i \in DOMAIN frames : frames'[i].asking = frames[i].asking
      /\ \A i \in DOMAIN frames : \A f :
           InFrame(f, i)' <=> InFrame(f, i) /\ ~(f = e /\ i = Len(frames))
  BY <1>1, RestFrames DEF TypeOK
<1>3. \A k \in Jobs : /\ <<k, "start">> \in Pending' => <<k, "start">> \in Pending
                      /\ <<k, "finish">> \in Pending' <=> <<k, "finish">> \in Pending
                      /\ <<k, "proxy">> \in Pending' <=> <<k, "proxy">> \in Pending
  BY <1>1, <1>2, PendingIs
<1>4. TypeOK'
  BY <1>1, <1>2 DEF TypeOK
<1>5. RunningTold' /\ QueuesHold' /\ HandsHold' /\ SerialOnFirst'
  BY <1>1, JobsStay
<1>6. EventsOnce'
  BY <1>1, <1>2 DEF EventsOnce
<1>7. StartTold' /\ FinishTold' /\ AskingTold'
  <2>1. \A i \in DOMAIN frames : frames[i].asking \in Jobs \union {NoJob}
    BY BoxIsAJobs DEF TypeOK
  <2> QED BY <1>1, <1>2, <1>3, <2>1 DEF StartTold, FinishTold, AskingTold
<1> QED BY <1>4, <1>5, <1>6, <1>7

\* The pool deletes a job: its other events are gone, or of no more use.
LEMMA HandleFinishKeeps ==
  ASSUME PoolInv, NEW j \in Jobs, HandleFinish(j)
  PROVE  PoolInv'
<1> DEFINE e == <<j, "finish">>
<1> USE DEF PoolInv
<1>1. /\ UNCHANGED <<state, abort, queue, busy, proxied, proxy>>
      /\ running' = running \ {j} /\ stage' = [stage EXCEPT ![j] = "deleted"]
      /\ loop' = loop \ ({j} \X Kinds)
      /\ frames # <<>> /\ frames' = Rest(e) /\ e \in Top.events
  BY DEF HandleFinish, IsNext, workerVars
<1>2. /\ frames' \in Seq(Frames) /\ DOMAIN frames' = DOMAIN frames
      /\ \A i \in DOMAIN frames : frames'[i].asking = frames[i].asking
      /\ \A i \in DOMAIN frames : \A f :
           InFrame(f, i)' <=> InFrame(f, i) /\ ~(f = e /\ i = Len(frames))
  BY <1>1, RestFrames DEF TypeOK
<1>3. Len(frames) \in DOMAIN frames /\ InFrame(e, Len(frames)) /\ e \in Events
  BY <1>1, TopIsFrame DEF TypeOK, InFrame, Top, Events, Kinds
<1>4. stage[j] = "posted" /\ e \notin Pending'
  <2>1. e \in Pending
    BY <1>3, PendingIs
  <2>2. \A i \in DOMAIN frames : InFrame(e, i) => i = Len(frames)
    BY <1>3 DEF EventsOnce
  <2> QED BY <1>1, <1>2, <1>3, <2>1, <2>2, PendingIs DEF FinishTold, EventsOnce
<1>5. \A k \in Jobs \ {j} : /\ <<k, "finish">> \in Pending' <=> <<k, "finish">> \in Pending
                            /\ <<k, "proxy">> \in Pending' <=> <<k, "proxy">> \in Pending
  BY <1>1, <1>2, PendingIs
<1>6. <<j, "proxy">> \notin Pending'
  <2>1. <<j, "proxy">> \notin Pending
    BY <1>4 DEF AskingTold
  <2> QED BY <1>1, <1>2, <2>1, PendingIs
<1>7. TypeOK'
  BY <1>1, <1>2 DEF TypeOK, Stages
<1>8. RunningTold'
  BY <1>1, <1>4, FS_RemoveElement DEF RunningTold, TypeOK
<1>9. QueuesHold' /\ HandsHold' /\ SerialOnFirst'
  <2>1. QueuesHold'
    BY <1>1, <1>4 DEF QueuesHold, Waiting, TypeOK
  <2>2. HandsHold'
    BY <1>1, <1>4 DEF HandsHold, Executed, TypeOK, Working
  <2> QED BY <1>1, <2>1, <2>2 DEF SerialOnFirst
<1>10. EventsOnce'
  BY <1>1, <1>2 DEF EventsOnce
<1>11. StartTold' /\ FinishTold'
  <2>1. \A f : f \in Pending' => f \in Pending
    BY <1>1, <1>2, PendingIs
  <2>2. StartTold'
    BY <1>1, <2>1 DEF StartTold, TypeOK
  <2> QED BY <1>1, <1>4, <1>5, <2>2 DEF FinishTold, TypeOK
<1>12. AskingTold'
  <2>1. \A i \in DOMAIN frames : frames[i].asking \in Jobs \union {NoJob} /\ frames[i].asking # j
    BY <1>4, BoxIsAJobs, ThreadPoolAssumption DEF TypeOK, AskingTold, ThreadPoolAssumption
  <2>2. \A k \in Jobs : <<k, "proxy">> \in Pending' => stage'[k] = "asking"
    BY <1>1, <1>5, <1>6 DEF AskingTold, TypeOK
  <2>3. \A i \in DOMAIN frames : frames[i].asking # NoJob =>
          stage'[frames[i].asking] = "asking" /\ <<frames[i].asking, "proxy">> \notin Pending'
    BY <1>1, <1>5, <2>1 DEF AskingTold, TypeOK
  <2> QED BY <1>2, <2>2, <2>3 DEF AskingTold
<1> QED BY <1>7, <1>8, <1>9, <1>10, <1>11, <1>12

\* A job that waited for the main thread goes on, or fails.
LEMMA ResumeJobs ==
  ASSUME TypeOK, RunningTold, QueuesHold, HandsHold, SerialOnFirst,
         NEW j \in Jobs, stage[j] = "asking", NEW yes \in BOOLEAN, Resume(j, yes),
         UNCHANGED <<running, queue, busy>>
  PROVE  /\ RunningTold' /\ QueuesHold' /\ HandsHold' /\ SerialOnFirst'
         /\ stage' \in [Jobs -> Stages] /\ state' \in [Jobs -> States] /\ proxied' \subseteq Jobs
         /\ stage'[j] \in {"running", "ran"}
         /\ \A k \in Jobs \ {j} : stage'[k] = stage[k]
<1>1. /\ stage' \in [Jobs -> Stages] /\ state' \in [Jobs -> States] /\ proxied' \subseteq Jobs
      /\ stage'[j] \in {"running", "ran"}
      /\ \A k \in Jobs \ {j} : stage'[k] = stage[k]
  BY DEF Resume, TypeOK, Stages, States
<1>2. RunningTold'
  BY <1>1 DEF RunningTold
<1>3. QueuesHold'
  BY <1>1 DEF QueuesHold, Waiting, TypeOK
<1>4. HandsHold'
  BY <1>1 DEF HandsHold, Executed, TypeOK, Working
<1>5. SerialOnFirst'
  BY DEF SerialOnFirst
<1> QED BY <1>1, <1>2, <1>3, <1>4, <1>5

\* A download's question is asked, or answered as before.
LEMMA HandleProxyKeeps ==
  ASSUME PoolInv, NEW j \in Jobs, HandleProxy(j)
  PROVE  PoolInv' /\ stage[j] = "asking"
<1> DEFINE e == <<j, "proxy">>
           n == Len(frames)
<1> USE DEF PoolInv
<1>1. /\ UNCHANGED <<abort, running, queue, busy, proxy, loop>>
      /\ frames # <<>> /\ e \in Top.events /\ Top.asking = NoJob
  BY DEF HandleProxy, IsNext
<1>2. n \in DOMAIN frames /\ InFrame(e, n) /\ e \in Events /\ frames[n].asking = NoJob
  BY <1>1, TopIsFrame DEF TypeOK, InFrame, Top, Events, Kinds
<1>3. \A i \in DOMAIN frames : InFrame(e, i) => i = n
  BY <1>2 DEF EventsOnce
<1>4. e \notin loop /\ e \in Pending /\ stage[j] = "asking"
  BY <1>2, PendingIs DEF EventsOnce, AskingTold
<1>5. \A i \in DOMAIN frames : frames[i].asking # j
  BY <1>4, ThreadPoolAssumption DEF AskingTold, ThreadPoolAssumption
<1>6. CASE proxy = "ask"
  <2>1. frames' = [Rest(e) EXCEPT ![n].asking = j] /\ UNCHANGED <<stage, state, proxied>>
    BY <1>6 DEF HandleProxy
  <2>2. /\ frames' \in Seq(Frames) /\ DOMAIN frames' = DOMAIN frames
        /\ \A i \in DOMAIN frames :
             frames'[i].asking = IF i = n THEN j ELSE frames[i].asking
        /\ \A i \in DOMAIN frames : \A f :
             InFrame(f, i)' <=> InFrame(f, i) /\ ~(f = e /\ i = n)
    BY <1>1, <2>1, AskFrames DEF TypeOK
  <2>3. e \notin Pending' /\ \A f : f # e => (f \in Pending' <=> f \in Pending)
    BY <1>1, <1>3, <1>4, <2>2, PendingIs
  <2>4. TypeOK'
    BY <1>1, <2>1, <2>2 DEF TypeOK
  <2>5. RunningTold' /\ QueuesHold' /\ HandsHold' /\ SerialOnFirst'
    BY <1>1, <2>1, JobsStay
  <2>6. EventsOnce'
    BY <1>1, <2>2 DEF EventsOnce
  <2>7. StartTold' /\ FinishTold'
    BY <2>1, <2>3 DEF StartTold, FinishTold
  <2>8. AskingTold'
    <3>1. \A k \in Jobs : <<k, "proxy">> \in Pending' => stage'[k] = "asking"
      BY <2>1, <2>3 DEF AskingTold
    <3>2. \A i \in DOMAIN frames : frames[i].asking \in Jobs \union {NoJob}
      BY BoxIsAJobs DEF TypeOK
    <3>3. \A i \in DOMAIN frames : frames'[i].asking # NoJob =>
            stage'[frames'[i].asking] = "asking" /\ <<frames'[i].asking, "proxy">> \notin Pending'
      <4> SUFFICES ASSUME NEW i \in DOMAIN frames, frames'[i].asking # NoJob
                   PROVE  /\ stage'[frames'[i].asking] = "asking"
                          /\ <<frames'[i].asking, "proxy">> \notin Pending'
        OBVIOUS
      <4>1. CASE i = n
        BY <4>1, <1>4, <2>1, <2>2, <2>3
      <4>2. CASE i # n
        <5>1. frames'[i].asking = frames[i].asking /\ frames[i].asking # j
          BY <4>2, <1>5, <2>2
        <5> QED BY <5>1, <2>1, <2>3 DEF AskingTold
      <4> QED BY <4>1, <4>2
    <3>4. \A i, k \in DOMAIN frames :
            frames'[i].asking = frames'[k].asking /\ frames'[i].asking # NoJob => i = k
      BY <1>5, <2>2 DEF AskingTold
    <3> QED BY <2>2, <3>1, <3>3, <3>4 DEF AskingTold
  <2> QED BY <1>4, <2>4, <2>5, <2>6, <2>7, <2>8
<1>7. CASE proxy # "ask"
  <2>1. frames' = Rest(e) /\ Resume(j, proxy = "yes")
    BY <1>7 DEF HandleProxy
  <2>2. /\ frames' \in Seq(Frames) /\ DOMAIN frames' = DOMAIN frames
        /\ \A i \in DOMAIN frames : frames'[i].asking = frames[i].asking
        /\ \A i \in DOMAIN frames : \A f :
             InFrame(f, i)' <=> InFrame(f, i) /\ ~(f = e /\ i = n)
    BY <1>1, <2>1, RestFrames DEF TypeOK
  <2>3. e \notin Pending' /\ \A f : f # e => (f \in Pending' <=> f \in Pending)
    BY <1>1, <1>3, <1>4, <2>2, PendingIs
  <2>4. /\ RunningTold' /\ QueuesHold' /\ HandsHold' /\ SerialOnFirst'
        /\ stage' \in [Jobs -> Stages] /\ state' \in [Jobs -> States] /\ proxied' \subseteq Jobs
        /\ stage'[j] \in {"running", "ran"}
        /\ \A k \in Jobs \ {j} : stage'[k] = stage[k]
    BY <1>1, <1>4, <2>1, ResumeJobs
  <2>5. TypeOK'
    BY <1>1, <2>2, <2>4 DEF TypeOK
  <2>6. EventsOnce'
    BY <1>1, <2>2 DEF EventsOnce
  <2>7. StartTold' /\ FinishTold'
    BY <1>4, <2>3, <2>4 DEF StartTold, FinishTold
  <2>8. AskingTold'
    <3>1. \A i \in DOMAIN frames : frames[i].asking \in Jobs \union {NoJob}
      BY BoxIsAJobs DEF TypeOK
    <3> QED BY <1>5, <2>2, <2>3, <2>4, <3>1 DEF AskingTold
  <2> QED BY <1>4, <2>4, <2>5, <2>6, <2>7, <2>8
<1> QED BY <1>6, <1>7

\* The download whose box is closed goes on.
LEMMA AnswerKeeps ==
  ASSUME PoolInv, Answer
  PROVE  PoolInv' /\ stage[Top.asking] = "asking" /\ Top.asking \in Jobs
<1> DEFINE n == Len(frames)
           j == Top.asking
<1> USE DEF PoolInv
<1>1. /\ UNCHANGED <<abort, running, queue, busy, loop>>
      /\ frames # <<>> /\ j # NoJob
      /\ frames' = [frames EXCEPT ![n].asking = NoJob]
      /\ proxy' \in {"yes", "no"}
  BY DEF Answer
<1>2. n \in DOMAIN frames /\ j \in Jobs /\ frames[n].asking = j
  BY <1>1, TopIsFrame DEF TypeOK, Top
<1>3. stage[j] = "asking" /\ <<j, "proxy">> \notin Pending
  BY <1>1, <1>2 DEF AskingTold
<1>4. PICK yes \in BOOLEAN : Resume(j, yes)
  BY DEF Answer
<1> HIDE DEF j
<1>5. /\ frames' \in Seq(Frames) /\ DOMAIN frames' = DOMAIN frames
      /\ \A i \in DOMAIN frames :
           frames'[i].asking = IF i = n THEN NoJob ELSE frames[i].asking
      /\ \A i \in DOMAIN frames : \A f : InFrame(f, i)' <=> InFrame(f, i)
  BY <1>1, AnswerFrames DEF TypeOK
<1>6. \A f : f \in Pending' <=> f \in Pending
  BY <1>1, <1>5, PendingIs
<1>7. /\ RunningTold' /\ QueuesHold' /\ HandsHold' /\ SerialOnFirst'
      /\ stage' \in [Jobs -> Stages] /\ state' \in [Jobs -> States] /\ proxied' \subseteq Jobs
      /\ stage'[j] \in {"running", "ran"}
      /\ \A k \in Jobs \ {j} : stage'[k] = stage[k]
  BY <1>1, <1>2, <1>3, <1>4, ResumeJobs
<1>8. TypeOK'
  BY <1>1, <1>5, <1>7 DEF TypeOK
<1>9. EventsOnce'
  BY <1>1, <1>5 DEF EventsOnce
<1>10. StartTold' /\ FinishTold'
  BY <1>3, <1>6, <1>7 DEF StartTold, FinishTold
<1>11. AskingTold'
  <2>1. \A i \in DOMAIN frames : frames[i].asking \in Jobs \union {NoJob}
    BY BoxIsAJobs DEF TypeOK
  <2>2. \A i \in DOMAIN frames \ {n} : frames[i].asking # j
    BY <1>1, <1>2 DEF AskingTold, j
  <2> QED BY <1>3, <1>5, <1>6, <1>7, <2>1, <2>2 DEF AskingTold
<1> QED BY <1>2, <1>3, <1>7, <1>8, <1>9, <1>10, <1>11 DEF j

\* A batch that is over is left.
LEMMA EndTickKeeps ==
  ASSUME PoolInv, EndTick
  PROVE  PoolInv'
<1> USE DEF PoolInv
<1>1. UNCHANGED <<stage, state, abort, running, queue, busy, proxied, proxy, loop>>
  BY DEF EndTick, workerVars
<1>2. /\ frames' \in Seq(Frames)
      /\ DOMAIN frames' = DOMAIN frames \ {Len(frames)}
      /\ \A f : ~InFrame(f, Len(frames))
      /\ \A i \in DOMAIN frames' : frames'[i] = frames[i]
  BY EndTickFrames
<1>3. \A f : f \in Pending' <=> f \in Pending
  BY <1>1, <1>2, PendingIs DEF InFrame
<1>4. TypeOK'
  BY <1>1, <1>2 DEF TypeOK
<1>5. RunningTold' /\ QueuesHold' /\ HandsHold' /\ SerialOnFirst'
  BY <1>1, JobsStay
<1>6. EventsOnce'
  BY <1>1, <1>2 DEF EventsOnce, InFrame
<1>7. StartTold' /\ FinishTold' /\ AskingTold'
  BY <1>1, <1>2, <1>3 DEF StartTold, FinishTold, AskingTold
<1> QED BY <1>4, <1>5, <1>6, <1>7

-----------------------------------------------------------------------------
(* Steps of the workers *)

\* A worker's job goes from a stage of its execution to another.
LEMMA HandMoves ==
  ASSUME PoolInv, NEW w \in Workers, NEW s \in Working, busy[w] # NoJob,
         stage' = [stage EXCEPT ![busy[w]] = s],
         UNCHANGED <<running, queue, busy>>
  PROVE  /\ RunningTold' /\ QueuesHold' /\ HandsHold' /\ SerialOnFirst'
         /\ stage' \in [Jobs -> Stages]
<1> DEFINE j == busy[w]
<1>1. j \in Jobs /\ stage[j] \in Working
  BY DEF PoolInv, TypeOK, HandsHold
<1> HIDE DEF j
<1>2. /\ stage' \in [Jobs -> Stages] /\ stage'[j] \in Working
      /\ \A k \in Jobs \ {j} : stage'[k] = stage[k]
  BY <1>1 DEF PoolInv, TypeOK, Stages, Working, j
<1>3. RunningTold'
  BY <1>1, <1>2 DEF PoolInv, RunningTold, Working
<1>4. QueuesHold'
  BY <1>1, <1>2 DEF PoolInv, QueuesHold, Waiting, Working, TypeOK
<1>5. HandsHold'
  BY <1>1, <1>2 DEF PoolInv, HandsHold, Executed, TypeOK
<1> QED BY <1>2, <1>3, <1>4, <1>5 DEF PoolInv, SerialOnFirst

\* A worker posts an event that was not pending.
LEMMA EventPosted ==
  ASSUME PoolInv, NEW e \in Events, e \notin Pending,
         loop' = loop \union {e}, UNCHANGED frames
  PROVE  EventsOnce' /\ loop' \subseteq Events /\ \A f : f \in Pending' <=> f \in Pending \/ f = e
BY PendingIs DEF PoolInv, EventsOnce, InFrame, TypeOK

\* A job goes from the head of a queue to the hands of its worker.
LEMMA TakeKeeps ==
  ASSUME PoolInv, NEW w \in Workers, Take(w)
  PROVE  PoolInv'
<1> DEFINE j == Head(queue[w])
<1> USE DEF PoolInv
<1>1. /\ busy[w] = NoJob /\ queue[w] # <<>>
      /\ busy' = [busy EXCEPT ![w] = j] /\ queue' = [queue EXCEPT ![w] = Tail(queue[w])]
      /\ stage' = [stage EXCEPT ![j] = "taken"]
      /\ UNCHANGED <<state, abort, running, proxied, proxy, loop, frames>>
  BY DEF Take
<1>2. queue[w] \in Seq(Jobs)
  BY DEF TypeOK
<1>3. /\ Len(queue[w]) \in Nat \ {0} /\ DOMAIN queue[w] = 1..Len(queue[w])
      /\ j \in Jobs /\ j = queue[w][1] /\ 1 \in DOMAIN queue[w]
  BY <1>1, <1>2, EmptySeq, ElementOfSeq
<1>4. /\ Tail(queue[w]) \in Seq(Jobs)
      /\ DOMAIN Tail(queue[w]) = 1..(Len(queue[w]) - 1)
      /\ \A i \in 1..(Len(queue[w]) - 1) : Tail(queue[w])[i] = queue[w][i + 1]
  BY <1>1, <1>2, <1>3
<1> HIDE DEF j
<1>5. /\ queue' \in [Workers -> Seq(Jobs)] /\ queue'[w] = Tail(queue[w])
      /\ \A v \in Workers \ {w} : queue'[v] = queue[v]
  BY <1>1, <1>4 DEF TypeOK
<1>6. stage[j] = "queued" /\ stage'[j] = "taken" /\ \A k \in Jobs \ {j} : stage'[k] = stage[k]
  BY <1>1, <1>3 DEF QueuesHold, TypeOK
<1>7. busy'[w] = j /\ \A v \in Workers \ {w} : busy'[v] = busy[v]
  BY <1>1 DEF TypeOK
<1>8. TypeOK'
  BY <1>1, <1>3, <1>5 DEF TypeOK, Stages
<1>9. RunningTold'
  BY <1>1, <1>3, <1>6 DEF RunningTold
<1>10. QueuesHold'
  <2>1. \A v \in Workers : \A i \in DOMAIN queue'[v] :
          \E k \in DOMAIN queue[v] : /\ queue'[v][i] = queue[v][k]
                                     /\ k = IF v = w THEN i + 1 ELSE i
                                     /\ ~(v = w /\ k = 1)
    <3> SUFFICES ASSUME NEW v \in Workers, NEW i \in DOMAIN queue'[v]
                 PROVE  \E k \in DOMAIN queue[v] : /\ queue'[v][i] = queue[v][k]
                                                   /\ k = IF v = w THEN i + 1 ELSE i
                                                   /\ ~(v = w /\ k = 1)
      OBVIOUS
    <3>1. CASE v = w
      <4>1. i \in 1..(Len(queue[w]) - 1) /\ queue'[w][i] = queue[w][i + 1]
        BY <1>4, <1>5, <3>1
      <4>2. i + 1 \in DOMAIN queue[w] /\ i + 1 # 1
        BY <1>3, <4>1
      <4> QED BY <3>1, <4>1, <4>2
    <3>2. CASE v # w
      BY <1>5, <3>2
    <3> QED BY <3>1, <3>2
  <2>2. \A v \in Workers : \A i \in DOMAIN queue'[v] : queue'[v][i] \in Jobs \ {j}
    <3>1. \A v \in Workers : \A k \in DOMAIN queue[v] : queue[v][k] \in Jobs
      BY ElementOfSeq DEF TypeOK
    <3>2. \A v \in Workers : \A k \in DOMAIN queue[v] : queue[v][k] = j => v = w /\ k = 1
      BY <1>3 DEF QueuesHold
    <3> QED BY <2>1, <3>1, <3>2
  <2>3. \A v \in Workers : \A i \in DOMAIN queue'[v] : stage'[queue'[v][i]] = "queued"
    BY <1>6, <2>1, <2>2 DEF QueuesHold
  <2>4. \A v, u \in Workers : \A i \in DOMAIN queue'[v], k \in DOMAIN queue'[u] :
          queue'[v][i] = queue'[u][k] => v = u /\ i = k
    <3> SUFFICES ASSUME NEW v \in Workers, NEW u \in Workers, NEW i \in DOMAIN queue'[v],
                        NEW k \in DOMAIN queue'[u], queue'[v][i] = queue'[u][k]
                 PROVE  v = u /\ i = k
      OBVIOUS
    <3>1. i \in Nat /\ k \in Nat
      BY <1>5
    <3>2. PICK a \in DOMAIN queue[v] :
            queue'[v][i] = queue[v][a] /\ a = IF v = w THEN i + 1 ELSE i
      BY <2>1
    <3>3. PICK b \in DOMAIN queue[u] :
            queue'[u][k] = queue[u][b] /\ b = IF u = w THEN k + 1 ELSE k
      BY <2>1
    <3>4. queue[v][a] = queue[u][b]
      BY <3>2, <3>3
    <3>5. v = u /\ a = b
      BY ONLY <3>4, QueuesHold, v \in Workers, u \in Workers, a \in DOMAIN queue[v],
              b \in DOMAIN queue[u] DEF QueuesHold
    <3> QED BY <3>1, <3>2, <3>3, <3>5
  <2>5. \A k \in Jobs : stage'[k] = "queued" => Waiting(k)' # {}
    <3> SUFFICES ASSUME NEW k \in Jobs, stage'[k] = "queued" PROVE Waiting(k)' # {}
      OBVIOUS
    <3>1. k # j /\ stage[k] = "queued"
      BY <1>6
    <3>2. PICK v \in Workers : \E i \in DOMAIN queue[v] : queue[v][i] = k
      BY <3>1 DEF QueuesHold, Waiting
    <3>3. PICK i \in DOMAIN queue[v] : queue[v][i] = k
      BY <3>2
    <3>4. CASE v = w
      <4>1. i \in 2..Len(queue[w]) /\ i - 1 \in 1..(Len(queue[w]) - 1) /\ (i - 1) + 1 = i
        BY <1>3, <3>1, <3>3, <3>4
      <4>2. i - 1 \in DOMAIN queue'[w] /\ queue'[w][i - 1] = k
        BY <1>4, <1>5, <3>3, <3>4, <4>1
      <4> QED BY <4>2 DEF Waiting
    <3>5. CASE v # w
      BY <1>5, <3>3, <3>5 DEF Waiting
    <3> QED BY <3>4, <3>5
  <2> QED BY <2>3, <2>4, <2>5 DEF QueuesHold
<1>11. HandsHold'
  <2>1. \A v \in Workers \ {w} : busy[v] # j
    BY <1>3, <1>6, ThreadPoolAssumption DEF HandsHold, Working, ThreadPoolAssumption
  <2>2. \A v \in Workers : busy'[v] # NoJob => stage'[busy'[v]] \in Working
    BY <1>6, <1>7, <2>1 DEF HandsHold, Working, TypeOK
  <2>3. \A v, u \in Workers : busy'[v] = busy'[u] /\ busy'[v] # NoJob => v = u
    BY <1>7, <2>1 DEF HandsHold
  <2>4. \A k \in Jobs : stage'[k] \in Working => Executed(k)' # {}
    <3> SUFFICES ASSUME NEW k \in Jobs, stage'[k] \in Working PROVE Executed(k)' # {}
      OBVIOUS
    <3>1. CASE k = j
      BY <1>7, <3>1 DEF Executed
    <3>2. CASE k # j
      <4>1. PICK v \in Workers : busy[v] = k
        BY <1>6, <3>2 DEF HandsHold, Executed
      <4>2. v # w
        BY <1>1, <4>1, ThreadPoolAssumption DEF ThreadPoolAssumption
      <4> QED BY <1>7, <4>1, <4>2 DEF Executed
    <3> QED BY <3>1, <3>2
  <2> QED BY <2>2, <2>3, <2>4 DEF HandsHold
<1>12. EventsOnce' /\ StartTold' /\ FinishTold' /\ AskingTold'
  <2>1. EventsOnce'
    BY <1>1 DEF EventsOnce, InFrame
  <2>2. StartTold' /\ FinishTold'
    BY <1>1, <1>3, <1>6 DEF StartTold, FinishTold, Pending
  <2>3. AskingTold'
    <3>1. \A i \in DOMAIN frames : frames[i].asking \in Jobs \union {NoJob}
      BY BoxIsAJobs DEF TypeOK
    <3> QED BY <1>1, <1>3, <1>6, <3>1 DEF AskingTold, Pending
  <2> QED BY <2>1, <2>2, <2>3
<1>13. SerialOnFirst'
  <2>1. \A v \in Workers \ {0} : busy'[v] \notin Serial
    BY <1>3, <1>7 DEF SerialOnFirst
  <2>2. \A v \in Workers \ {0} : \A i \in DOMAIN queue'[v] : queue'[v][i] \notin Serial
    <3> SUFFICES ASSUME NEW v \in Workers \ {0}, NEW i \in DOMAIN queue'[v]
                 PROVE  queue'[v][i] \notin Serial
      OBVIOUS
    <3>1. CASE v = w
      <4>1. i \in 1..(Len(queue[w]) - 1) /\ queue'[w][i] = queue[w][i + 1]
        BY <1>4, <1>5, <3>1
      <4>2. i + 1 \in DOMAIN queue[w]
        BY <1>3, <4>1
      <4> QED BY <3>1, <4>1, <4>2 DEF SerialOnFirst
    <3>2. CASE v # w
      BY <1>5, <3>2 DEF SerialOnFirst
    <3> QED BY <3>1, <3>2
  <2> QED BY <2>1, <2>2 DEF SerialOnFirst
<1> QED BY <1>8, <1>9, <1>10, <1>11, <1>12, <1>13

\* What a worker's step keeps when it posts no event and moves no job out of its hands.
LEMMA EventsStay ==
  ASSUME PoolInv, NEW w \in Workers, NEW s \in Working, busy[w] # NoJob,
         stage[busy[w]] \in {"taken", "running", "ran"}, s # "taken",
         stage' = [stage EXCEPT ![busy[w]] = s], UNCHANGED <<loop, frames>>
  PROVE  EventsOnce' /\ StartTold' /\ FinishTold' /\ AskingTold'
<1> USE DEF PoolInv
<1>1. PICK j \in Jobs : j = busy[w]
  BY DEF TypeOK
<1>2. stage'[j] = s /\ \A k \in Jobs \ {j} : stage'[k] = stage[k]
  BY <1>1 DEF TypeOK
<1>3. Pending' = Pending
  BY DEF Pending
<1>4. EventsOnce'
  BY DEF EventsOnce, InFrame
<1>5. StartTold' /\ FinishTold'
  BY <1>1, <1>2, <1>3 DEF StartTold, FinishTold, Working
<1>6. AskingTold'
  <2>1. \A i \in DOMAIN frames : frames[i].asking \in Jobs \union {NoJob}
    BY BoxIsAJobs DEF TypeOK
  <2> QED BY <1>1, <1>2, <1>3, <2>1 DEF AskingTold
<1> QED BY <1>4, <1>5, <1>6

\* A worker starts its job, or skips it.
LEMMA StartKeeps ==
  ASSUME PoolInv, NEW w \in Workers, Start(w)
  PROVE  PoolInv'
<1> USE DEF PoolInv
<1>1. PICK j \in Jobs : j = busy[w] /\ j # NoJob /\ stage[j] = "taken"
  BY DEF Start, Executing, TypeOK
<1>2. UNCHANGED <<state, abort, running, queue, busy, proxied, proxy, frames>>
  BY DEF Start, workerVars
<1>3. CASE abort[j]
  <2>1. stage' = [stage EXCEPT ![busy[w]] = "ran"] /\ loop' = loop
    BY <1>1, <1>3 DEF Start
  <2>2. /\ RunningTold' /\ QueuesHold' /\ HandsHold' /\ SerialOnFirst'
        /\ stage' \in [Jobs -> Stages]
    BY <1>1, <1>2, <2>1, HandMoves DEF Working
  <2>3. EventsOnce' /\ StartTold' /\ FinishTold' /\ AskingTold'
    BY <1>1, <1>2, <2>1, EventsStay DEF Working
  <2>4. TypeOK'
    BY <1>2, <2>1, <2>2 DEF TypeOK
  <2> QED BY <2>2, <2>3, <2>4
<1>4. CASE ~abort[j]
  <2> DEFINE e == <<j, "start">>
  <2>1. stage' = [stage EXCEPT ![busy[w]] = "running"] /\ loop' = loop \union {e}
    BY <1>1, <1>4 DEF Start
  <2>2. /\ RunningTold' /\ QueuesHold' /\ HandsHold' /\ SerialOnFirst'
        /\ stage' \in [Jobs -> Stages]
    BY <1>1, <1>2, <2>1, HandMoves DEF Working
  <2>3. e \in Events /\ e \notin Pending
    BY <1>1 DEF StartTold, Events, Kinds
  <2>4. EventsOnce' /\ loop' \subseteq Events /\ \A f : f \in Pending' <=> f \in Pending \/ f = e
    BY <1>2, <2>1, <2>3, EventPosted
  <2>5. stage'[j] = "running" /\ \A k \in Jobs \ {j} : stage'[k] = stage[k]
    BY <1>1, <2>1 DEF TypeOK
  <2>6. StartTold' /\ FinishTold'
    BY <1>1, <2>4, <2>5 DEF StartTold, FinishTold
  <2>7. AskingTold'
    <3>1. \A i \in DOMAIN frames : frames[i].asking \in Jobs \union {NoJob}
      BY BoxIsAJobs DEF TypeOK
    <3> QED BY <1>1, <1>2, <2>4, <2>5, <3>1 DEF AskingTold
  <2>8. TypeOK'
    BY <1>2, <2>2, <2>4 DEF TypeOK
  <2> QED BY <2>2, <2>4, <2>6, <2>7, <2>8
<1> QED BY <1>3, <1>4

\* A worker's job returns.
LEMMA RunKeeps ==
  ASSUME PoolInv, NEW w \in Workers, Run(w)
  PROVE  PoolInv'
<1> USE DEF PoolInv
<1>1. /\ busy[w] # NoJob /\ stage[busy[w]] = "running"
      /\ stage' = [stage EXCEPT ![busy[w]] = "ran"]
      /\ UNCHANGED <<abort, running, queue, busy, proxied, proxy, loop, frames>>
  BY DEF Run, Executing, workerVars
<1>2. state' \in [Jobs -> States]
  BY DEF Run, TypeOK, States
<1>3. /\ RunningTold' /\ QueuesHold' /\ HandsHold' /\ SerialOnFirst'
      /\ stage' \in [Jobs -> Stages]
  BY <1>1, HandMoves DEF Working
<1>4. EventsOnce' /\ StartTold' /\ FinishTold' /\ AskingTold'
  BY <1>1, EventsStay DEF Working
<1>5. TypeOK'
  BY <1>1, <1>2, <1>3 DEF TypeOK
<1> QED BY <1>3, <1>4, <1>5

\* A worker's job asks and waits.
LEMMA AskKeeps ==
  ASSUME PoolInv, NEW w \in Workers, Ask(w)
  PROVE  PoolInv'
<1> USE DEF PoolInv
<1>1. PICK j \in Jobs : j = busy[w] /\ j # NoJob /\ stage[j] = "running"
  BY DEF Ask, Executing, TypeOK
<1> DEFINE e == <<j, "proxy">>
<1>2. /\ stage' = [stage EXCEPT ![busy[w]] = "asking"] /\ loop' = loop \union {e}
      /\ UNCHANGED <<state, abort, running, queue, busy, proxied, proxy, frames>>
  BY <1>1 DEF Ask, workerVars
<1>3. /\ RunningTold' /\ QueuesHold' /\ HandsHold' /\ SerialOnFirst'
      /\ stage' \in [Jobs -> Stages]
  BY <1>1, <1>2, HandMoves DEF Working
<1>4. e \in Events /\ e \notin Pending
  BY <1>1 DEF AskingTold, Events, Kinds
<1>5. EventsOnce' /\ loop' \subseteq Events /\ \A f : f \in Pending' <=> f \in Pending \/ f = e
  BY <1>2, <1>4, EventPosted
<1>6. stage'[j] = "asking" /\ \A k \in Jobs \ {j} : stage'[k] = stage[k]
  BY <1>1, <1>2 DEF TypeOK
<1>7. StartTold' /\ FinishTold'
  BY <1>1, <1>5, <1>6 DEF StartTold, FinishTold
<1>8. AskingTold'
  <2>1. \A i \in DOMAIN frames : frames[i].asking \in Jobs \union {NoJob} /\ frames[i].asking # j
    BY <1>1, BoxIsAJobs DEF TypeOK, AskingTold
  <2> QED BY <1>2, <1>5, <1>6, <2>1 DEF AskingTold
<1>9. TypeOK'
  BY <1>2, <1>3, <1>5 DEF TypeOK
<1> QED BY <1>3, <1>5, <1>7, <1>8, <1>9

\* A worker looks at the flag once more.
LEMMA CheckKeeps ==
  ASSUME PoolInv, NEW w \in Workers, Check(w)
  PROVE  PoolInv'
<1> USE DEF PoolInv
<1>1. /\ busy[w] # NoJob /\ stage[busy[w]] = "ran"
      /\ stage' = [stage EXCEPT ![busy[w]] = "checked"]
      /\ UNCHANGED <<abort, running, queue, busy, proxied, proxy, loop, frames>>
  BY DEF Check, Executing, workerVars
<1>2. state' \in [Jobs -> States]
  BY DEF Check, TypeOK, States
<1>3. /\ RunningTold' /\ QueuesHold' /\ HandsHold' /\ SerialOnFirst'
      /\ stage' \in [Jobs -> Stages]
  BY <1>1, HandMoves DEF Working
<1>4. EventsOnce' /\ StartTold' /\ FinishTold' /\ AskingTold'
  BY <1>1, EventsStay DEF Working
<1>5. TypeOK'
  BY <1>1, <1>2, <1>3 DEF TypeOK
<1> QED BY <1>3, <1>4, <1>5

\* A worker lets go of its job, whose finish event is posted.
LEMMA PostKeeps ==
  ASSUME PoolInv, NEW w \in Workers, Post(w)
  PROVE  PoolInv'
<1> USE DEF PoolInv
<1>1. PICK j \in Jobs : j = busy[w] /\ j # NoJob /\ stage[j] = "checked"
  BY DEF Post, Executing, TypeOK
<1> DEFINE e == <<j, "finish">>
<1>2. /\ stage' = [stage EXCEPT ![j] = "posted"] /\ loop' = loop \union {e}
      /\ busy' = [busy EXCEPT ![w] = NoJob]
      /\ UNCHANGED <<state, abort, running, queue, proxied, proxy, frames>>
  BY <1>1 DEF Post
<1>3. stage'[j] = "posted" /\ \A k \in Jobs \ {j} : stage'[k] = stage[k]
  BY <1>2 DEF TypeOK
<1>4. busy'[w] = NoJob /\ \A v \in Workers \ {w} : busy'[v] = busy[v] /\ busy[v] # j
  BY <1>1, <1>2 DEF TypeOK, HandsHold
<1>5. e \in Events /\ e \notin Pending
  BY <1>1 DEF FinishTold, Events, Kinds
<1>6. EventsOnce' /\ loop' \subseteq Events /\ \A f : f \in Pending' <=> f \in Pending \/ f = e
  BY <1>2, <1>5, EventPosted
<1>7. TypeOK'
  BY <1>2, <1>6 DEF TypeOK, Stages
<1>8. RunningTold'
  BY <1>1, <1>2, <1>3 DEF RunningTold
<1>9. QueuesHold'
  BY <1>1, <1>2, <1>3 DEF QueuesHold, Waiting, TypeOK
<1>10. HandsHold'
  <2>1. \A v \in Workers : busy'[v] # NoJob => stage'[busy'[v]] \in Working
    BY <1>3, <1>4 DEF HandsHold, TypeOK
  <2>2. \A v, u \in Workers : busy'[v] = busy'[u] /\ busy'[v] # NoJob => v = u
    BY <1>4 DEF HandsHold
  <2>3. \A k \in Jobs : stage'[k] \in Working => Executed(k)' # {}
    <3> SUFFICES ASSUME NEW k \in Jobs, stage'[k] \in Working PROVE Executed(k)' # {}
      OBVIOUS
    <3>1. k # j /\ stage[k] \in Working
      BY <1>3 DEF Working
    <3>2. PICK v \in Workers : busy[v] = k
      BY <3>1 DEF HandsHold, Executed
    <3> QED BY <1>1, <1>4, <3>1, <3>2 DEF Executed
  <2> QED BY <2>1, <2>2, <2>3 DEF HandsHold
<1>11. StartTold' /\ FinishTold'
  BY <1>1, <1>3, <1>6 DEF StartTold, FinishTold
<1>12. AskingTold'
  <2>1. \A i \in DOMAIN frames : frames[i].asking \in Jobs \union {NoJob} /\ frames[i].asking # j
    BY <1>1, BoxIsAJobs DEF TypeOK, AskingTold
  <2> QED BY <1>1, <1>2, <1>3, <1>6, <2>1 DEF AskingTold
<1>13. SerialOnFirst'
  BY <1>2, <1>4, ThreadPoolAssumption DEF SerialOnFirst, ThreadPoolAssumption
<1> QED BY <1>6, <1>7, <1>8, <1>9, <1>10, <1>11, <1>12, <1>13

-----------------------------------------------------------------------------
(* The invariant *)

\* Every step of the main thread or of a worker keeps the invariant.
LEMMA PoolStep == PoolInv /\ [Next]_vars => PoolInv'
<1> SUFFICES ASSUME PoolInv, [Next]_vars PROVE PoolInv'
  OBVIOUS
<1>1. ASSUME NEW j \in Jobs, Push(j) PROVE PoolInv'
  BY <1>1, PushKeeps
<1>2. CASE Abort
  BY <1>2, AbortKeeps
<1>3. CASE Tick
  BY <1>3, TickKeeps
<1>4. ASSUME NEW j \in Jobs, HandleStart(j) \/ HandleFinish(j) \/ HandleProxy(j) PROVE PoolInv'
  BY <1>4, HandleStartKeeps, HandleFinishKeeps, HandleProxyKeeps
<1>5. CASE Answer
  BY <1>5, AnswerKeeps
<1>6. CASE EndTick
  BY <1>6, EndTickKeeps
<1>7. ASSUME NEW w \in Workers, WorkerStep(w) PROVE PoolInv'
  BY <1>7, TakeKeeps, StartKeeps, RunKeeps, AskKeeps, CheckKeeps, PostKeeps DEF WorkerStep
<1>8. CASE UNCHANGED vars
  <2>1. RunningTold' /\ QueuesHold' /\ HandsHold' /\ SerialOnFirst'
    BY <1>8, JobsStay DEF PoolInv, vars
  <2>2. TypeOK' /\ EventsOnce' /\ StartTold' /\ FinishTold' /\ AskingTold'
    BY <1>8 DEF PoolInv, vars, TypeOK, EventsOnce, InFrame, StartTold, FinishTold, AskingTold,
                Pending
  <2> QED BY <2>1, <2>2 DEF PoolInv
<1> QED BY <1>1, <1>2, <1>3, <1>4, <1>5, <1>6, <1>7, <1>8 DEF Next, MainStep, Handle

\* The invariant holds in every state the pool can reach.
THEOREM PoolIsSound == Spec => []PoolInv
<1> QED BY PoolInit, PoolStep, PTL DEF Spec

\* The variables keep their types (thread.hpp, event.hpp).
THEOREM PoolTypeCorrect == Spec => []TypeOK
<1>1. PoolInv => TypeOK
  BY DEF PoolInv
<1> QED BY PoolIsSound, <1>1, PTL

\* What the invariant says of one job, counted as JobsAreTracked counts it.
LEMMA InvTracks == PoolInv => JobsAreTracked
<1> SUFFICES ASSUME PoolInv, NEW j \in Jobs
             PROVE  /\ j \in running <=> stage[j] \notin {"new", "deleted"}
                    /\ stage[j] \in {"new", "deleted"} =>
                         Waiting(j) = {} /\ Executed(j) = {} /\ <<j, "finish">> \notin Pending
                    /\ j \in running =>
                         \/ /\ Cardinality(Waiting(j)) = 1 /\ Executed(j) = {}
                            /\ <<j, "finish">> \notin Pending
                         \/ /\ Waiting(j) = {} /\ Cardinality(Executed(j)) = 1
                            /\ <<j, "finish">> \notin Pending
                         \/ Waiting(j) = {} /\ Executed(j) = {} /\ <<j, "finish">> \in Pending
  BY DEF JobsAreTracked
<1> USE DEF PoolInv
<1>1. j \in running <=> stage[j] \notin {"new", "deleted"}
  BY DEF RunningTold
<1>2. stage[j] # "queued" => Waiting(j) = {}
  BY DEF QueuesHold, Waiting
<1>3. stage[j] \notin Working => Executed(j) = {}
  BY ThreadPoolAssumption DEF HandsHold, Executed, ThreadPoolAssumption
<1>4. <<j, "finish">> \in Pending <=> stage[j] = "posted"
  BY DEF FinishTold
<1>5. stage[j] = "queued" => Cardinality(Waiting(j)) = 1
  <2> SUFFICES ASSUME stage[j] = "queued" PROVE Cardinality(Waiting(j)) = 1
    OBVIOUS
  <2>1. PICK w \in Workers : w \in Waiting(j)
    BY DEF QueuesHold, Waiting
  <2>2. \A v \in Waiting(j) : v = w
    BY <2>1 DEF QueuesHold, Waiting
  <2>3. Waiting(j) = {w}
    BY <2>1, <2>2
  <2> QED BY <2>3, FS_Singleton
<1>6. stage[j] \in Working => Cardinality(Executed(j)) = 1
  <2> SUFFICES ASSUME stage[j] \in Working PROVE Cardinality(Executed(j)) = 1
    OBVIOUS
  <2>1. PICK w \in Workers : w \in Executed(j)
    BY DEF HandsHold, Executed
  <2>2. \A v \in Executed(j) : v = w
    BY <2>1, ThreadPoolAssumption DEF HandsHold, Executed, ThreadPoolAssumption
  <2>3. Executed(j) = {w}
    BY <2>1, <2>2
  <2> QED BY <2>3, FS_Singleton
<1>7. stage[j] \in {"new", "queued", "posted", "deleted"} \union Working
  BY DEF TypeOK, Stages, Working
<1> QED BY <1>1, <1>2, <1>3, <1>4, <1>5, <1>6, <1>7 DEF Working

\* The pool never loses or duplicates a job: what it believes running is in one
\* queue, one worker's hands or one finish event (thread.cpp:108-114, 125-148).
THEOREM JobsTracked == Spec => []JobsAreTracked
<1> QED BY PoolIsSound, InvTracks, PTL

\* Jobs that share a zip file are never executed by two threads at a time,
\* because they all are given to the first one (archive.hpp:63, 76).
THEOREM SerialAlone == Spec => []SerialJobsAlone
<1>1. PoolInv => SerialJobsAlone
  <2> SUFFICES ASSUME PoolInv, NEW j \in Serial, NEW k \in Serial,
                      NEW w \in Executed(j), NEW v \in Executed(k)
               PROVE  j = k
    BY DEF SerialJobsAlone
  <2>1. w \in Workers /\ v \in Workers /\ busy[w] = j /\ busy[v] = k
    BY DEF Executed
  <2>2. w = 0 /\ v = 0
    BY <2>1 DEF PoolInv, SerialOnFirst
  <2> QED BY <2>1, <2>2
<1> QED BY PoolIsSound, <1>1, PTL

-----------------------------------------------------------------------------
(* Aborted jobs *)

\* What a job stays in once it was aborted before its last look at the flag.
Doomed(j) ==
  \/ abort[j] /\ stage[j] \in {"queued", "taken", "running", "asking", "ran"}
  \/ stage[j] \in {"checked", "posted", "deleted"} /\ state[j] = "Aborted"

\* No step takes a job out of it.
LEMMA DoomedStays ==
  ASSUME PoolInv, [Next]_vars, NEW j \in Jobs, Doomed(j)
  PROVE  Doomed(j)'
<1> USE DEF PoolInv
<1>1. stage[j] # "new" /\ stage \in [Jobs -> Stages] /\ state \in [Jobs -> States]
  BY DEF Doomed, TypeOK
<1>2. ASSUME NEW k \in Jobs, Push(k) PROVE Doomed(j)'
  <2>1. stage[k] = "new" /\ UNCHANGED <<abort, state>> /\ stage' = [stage EXCEPT ![k] = "queued"]
    BY <1>2 DEF Push
  <2> QED BY <1>1, <2>1 DEF Doomed
<1>3. CASE Abort
  BY <1>3 DEF Abort, Doomed, TypeOK
<1>4. CASE Tick \/ EndTick \/ UNCHANGED vars
  BY <1>4 DEF Tick, EndTick, vars, Doomed
<1>5. ASSUME NEW k \in Jobs, HandleStart(k) PROVE Doomed(j)'
  BY <1>5 DEF HandleStart, Doomed
<1>6. ASSUME NEW k \in Jobs, HandleFinish(k) PROVE Doomed(j)'
  <2>1. stage[k] = "posted"
    <3>1. frames # <<>> /\ <<k, "finish">> \in Top.events
      BY <1>6 DEF HandleFinish, IsNext
    <3>2. Len(frames) \in DOMAIN frames
      BY <3>1, TopIsFrame DEF TypeOK
    <3>3. <<k, "finish">> \in Pending
      BY <3>1, <3>2, PendingIs DEF InFrame, Top
    <3> QED BY <3>3 DEF FinishTold
  <2>2. UNCHANGED <<state, abort>> /\ stage' = [stage EXCEPT ![k] = "deleted"]
    BY <1>6 DEF HandleFinish
  <2> QED BY <1>1, <2>1, <2>2 DEF Doomed
<1>7. ASSUME NEW k \in Jobs, stage[k] = "asking", NEW yes \in BOOLEAN, Resume(k, yes),
             UNCHANGED abort
      PROVE  Doomed(j)'
  BY <1>1, <1>7 DEF Resume, Doomed
<1>8. ASSUME NEW k \in Jobs, HandleProxy(k) PROVE Doomed(j)'
  <2>1. stage[k] = "asking" /\ UNCHANGED abort
    BY <1>8, HandleProxyKeeps DEF HandleProxy
  <2>2. UNCHANGED <<stage, state>> \/ Resume(k, proxy = "yes")
    BY <1>8 DEF HandleProxy
  <2> QED BY <1>7, <2>1, <2>2 DEF Doomed
<1>9. CASE Answer
  <2>1. stage[Top.asking] = "asking" /\ Top.asking \in Jobs /\ UNCHANGED abort
    BY <1>9, AnswerKeeps DEF Answer
  <2>2. PICK yes \in BOOLEAN : Resume(Top.asking, yes)
    BY <1>9 DEF Answer
  <2> QED BY <1>7, <2>1, <2>2
<1>10. ASSUME NEW w \in Workers, WorkerStep(w) PROVE Doomed(j)'
  <2>1. CASE Take(w)
    <3>1. /\ queue[w] # <<>> /\ UNCHANGED <<state, abort>>
          /\ stage' = [stage EXCEPT ![Head(queue[w])] = "taken"]
      BY <2>1 DEF Take
    <3>2. queue[w] \in Seq(Jobs) /\ 1 \in DOMAIN queue[w] /\ Head(queue[w]) = queue[w][1]
      BY <3>1, EmptySeq DEF TypeOK
    <3>3. stage[Head(queue[w])] = "queued"
      BY <3>2 DEF QueuesHold
    <3> QED BY <1>1, <3>1, <3>3 DEF Doomed
  <2>2. CASE Start(w) \/ Run(w) \/ Ask(w) \/ Check(w) \/ Post(w)
    <3>1. PICK k \in Jobs : k = busy[w]
      BY <2>2 DEF Start, Run, Ask, Check, Post, Executing, TypeOK
    <3>2. CASE Start(w)
      BY <1>1, <3>1, <3>2 DEF Start, Executing, Doomed
    <3>3. CASE Run(w)
      <4>1. /\ stage[k] = "running" /\ stage' = [stage EXCEPT ![k] = "ran"] /\ UNCHANGED abort
            /\ \A i \in Jobs \ {k} : state'[i] = state[i]
        BY <1>1, <3>1, <3>3 DEF Run, Executing
      <4> QED BY <1>1, <4>1 DEF Doomed
    <3>4. CASE Ask(w)
      BY <1>1, <3>1, <3>4 DEF Ask, Executing, Doomed
    <3>5. CASE Check(w)
      BY <1>1, <3>1, <3>5 DEF Check, Executing, Doomed
    <3>6. CASE Post(w)
      BY <1>1, <3>1, <3>6 DEF Post, Executing, Doomed
    <3> QED BY <2>2, <3>2, <3>3, <3>4, <3>5, <3>6
  <2> QED BY <1>10, <2>1, <2>2 DEF WorkerStep
<1> QED BY <1>2, <1>3, <1>4, <1>5, <1>6, <1>8, <1>9, <1>10 DEF Next, MainStep, Handle

\* A job aborted before its last look at the flag never counts as a success or
\* a failure, whatever is run, asked or answered meanwhile (thread.cpp:44-45).
THEOREM AbortIsFinal == Spec => AbortedJobsEndAborted
<1>1. ASSUME NEW j \in Jobs
      PROVE  Spec => []( abort[j] /\ stage[j] \in {"queued", "taken", "running", "asking", "ran"} =>
                         [](stage[j] \in {"posted", "deleted"} => state[j] = "Aborted") )
  <2>1. PoolInv /\ [Next]_vars /\ Doomed(j) => Doomed(j)'
    BY DoomedStays
  <2>2. abort[j] /\ stage[j] \in {"queued", "taken", "running", "asking", "ran"} => Doomed(j)
    BY DEF Doomed
  <2>3. Doomed(j) => (stage[j] \in {"posted", "deleted"} => state[j] = "Aborted")
    BY DEF Doomed
  <2>4. Spec => [][Next]_vars
    BY PTL DEF Spec
  <2> QED BY PoolIsSound, <2>1, <2>2, <2>3, <2>4, PTL
<1> QED BY <1>1 DEF AbortedJobsEndAborted

-----------------------------------------------------------------------------
(* What the users of the pool rely on *)

\* A job that was executed has a result, or will get one from the flag.
ResultTold ==
  \A j \in Jobs :
    /\ stage[j] = "ran" => state[j] # "Idle" \/ abort[j]
    /\ stage[j] \in {"checked", "posted", "deleted"} => state[j] # "Idle"

Mapped == Users!Init /\ [][Users!Next]_Users!vars

\* The job's steps that its user does not see.
LEMMA HiddenStep ==
  ASSUME UNCHANGED <<AbstractStage, AbstractResult>>
  PROVE  [Users!Next]_Users!vars
BY DEF Users!vars

\* One job goes from a stage to another, and its result is kept or is told now.
LEMMA OneJobMoves ==
  ASSUME PoolInv, NEW j \in Jobs, NEW s \in Stages, stage' = [stage EXCEPT ![j] = s],
         \A k \in Jobs \ {j} : state'[k] = state[k]
  PROVE  /\ AbstractStage' = [AbstractStage EXCEPT ![j] =
              CASE s = "new" -> "new" [] s = "posted" -> "ended"
                [] s = "deleted" -> "reported" [] OTHER -> "running"]
         /\ AbstractResult' = [AbstractResult EXCEPT ![j] =
              IF s \in {"posted", "deleted"} THEN state'[j] ELSE "Idle"]
<1>1. stage \in [Jobs -> Stages]
  BY DEF PoolInv, TypeOK
<1>2. stage'[j] = s /\ \A k \in Jobs \ {j} : stage'[k] = stage[k]
  BY <1>1
<1> QED BY <1>2 DEF AbstractStage, AbstractResult

\* Every step keeps ResultTold and is a step of TaskPool, or none.
LEMMA PoolRefines ==
  ASSUME PoolInv, ResultTold, [Next]_vars
  PROVE  ResultTold' /\ [Users!Next]_Users!vars
<1> DEFINE Goal == ResultTold' /\ [Users!Next]_Users!vars
<1> USE DEF PoolInv
<1>1. stage \in [Jobs -> Stages] /\ state \in [Jobs -> States] /\ abort \in [Jobs -> BOOLEAN]
  BY DEF TypeOK
<1>2. ASSUME NEW j \in Jobs, NEW s \in Stages, stage' = [stage EXCEPT ![j] = s],
             stage[j] \notin {"new", "posted", "deleted"},
             s \notin {"new", "posted", "deleted"},
             \A k \in Jobs \ {j} : state'[k] = state[k]
      PROVE  UNCHANGED <<AbstractStage, AbstractResult>>
  <2>1. \A k \in Jobs : stage'[k] = IF k = j THEN s ELSE stage[k]
    BY <1>1, <1>2
  <2>2. AbstractStage' = AbstractStage
    BY <1>2, <2>1 DEF AbstractStage
  <2>3. AbstractResult' = AbstractResult
    BY <1>2, <2>1 DEF AbstractResult
  <2> QED BY <2>2, <2>3
<1>3. ASSUME NEW j \in Jobs, Push(j) PROVE Goal
  <2>1. /\ stage[j] = "new" /\ stage' = [stage EXCEPT ![j] = "queued"]
        /\ UNCHANGED <<state, abort>> /\ "queued" \in Stages
    BY <1>3 DEF Push, Stages
  <2>2. ResultTold'
    BY <1>1, <2>1 DEF ResultTold
  <2>3. AbstractStage' = [AbstractStage EXCEPT ![j] = "running"]
    BY <2>1, OneJobMoves
  <2>4. AbstractResult' = AbstractResult
    BY <1>1, <2>1 DEF AbstractResult
  <2>5. AbstractStage[j] = "new"
    BY <2>1 DEF AbstractStage
  <2>6. Users!Push(j)
    BY <2>3, <2>4, <2>5 DEF Users!Push
  <2> QED BY <2>2, <2>6 DEF Users!Next
<1>4. CASE Abort
  <2>1. UNCHANGED <<stage, state>> /\ \A j \in Jobs : abort[j] => abort'[j]
    BY <1>1, <1>4 DEF Abort
  <2> QED BY <2>1, HiddenStep DEF ResultTold, AbstractStage, AbstractResult
<1>5. CASE Tick \/ EndTick \/ UNCHANGED vars
  <2>1. UNCHANGED <<stage, state, abort>>
    BY <1>5 DEF Tick, EndTick, vars
  <2> QED BY <2>1, HiddenStep DEF ResultTold, AbstractStage, AbstractResult
<1>6. ASSUME NEW j \in Jobs, HandleStart(j) PROVE Goal
  <2>1. UNCHANGED <<stage, state, abort>>
    BY <1>6 DEF HandleStart
  <2> QED BY <2>1, HiddenStep DEF ResultTold, AbstractStage, AbstractResult
<1>7. ASSUME NEW j \in Jobs, HandleFinish(j) PROVE Goal
  <2>1. stage[j] = "posted"
    <3>1. frames # <<>> /\ <<j, "finish">> \in Top.events
      BY <1>7 DEF HandleFinish, IsNext
    <3>2. Len(frames) \in DOMAIN frames
      BY <3>1, TopIsFrame DEF TypeOK
    <3>3. <<j, "finish">> \in Pending
      BY <3>1, <3>2, PendingIs DEF InFrame, Top
    <3> QED BY <3>3 DEF FinishTold
  <2>2. /\ UNCHANGED <<state, abort>> /\ stage' = [stage EXCEPT ![j] = "deleted"]
        /\ "deleted" \in Stages
    BY <1>7 DEF HandleFinish, Stages
  <2>3. ResultTold'
    BY <1>1, <2>1, <2>2 DEF ResultTold
  <2>4. AbstractStage' = [AbstractStage EXCEPT ![j] = "reported"]
    BY <2>2, OneJobMoves
  <2>5. AbstractResult' = AbstractResult
    BY <1>1, <2>1, <2>2 DEF AbstractResult
  <2>6. AbstractStage[j] = "ended"
    BY <2>1 DEF AbstractStage
  <2>7. Users!Report(j)
    BY <2>4, <2>5, <2>6 DEF Users!Report
  <2> QED BY <2>3, <2>7 DEF Users!Next
<1>8. ASSUME NEW j \in Jobs, stage[j] = "asking", NEW yes \in BOOLEAN, Resume(j, yes),
             UNCHANGED abort
      PROVE  Goal
  <2>1. PICK s \in Stages : /\ s \in {"running", "ran"} /\ stage' = [stage EXCEPT ![j] = s]
                            /\ s = "ran" => state' = [state EXCEPT ![j] = "Failure"]
                            /\ \A k \in Jobs \ {j} : state'[k] = state[k]
    BY <1>1, <1>8 DEF Resume, Stages
  <2>2. UNCHANGED <<AbstractStage, AbstractResult>>
    BY <1>2, <1>8, <2>1
  <2>3. ResultTold'
    BY <1>1, <1>8, <2>1 DEF ResultTold
  <2> QED BY <2>2, <2>3, HiddenStep
<1>9. ASSUME NEW j \in Jobs, HandleProxy(j) PROVE Goal
  <2>1. stage[j] = "asking" /\ UNCHANGED abort
    BY <1>9, HandleProxyKeeps DEF HandleProxy
  <2>2. CASE UNCHANGED <<stage, state>>
    BY <2>1, <2>2, HiddenStep DEF ResultTold, AbstractStage, AbstractResult
  <2>3. CASE Resume(j, proxy = "yes")
    BY <1>8, <2>1, <2>3
  <2> QED BY <1>9, <2>2, <2>3 DEF HandleProxy
<1>10. CASE Answer
  <2>1. stage[Top.asking] = "asking" /\ Top.asking \in Jobs /\ UNCHANGED abort
    BY <1>10, AnswerKeeps DEF Answer
  <2>2. PICK yes \in BOOLEAN : Resume(Top.asking, yes)
    BY <1>10 DEF Answer
  <2> QED BY <1>8, <2>1, <2>2
<1>11. ASSUME NEW w \in Workers, Take(w) PROVE Goal
  <2>1. /\ queue[w] # <<>> /\ UNCHANGED <<state, abort>>
        /\ stage' = [stage EXCEPT ![Head(queue[w])] = "taken"]
    BY <1>11 DEF Take
  <2>2. queue[w] \in Seq(Jobs) /\ 1 \in DOMAIN queue[w] /\ Head(queue[w]) = queue[w][1]
    BY <2>1, EmptySeq DEF TypeOK
  <2>3. Head(queue[w]) \in Jobs /\ stage[Head(queue[w])] = "queued"
    BY <2>2, ElementOfSeq DEF QueuesHold
  <2>4. ResultTold'
    BY <1>1, <2>1, <2>3 DEF ResultTold
  <2>5. UNCHANGED <<AbstractStage, AbstractResult>>
    BY <1>2, <2>1, <2>3 DEF Stages
  <2> QED BY <2>4, <2>5, HiddenStep
<1>12. ASSUME NEW w \in Workers, Start(w) \/ Run(w) \/ Ask(w) \/ Check(w) PROVE Goal
  <2>1. PICK j \in Jobs : j = busy[w]
    BY <1>12 DEF Start, Run, Ask, Check, Executing, TypeOK
  <2>2. CASE Start(w)
    <3>1. PICK s \in Stages : /\ s \in {"running", "ran"} /\ stage' = [stage EXCEPT ![j] = s]
                              /\ s = "ran" => abort[j]
      BY <2>1, <2>2 DEF Start, Stages
    <3>2. stage[j] = "taken" /\ UNCHANGED <<state, abort>>
      BY <2>1, <2>2 DEF Start, Executing
    <3>3. ResultTold'
      BY <1>1, <3>1, <3>2 DEF ResultTold
    <3> QED BY <1>2, <3>1, <3>2, <3>3, HiddenStep
  <2>3. CASE Run(w)
    <3>1. /\ stage[j] = "running" /\ stage' = [stage EXCEPT ![j] = "ran"] /\ UNCHANGED abort
          /\ \A k \in Jobs \ {j} : state'[k] = state[k]
          /\ state'[j] # "Idle" /\ "ran" \in Stages
      BY <1>1, <2>1, <2>3 DEF Run, Executing, Stages
    <3>2. ResultTold'
      BY <1>1, <3>1 DEF ResultTold
    <3> QED BY <1>2, <3>1, <3>2, HiddenStep
  <2>4. CASE Ask(w)
    <3>1. /\ stage[j] = "running" /\ stage' = [stage EXCEPT ![j] = "asking"]
          /\ UNCHANGED <<state, abort>> /\ "asking" \in Stages
      BY <2>1, <2>4 DEF Ask, Executing, Stages
    <3>2. ResultTold'
      BY <1>1, <3>1 DEF ResultTold
    <3> QED BY <1>2, <3>1, <3>2, HiddenStep
  <2>5. CASE Check(w)
    <3>1. /\ stage[j] = "ran" /\ stage' = [stage EXCEPT ![j] = "checked"] /\ UNCHANGED abort
          /\ \A k \in Jobs \ {j} : state'[k] = state[k]
          /\ state'[j] # "Idle" /\ "checked" \in Stages
      BY <1>1, <2>1, <2>5 DEF Check, Executing, Stages, ResultTold
    <3>2. ResultTold'
      BY <1>1, <3>1 DEF ResultTold
    <3> QED BY <1>2, <3>1, <3>2, HiddenStep
  <2> QED BY <1>12, <2>2, <2>3, <2>4, <2>5
<1>13. ASSUME NEW w \in Workers, Post(w) PROVE Goal
  <2>1. PICK j \in Jobs : j = busy[w] /\ stage[j] = "checked"
    BY <1>13 DEF Post, Executing, TypeOK
  <2>2. /\ stage' = [stage EXCEPT ![j] = "posted"] /\ UNCHANGED <<state, abort>>
        /\ "posted" \in Stages
    BY <1>13, <2>1 DEF Post, Stages
  <2>3. ResultTold'
    BY <1>1, <2>1, <2>2 DEF ResultTold
  <2>4. state'[j] \in {"Success", "Failure", "Aborted"}
    BY <1>1, <2>1, <2>2 DEF ResultTold, States
  <2>5. /\ AbstractStage' = [AbstractStage EXCEPT ![j] = "ended"]
        /\ AbstractResult' = [AbstractResult EXCEPT ![j] = state'[j]]
    BY <2>2, OneJobMoves
  <2>6. AbstractStage[j] = "running"
    BY <2>1 DEF AbstractStage
  <2>7. Users!End(j)
    BY <2>4, <2>5, <2>6 DEF Users!End
  <2> QED BY <2>3, <2>7 DEF Users!Next
<1> QED BY <1>3, <1>4, <1>5, <1>6, <1>7, <1>9, <1>10, <1>11, <1>12, <1>13
        DEF Next, MainStep, Handle, WorkerStep

\* Every job pushed ends once and is reported once, with the result it ended with:
\* the pool's steps are those of TaskPool (its fairness is left to TLC).
THEOREM PoolImplementsTaskPool == Spec => Mapped
<1>1. Init => ResultTold /\ Users!Init
  BY DEF Init, ResultTold, Users!Init, AbstractStage, AbstractResult
<1>2. PoolInv /\ ResultTold /\ [Next]_vars => ResultTold' /\ [Users!Next]_Users!vars
  BY PoolRefines
<1> QED BY PoolIsSound, <1>1, <1>2, PTL DEF Spec, Mapped

-----------------------------------------------------------------------------
(* The order of the events *)

\* A batch is interrupted only by the box of a download.
Nested == \A i \in DOMAIN frames : i < Len(frames) => frames[i].asking # NoJob

\* A start event is taken by no later batch than its job's finish event.
StartIsFirst ==
  \A j \in Jobs : <<j, "start">> \in loop =>
    /\ stage[j] # "deleted"
    /\ \A i \in DOMAIN frames : ~InFrame(<<j, "finish">>, i)

\* When a job was deleted before its start event was handled, another job is
\* still there, whose finish event is not in that batch or an outer one.
Anchored ==
  \A i \in DOMAIN frames : \A k \in Jobs :
    InFrame(<<k, "start">>, i) /\ stage[k] = "deleted" =>
      \E a \in running : \A h \in DOMAIN frames : h <= i => ~InFrame(<<a, "finish">>, h)

EventsInv == PoolInv /\ ResultTold /\ Nested /\ StartIsFirst /\ Anchored

-----------------------------------------------------------------------------
(* The books of the tasks *)

TasksTypeOK ==
  /\ phase \in {"start", "wait", "commit", "over"}
  /\ newFiles \in [Tasks -> SUBSET Jobs]
  /\ waiting \in [Tasks -> SUBSET Jobs]
  /\ fail \subseteq Tasks
  /\ cancelled \in BOOLEAN
  /\ aborting \subseteq Jobs
  /\ temp \subseteq Jobs /\ opened \subseteq Jobs /\ placed \subseteq Jobs /\ late \subseteq Jobs
  /\ result \in [Tasks -> {"pending", "installed", "broken", "failed"}]

\* A task waits for its jobs of the pool, and rolls back only those.
BooksTold ==
  /\ \A t \in Tasks : waiting[t] = running \intersect JobsOf(t)
  /\ \A t \in Tasks : newFiles[t] \subseteq JobsOf(t)
  /\ aborting \subseteq running

\* Tasks are committed when the pool is idle, and each one once.
PhaseTold ==
  /\ phase \in {"commit", "over"} => running = {}
  /\ phase # "start" => \A j \in Jobs : stage[j] # "new"
  /\ \A t \in Tasks : result[t] # "pending" => phase \in {"commit", "over"}
  /\ phase = "over" => \A t \in Tasks : result[t] # "pending"

\* A task fails with the first of its jobs, and then stops the others.
FailTold ==
  /\ phase = "start" => fail = {}
  /\ \A t \in fail : \A j \in waiting[t] : abort[j] \/ j \in aborting
  /\ \A j \in Jobs : stage[j] = "deleted" /\ TaskOf[j] \notin fail => state[j] = "Success"

\* A job that ran was announced to its task, or will be.
Heard ==
  \A j \in Jobs : state[j] = "Success" \/ stage[j] \in {"running", "asking"} \/ j \in temp =>
    <<j, "start">> \in Pending \/ j \in newFiles[TaskOf[j]]

\* What is in place is of jobs that all ended well.
PlacedTold ==
  /\ \A j \in placed : \A k \in JobsOf(TaskOf[j]) : stage[k] = "deleted" /\ state[k] = "Success"
  /\ \A t \in Tasks : result[t] = "installed" => JobsOf(t) \subseteq placed

\* The temporary files that stay after a job's end, and after its task's.
TempTold ==
  /\ \A j \in temp \ late : stage[j] = "deleted" => state[j] = "Success"
  /\ \A j \in temp \ late : result[TaskOf[j]] # "pending" => TaskOf[j] \in fail

TasksInv ==
  /\ EventsInv /\ TasksTypeOK /\ BooksTold /\ PhaseTold /\ FailTold
  /\ Heard /\ PlacedTold /\ TempTold

-----------------------------------------------------------------------------
(* Steps of the pool keep the order of the events *)

\* Nothing is pending at first.
LEMMA EventsInit == Init => EventsInv
<1> SUFFICES ASSUME Init PROVE EventsInv
  OBVIOUS
<1>1. /\ frames = <<>> /\ DOMAIN frames = {} /\ loop = {}
      /\ stage = [j \in Jobs |-> "new"]
  BY DEF Init
<1>2. Nested /\ StartIsFirst /\ Anchored /\ ResultTold
  BY <1>1 DEF Nested, StartIsFirst, Anchored, ResultTold
<1> QED BY <1>2, PoolInit DEF EventsInv

\* Steps that open, run or leave no batch.
LEMMA SameBatches ==
  ASSUME EventsInv, UNCHANGED frames, running \subseteq running',
         \A k \in Jobs : stage'[k] = "deleted" => stage[k] = "deleted",
         \A k \in Jobs : <<k, "start">> \in loop' =>
           \/ <<k, "start">> \in loop
           \/ stage[k] = "taken" /\ stage'[k] # "deleted"
  PROVE  Nested' /\ StartIsFirst' /\ Anchored'
<1>1. Nested'
  BY DEF EventsInv, Nested
<1>2. StartIsFirst'
  <2> SUFFICES ASSUME NEW j \in Jobs, <<j, "start">> \in loop'
               PROVE  /\ stage'[j] # "deleted"
                      /\ \A i \in DOMAIN frames : ~InFrame(<<j, "finish">>, i)
    BY DEF StartIsFirst, InFrame
  <2>1. CASE <<j, "start">> \in loop
    BY <2>1 DEF EventsInv, StartIsFirst
  <2>2. CASE stage[j] = "taken" /\ stage'[j] # "deleted"
    BY <2>2, PendingIs DEF EventsInv, PoolInv, FinishTold
  <2> QED BY <2>1, <2>2
<1>3. Anchored'
  BY DEF EventsInv, Anchored, InFrame
<1> QED BY <1>1, <1>2, <1>3

\* Steps of the innermost batch that delete no job.
LEMMA SameDepth ==
  ASSUME EventsInv, frames \in Seq(Frames), frames' \in Seq(Frames),
         Len(frames') = Len(frames), DOMAIN frames' = DOMAIN frames,
         \A i \in DOMAIN frames : i # Len(frames) => frames'[i].asking = frames[i].asking,
         \A i \in DOMAIN frames : \A f : InFrame(f, i)' => InFrame(f, i),
         UNCHANGED <<running, loop>>,
         \A k \in Jobs : stage'[k] = "deleted" => stage[k] = "deleted"
  PROVE  Nested' /\ StartIsFirst' /\ Anchored'
<1>1. Nested'
  <2>1. \A i \in DOMAIN frames : i < Len(frames) => i # Len(frames)
    OBVIOUS
  <2> QED BY <2>1 DEF EventsInv, Nested
<1>2. StartIsFirst'
  BY DEF EventsInv, StartIsFirst
<1>3. Anchored'
  <2> SUFFICES ASSUME NEW i \in DOMAIN frames, NEW k \in Jobs,
                      InFrame(<<k, "start">>, i)', stage'[k] = "deleted"
               PROVE  \E a \in running : \A h \in DOMAIN frames :
                        h <= i => ~InFrame(<<a, "finish">>, h)'
    BY DEF Anchored
  <2>1. InFrame(<<k, "start">>, i) /\ stage[k] = "deleted"
    OBVIOUS
  <2>2. PICK a \in running : \A h \in DOMAIN frames : h <= i => ~InFrame(<<a, "finish">>, h)
    BY <2>1 DEF EventsInv, Anchored
  <2> QED BY <2>2
<1> QED BY <1>1, <1>2, <1>3

\* The loop's events become a batch inside the one that waits for a box.
LEMMA TickNests ==
  ASSUME EventsInv, Tick
  PROVE  Nested' /\ StartIsFirst' /\ Anchored'
<1>1. PICK n : n = Len(frames) + 1
  OBVIOUS
<1>2. /\ Len(frames') = n /\ n \in Nat \ {0} /\ DOMAIN frames = 1..(n - 1)
      /\ DOMAIN frames' = DOMAIN frames \union {n} /\ n \notin DOMAIN frames
      /\ \A f : InFrame(f, n)' <=> f \in loop
      /\ \A i \in DOMAIN frames : frames'[i] = frames[i]
  BY <1>1, TickFrames DEF EventsInv, PoolInv
<1>3. UNCHANGED <<stage, running>> /\ loop' = {} /\ AtMessageLoop
  BY DEF Tick
<1>4. Nested'
  <2> SUFFICES ASSUME NEW i \in DOMAIN frames', i < n PROVE frames'[i].asking # NoJob
    BY <1>2 DEF Nested
  <2>1. i \in DOMAIN frames /\ frames'[i] = frames[i] /\ frames # <<>> /\ Len(frames) = n - 1
    BY <1>1, <1>2
  <2>2. CASE i = Len(frames)
    BY <1>3, <2>1, <2>2 DEF AtMessageLoop, Top
  <2>3. CASE i # Len(frames)
    BY <1>2, <2>1, <2>3 DEF EventsInv, Nested
  <2> QED BY <2>2, <2>3
<1>5. StartIsFirst'
  BY <1>3 DEF StartIsFirst
<1>6. Anchored'
  <2> SUFFICES ASSUME NEW i \in DOMAIN frames', NEW k \in Jobs,
                      InFrame(<<k, "start">>, i)', stage[k] = "deleted"
               PROVE  \E a \in running : \A h \in DOMAIN frames' :
                        h <= i => ~InFrame(<<a, "finish">>, h)'
    BY <1>3 DEF Anchored
  <2>1. i # n
    BY <1>2 DEF EventsInv, StartIsFirst
  <2>2. i \in DOMAIN frames /\ InFrame(<<k, "start">>, i)
    BY <1>2, <2>1 DEF InFrame
  <2>3. PICK a \in running : \A h \in DOMAIN frames : h <= i => ~InFrame(<<a, "finish">>, h)
    BY <2>2 DEF EventsInv, Anchored
  <2>4. \A h \in DOMAIN frames' : h <= i => h \in DOMAIN frames
    BY <1>2, <2>2
  <2> QED BY <1>2, <2>3, <2>4 DEF InFrame
<1> QED BY <1>4, <1>5, <1>6

\* The outer batches are left as they were.
LEMMA EndTickNests ==
  ASSUME EventsInv, EndTick
  PROVE  Nested' /\ StartIsFirst' /\ Anchored'
<1>1. /\ frames' \in Seq(Frames) /\ Len(frames') = Len(frames) - 1
      /\ DOMAIN frames' = DOMAIN frames \ {Len(frames)}
      /\ \A i \in DOMAIN frames' : frames'[i] = frames[i]
  BY EndTickFrames DEF EventsInv, PoolInv
<1>2. UNCHANGED <<stage, running, loop>> /\ Len(frames) \in Nat
  BY DEF EndTick, EventsInv, PoolInv, TypeOK
<1>3. DOMAIN frames = 1..Len(frames)
  BY DEF EventsInv, PoolInv, TypeOK
<1>4. Nested'
  BY <1>1, <1>2, <1>3 DEF EventsInv, Nested
<1>5. StartIsFirst'
  BY <1>1, <1>2 DEF EventsInv, StartIsFirst, InFrame
<1>6. Anchored'
  BY <1>1, <1>2 DEF EventsInv, Anchored, InFrame
<1> QED BY <1>4, <1>5, <1>6

\* When a job is deleted, its start event was handled or is in an outer batch,
\* which the box of a job that has not ended holds up.
LEMMA FinishNests ==
  ASSUME EventsInv, NEW j \in Jobs, HandleFinish(j)
  PROVE  Nested' /\ StartIsFirst' /\ Anchored'
<1> DEFINE n == Len(frames)
           e == <<j, "finish">>
<1>1. /\ running' = running \ {j} /\ stage' = [stage EXCEPT ![j] = "deleted"]
      /\ loop' = loop \ ({j} \X Kinds)
      /\ frames # <<>> /\ frames' = Rest(e) /\ e \in Top.events
      /\ \A f \in Top.events \ {e} : Before(e, f)
  BY DEF HandleFinish, IsNext
<1>2. frames \in Seq(Frames) /\ stage \in [Jobs -> Stages]
  BY DEF EventsInv, PoolInv, TypeOK
<1>3. /\ frames' \in Seq(Frames) /\ Len(frames') = n /\ DOMAIN frames' = DOMAIN frames
      /\ \A i \in DOMAIN frames : frames'[i].asking = frames[i].asking
      /\ \A i \in DOMAIN frames : \A f : InFrame(f, i)' <=> InFrame(f, i) /\ ~(f = e /\ i = n)
  BY <1>1, <1>2, RestFrames
<1>4. n \in Nat \ {0} /\ DOMAIN frames = 1..n /\ n \in DOMAIN frames
  BY <1>1, <1>2, TopIsFrame
<1>5. InFrame(e, n) /\ e \in Pending /\ stage[j] = "posted"
  BY <1>1, <1>4, PendingIs DEF InFrame, Top, EventsInv, PoolInv, FinishTold
<1>6. ~InFrame(<<j, "start">>, n)
  <2> SUFFICES ASSUME InFrame(<<j, "start">>, n) PROVE FALSE
    OBVIOUS
  <2>1. Before(e, <<j, "start">>)
    BY <1>1 DEF InFrame, Top
  <2>2. AddressOf[j] \in Nat
    BY ThreadPoolAssumption DEF ThreadPoolAssumption
  <2> QED BY <2>1, <2>2 DEF Before, Rank
<1>7. \A i \in DOMAIN frames : i # n =>
        \E a \in running \ {j} : \A h \in DOMAIN frames : ~InFrame(<<a, "finish">>, h)
  <2> SUFFICES ASSUME NEW i \in DOMAIN frames, i # n
               PROVE  \E a \in running \ {j} : \A h \in DOMAIN frames : ~InFrame(<<a, "finish">>, h)
    OBVIOUS
  <2>1. i < n
    BY <1>4
  <2>2. PICK a \in Jobs : a = frames[i].asking /\ a # NoJob
    BY <1>2, <2>1, BoxIsAJobs DEF EventsInv, Nested
  <2>3. stage[a] = "asking"
    BY <2>2 DEF EventsInv, PoolInv, AskingTold
  <2>4. a \in running \ {j} /\ <<a, "finish">> \notin Pending
    BY <1>5, <2>3 DEF EventsInv, PoolInv, RunningTold, FinishTold
  <2> QED BY <2>4, PendingIs
<1>8. Nested'
  BY <1>3 DEF EventsInv, Nested
<1>9. StartIsFirst'
  BY <1>1, <1>2, <1>3 DEF EventsInv, StartIsFirst, Kinds
<1>10. Anchored'
  <2> SUFFICES ASSUME NEW i \in DOMAIN frames, NEW k \in Jobs,
                      InFrame(<<k, "start">>, i), stage'[k] = "deleted"
               PROVE  \E a \in running \ {j} : \A h \in DOMAIN frames :
                        h <= i => ~InFrame(<<a, "finish">>, h)
    BY <1>1, <1>3 DEF Anchored
  <2>1. CASE i # n
    BY <1>7, <2>1
  <2>2. CASE i = n
    <3>1. stage[k] = "deleted"
      BY <1>1, <1>2, <1>6, <2>2
    <3>2. PICK a \in running : \A h \in DOMAIN frames : h <= i => ~InFrame(<<a, "finish">>, h)
      BY <3>1 DEF EventsInv, Anchored
    <3>3. a # j
      BY <1>4, <1>5, <2>2, <3>2
    <3> QED BY <3>2, <3>3
  <2> QED BY <2>1, <2>2
<1> QED BY <1>8, <1>9, <1>10

\* A handler that answers a download for its user, or leaves it to a box.
LEMMA ProxyNests ==
  ASSUME EventsInv, NEW j \in Jobs, HandleProxy(j)
  PROVE  /\ Nested' /\ StartIsFirst' /\ Anchored' /\ UNCHANGED <<running, loop, abort>>
         /\ stage[j] = "asking"
         /\ \A f : f # <<j, "proxy">> => (f \in Pending' <=> f \in Pending)
         /\ UNCHANGED <<stage, state>> \/ Resume(j, proxy = "yes")
<1>1. /\ frames # <<>> /\ UNCHANGED <<running, loop, abort>>
      /\ UNCHANGED <<stage, state>> \/ Resume(j, proxy = "yes")
      /\ \/ frames' = [Rest(<<j, "proxy">>) EXCEPT ![Len(frames)].asking = j]
         \/ frames' = Rest(<<j, "proxy">>)
  BY DEF HandleProxy, IsNext
<1>2. stage[j] = "asking" /\ frames \in Seq(Frames) /\ stage \in [Jobs -> Stages]
  BY HandleProxyKeeps DEF EventsInv, PoolInv, TypeOK
<1>3. /\ frames' \in Seq(Frames) /\ Len(frames') = Len(frames) /\ DOMAIN frames' = DOMAIN frames
      /\ \A i \in DOMAIN frames : i # Len(frames) => frames'[i].asking = frames[i].asking
      /\ \A i \in DOMAIN frames : \A f :
           InFrame(f, i)' <=> InFrame(f, i) /\ ~(f = <<j, "proxy">> /\ i = Len(frames))
  <2>1. CASE frames' = Rest(<<j, "proxy">>)
    BY <1>1, <1>2, <2>1, RestFrames
  <2>2. CASE frames' = [Rest(<<j, "proxy">>) EXCEPT ![Len(frames)].asking = j]
    BY <1>1, <1>2, <2>2, AskFrames
  <2> QED BY <1>1, <2>1, <2>2
<1>4. \A k \in Jobs : stage'[k] = "deleted" => stage[k] = "deleted"
  BY <1>1, <1>2 DEF Resume
<1>5. Nested' /\ StartIsFirst' /\ Anchored'
  BY <1>1, <1>2, <1>3, <1>4, SameDepth
<1>6. \A f : f # <<j, "proxy">> => (f \in Pending' <=> f \in Pending)
  BY <1>1, <1>3, PendingIs
<1> QED BY <1>1, <1>2, <1>5, <1>6

\* The user's answer, for the download of the innermost box.
LEMMA AnswerNests ==
  ASSUME EventsInv, Answer
  PROVE  /\ Nested' /\ StartIsFirst' /\ Anchored' /\ UNCHANGED <<running, loop, abort>>
         /\ \A f : f \in Pending' <=> f \in Pending
         /\ \E j \in Jobs, yes \in BOOLEAN : stage[j] = "asking" /\ Resume(j, yes)
<1>1. /\ frames # <<>> /\ UNCHANGED <<running, loop, abort>>
      /\ frames' = [frames EXCEPT ![Len(frames)].asking = NoJob]
  BY DEF Answer
<1>2. PICK j \in Jobs, yes \in BOOLEAN : stage[j] = "asking" /\ Resume(j, yes)
  BY AnswerKeeps DEF Answer, EventsInv
<1>3. frames \in Seq(Frames) /\ stage \in [Jobs -> Stages]
  BY DEF EventsInv, PoolInv, TypeOK
<1>4. /\ frames' \in Seq(Frames) /\ Len(frames') = Len(frames) /\ DOMAIN frames' = DOMAIN frames
      /\ \A i \in DOMAIN frames : i # Len(frames) => frames'[i].asking = frames[i].asking
      /\ \A i \in DOMAIN frames : \A f : InFrame(f, i)' <=> InFrame(f, i)
  BY <1>1, <1>3, AnswerFrames
<1>5. \A k \in Jobs : stage'[k] = "deleted" => stage[k] = "deleted"
  BY <1>2, <1>3 DEF Resume
<1>6. Nested' /\ StartIsFirst' /\ Anchored'
  BY <1>1, <1>3, <1>4, <1>5, SameDepth
<1>7. \A f : f \in Pending' <=> f \in Pending
  BY <1>1, <1>4, PendingIs
<1> QED BY <1>1, <1>2, <1>6, <1>7

\* The start event of a job is handled.
LEMMA StartNests ==
  ASSUME EventsInv, NEW j \in Jobs, HandleStart(j)
  PROVE  /\ Nested' /\ StartIsFirst' /\ Anchored'
         /\ UNCHANGED <<stage, state, abort, running>>
         /\ \A f : f # <<j, "start">> => (f \in Pending' <=> f \in Pending)
<1>1. /\ frames # <<>> /\ UNCHANGED <<stage, state, abort, running, loop>>
      /\ frames' = Rest(<<j, "start">>)
  BY DEF HandleStart, IsNext
<1>2. frames \in Seq(Frames)
  BY DEF EventsInv, PoolInv, TypeOK
<1>3. /\ frames' \in Seq(Frames) /\ Len(frames') = Len(frames) /\ DOMAIN frames' = DOMAIN frames
      /\ \A i \in DOMAIN frames : frames'[i].asking = frames[i].asking
      /\ \A i \in DOMAIN frames : \A f :
           InFrame(f, i)' <=> InFrame(f, i) /\ ~(f = <<j, "start">> /\ i = Len(frames))
  BY <1>1, <1>2, RestFrames
<1>4. Nested' /\ StartIsFirst' /\ Anchored'
  BY <1>1, <1>2, <1>3, SameDepth
<1>5. \A f : f # <<j, "start">> => (f \in Pending' <=> f \in Pending)
  BY <1>1, <1>3, PendingIs
<1> QED BY <1>1, <1>4, <1>5

\* What a worker does to the job in its hands: it leaves the batches and the other
\* jobs alone, and announces a job that it starts.
LEMMA WorkerNests ==
  ASSUME EventsInv, NEW w \in Workers, Start(w) \/ Run(w) \/ Ask(w) \/ Check(w) \/ Post(w)
  PROVE  /\ Nested' /\ StartIsFirst' /\ Anchored' /\ UNCHANGED <<running, frames, abort>>
         /\ \A f : f \in Pending => f \in Pending'
         /\ busy[w] \in Jobs /\ \A k \in Jobs \ {busy[w]} :
              stage'[k] = stage[k] /\ state'[k] = state[k]
         /\ stage'[busy[w]] = "running" => <<busy[w], "start">> \in Pending'
         /\ stage'[busy[w]] = "asking" \/ state'[busy[w]] = "Success" =>
              stage[busy[w]] = "running" \/ state[busy[w]] = "Success"
<1>1. PICK j \in Jobs : j = busy[w]
  BY DEF Start, Run, Ask, Check, Post, Executing, EventsInv, PoolInv, TypeOK
<1>2. stage \in [Jobs -> Stages] /\ state \in [Jobs -> States]
  BY DEF EventsInv, PoolInv, TypeOK
<1> DEFINE Moves(x, y) ==
             /\ stage[j] = x /\ stage' = [stage EXCEPT ![j] = y]
             /\ \A k \in Jobs \ {j} : state'[k] = state[k]
           Adds(f) == loop' = loop \union {f} /\ UNCHANGED <<running, frames, abort>>
           Goal ==
             /\ UNCHANGED <<running, frames, abort>>
             /\ \A k \in Jobs : stage'[k] = "deleted" => stage[k] = "deleted"
             /\ \A k \in Jobs : <<k, "start">> \in loop' =>
                  \/ <<k, "start">> \in loop
                  \/ stage[k] = "taken" /\ stage'[k] # "deleted"
             /\ loop \subseteq loop'
             /\ \A k \in Jobs \ {j} : stage'[k] = stage[k] /\ state'[k] = state[k]
             /\ stage'[j] = "running" => <<j, "start">> \in loop'
             /\ stage'[j] = "asking" \/ state'[j] = "Success" =>
                  stage[j] = "running" \/ state[j] = "Success"
<1>3. CASE Start(w)
  <2>1. UNCHANGED <<state, running, frames, abort>>
    BY <1>3 DEF Start
  <2>2. \/ Moves("taken", "ran") /\ loop' = loop
        \/ Moves("taken", "running") /\ Adds(<<j, "start">>)
    BY <1>1, <1>3 DEF Start, Executing
  <2>3. Goal
    BY <1>1, <1>2, <2>1, <2>2
  <2> QED BY <1>1, <2>3, SameBatches DEF Pending
<1>4. CASE Run(w)
  <2>1. Moves("running", "ran") /\ UNCHANGED <<running, frames, abort, loop>>
    BY <1>1, <1>2, <1>4 DEF Run, Executing
  <2>2. Goal
    BY <1>1, <1>2, <2>1
  <2> QED BY <1>1, <2>2, SameBatches DEF Pending
<1>5. CASE Ask(w)
  <2>1. Moves("running", "asking") /\ Adds(<<j, "proxy">>)
    BY <1>1, <1>5 DEF Ask, Executing
  <2>2. Goal
    BY <1>1, <1>2, <2>1
  <2> QED BY <1>1, <2>2, SameBatches DEF Pending
<1>6. CASE Check(w)
  <2>1. /\ Moves("ran", "checked") /\ UNCHANGED <<running, frames, abort, loop>>
        /\ state'[j] = "Success" => state[j] = "Success"
    BY <1>1, <1>2, <1>6 DEF Check, Executing
  <2>2. Goal
    BY <1>1, <1>2, <2>1
  <2> QED BY <1>1, <2>2, SameBatches DEF Pending
<1>7. CASE Post(w)
  <2>1. Moves("checked", "posted") /\ Adds(<<j, "finish">>) /\ UNCHANGED state
    BY <1>1, <1>7 DEF Post, Executing
  <2>2. Goal
    BY <1>1, <1>2, <2>1
  <2> QED BY <1>1, <2>2, SameBatches DEF Pending
<1> QED BY <1>3, <1>4, <1>5, <1>6, <1>7

\* A worker takes a job that waited in its queue.
LEMMA TakeNests ==
  ASSUME EventsInv, NEW w \in Workers, Take(w)
  PROVE  /\ Nested' /\ StartIsFirst' /\ Anchored'
         /\ UNCHANGED <<state, abort, running, loop, frames>>
         /\ \E j \in Jobs : stage[j] = "queued" /\ stage' = [stage EXCEPT ![j] = "taken"]
<1>1. /\ queue[w] # <<>> /\ stage' = [stage EXCEPT ![Head(queue[w])] = "taken"]
      /\ UNCHANGED <<state, abort, running, loop, frames>>
  BY DEF Take
<1>2. /\ queue[w] \in Seq(Jobs) /\ 1 \in DOMAIN queue[w] /\ Head(queue[w]) = queue[w][1]
      /\ stage \in [Jobs -> Stages]
  BY <1>1, EmptySeq DEF EventsInv, PoolInv, TypeOK
<1>3. Head(queue[w]) \in Jobs /\ stage[Head(queue[w])] = "queued"
  BY <1>2, ElementOfSeq DEF EventsInv, PoolInv, QueuesHold
<1>4. Nested' /\ StartIsFirst' /\ Anchored'
  BY <1>1, <1>2, SameBatches
<1> QED BY <1>1, <1>3, <1>4

\* A new job is given to the pool.
LEMMA PushNests ==
  ASSUME EventsInv, NEW j \in Jobs, Push(j)
  PROVE  Nested' /\ StartIsFirst' /\ Anchored'
<1>1. /\ running' = running \union {j} /\ stage' = [stage EXCEPT ![j] = "queued"]
      /\ UNCHANGED <<loop, frames>>
  BY DEF Push
<1>2. stage \in [Jobs -> Stages]
  BY DEF EventsInv, PoolInv, TypeOK
<1> QED BY <1>1, <1>2, SameBatches

\* Flags that are set, by the cancel button or by rollback().
LEMMA FlagsNest ==
  ASSUME EventsInv, abort' \in [Jobs -> BOOLEAN], \A j \in Jobs : abort[j] => abort'[j],
         UNCHANGED <<stage, state, running, workerVars, proxy, loop, frames>>
  PROVE  EventsInv'
<1>1. PoolInv'
  BY FlagsKeep DEF EventsInv
<1>2. ResultTold'
  BY DEF EventsInv, ResultTold
<1>3. Nested' /\ StartIsFirst' /\ Anchored'
  BY SameBatches
<1> QED BY <1>1, <1>2, <1>3 DEF EventsInv

\* Every step of the pool keeps the order of the events.
LEMMA EventsStep == EventsInv /\ [Next]_vars => EventsInv'
<1> SUFFICES ASSUME EventsInv, [Next]_vars PROVE EventsInv'
  OBVIOUS
<1>1. PoolInv' /\ ResultTold'
  BY PoolStep, PoolRefines DEF EventsInv
<1> DEFINE Goal == Nested' /\ StartIsFirst' /\ Anchored'
<1>2. ASSUME NEW j \in Jobs, Push(j) PROVE Goal
  BY <1>2, PushNests
<1>3. ASSUME Abort PROVE Goal
  BY <1>3, SameBatches DEF Abort
<1>4. ASSUME Tick PROVE Goal
  BY <1>4, TickNests
<1>5. ASSUME NEW j \in Jobs, HandleStart(j) \/ HandleFinish(j) \/ HandleProxy(j) PROVE Goal
  BY <1>5, StartNests, FinishNests, ProxyNests
<1>6. ASSUME Answer PROVE Goal
  BY <1>6, AnswerNests
<1>7. ASSUME EndTick PROVE Goal
  BY <1>7, EndTickNests
<1>8. ASSUME NEW w \in Workers, WorkerStep(w) PROVE Goal
  BY <1>8, TakeNests, WorkerNests DEF WorkerStep
<1>9. ASSUME UNCHANGED vars PROVE Goal
  BY <1>9, SameBatches DEF vars
<1> QED BY <1>1, <1>2, <1>3, <1>4, <1>5, <1>6, <1>7, <1>8, <1>9
        DEF EventsInv, Next, MainStep, Handle

\* A deleted job stays as it is; jobs are deleted after their end only.
LEMMA JobsEndOnce ==
  ASSUME EventsInv, [Next]_vars, NEW k \in Jobs
  PROVE  /\ stage[k] = "deleted" => stage'[k] = "deleted" /\ state'[k] = state[k]
         /\ stage'[k] = "deleted" => stage[k] \in {"posted", "deleted"} /\ state'[k] = state[k]
         /\ stage[k] # "new" => stage'[k] # "new"
<1>1. [Users!Next]_Users!vars
  BY PoolRefines DEF EventsInv
<1>2. /\ stage[k] \in Stages /\ stage'[k] \in Stages
  BY PoolStep DEF EventsInv, PoolInv, TypeOK
<1>3. /\ AbstractStage \in [Jobs -> {"new", "running", "ended", "reported"}]
      /\ AbstractResult = [j \in Jobs |-> AbstractResult[j]]
      /\ AbstractStage[k] = "reported" <=> stage[k] = "deleted"
      /\ AbstractStage[k] = "ended" <=> stage[k] = "posted"
      /\ AbstractStage[k] = "new" <=> stage[k] = "new"
      /\ stage[k] \in {"posted", "deleted"} => AbstractResult[k] = state[k]
  BY <1>2 DEF AbstractStage, AbstractResult
<1>4. /\ AbstractStage'[k] = "reported" <=> stage'[k] = "deleted"
      /\ AbstractStage'[k] = "ended" <=> stage'[k] = "posted"
      /\ AbstractStage'[k] = "new" <=> stage'[k] = "new"
      /\ stage'[k] \in {"posted", "deleted"} => AbstractResult'[k] = state'[k]
  BY <1>2 DEF AbstractStage, AbstractResult
<1>5. CASE UNCHANGED <<AbstractStage, AbstractResult>>
  BY <1>3, <1>4, <1>5
<1>6. ASSUME NEW j \in Jobs, Users!Push(j) PROVE
        /\ AbstractStage'[k] = IF k = j THEN "running" ELSE AbstractStage[k]
        /\ AbstractResult' = AbstractResult /\ AbstractStage[j] = "new"
  BY <1>3, <1>6 DEF Users!Push
<1>7. ASSUME NEW j \in Jobs, Users!End(j) PROVE
        /\ AbstractStage'[k] = IF k = j THEN "ended" ELSE AbstractStage[k]
        /\ k # j => AbstractResult'[k] = AbstractResult[k]
        /\ AbstractStage[j] = "running"
  BY <1>3, <1>7 DEF Users!End
<1>8. ASSUME NEW j \in Jobs, Users!Report(j) PROVE
        /\ AbstractStage'[k] = IF k = j THEN "reported" ELSE AbstractStage[k]
        /\ AbstractResult' = AbstractResult /\ AbstractStage[j] = "ended"
  BY <1>3, <1>8 DEF Users!Report
<1>9. CASE Users!Next
  <2>1. PICK j \in Jobs : Users!Push(j) \/ Users!End(j) \/ Users!Report(j)
    BY <1>9 DEF Users!Next
  <2> QED BY <1>3, <1>4, <1>6, <1>7, <1>8, <2>1
<1> QED BY <1>1, <1>5, <1>9 DEF Users!vars

-----------------------------------------------------------------------------
(* What the steps of the pool are to a task *)

\* What a task can see of a job that has started.
Ran(k) == state[k] = "Success" \/ stage[k] \in {"running", "asking"}

\* Start events stay pending until they are handled, and no job starts without one.
Announced ==
  \A k \in Jobs :
    /\ <<k, "start">> \in Pending => <<k, "start">> \in Pending'
    /\ Ran(k)' => Ran(k) \/ <<k, "start">> \in Pending'

\* A step of the pool other than handling a start event loses none of them.
LEMMA PoolAnnounces ==
  ASSUME EventsInv,
         \/ \E j \in Jobs : Push(j) \/ HandleFinish(j) \/ HandleProxy(j)
         \/ Abort \/ Tick \/ EndTick \/ Answer
         \/ \E w \in Workers : WorkerStep(w)
  PROVE  Announced
<1>1. stage \in [Jobs -> Stages] /\ state \in [Jobs -> States]
  BY DEF EventsInv, PoolInv, TypeOK
<1>2. ASSUME NEW j \in Jobs, Push(j) PROVE Announced
  BY <1>1, <1>2 DEF Push, Announced, Ran, Pending
<1>3. ASSUME NEW j \in Jobs, HandleFinish(j) PROVE Announced
  <2>1. /\ stage' = [stage EXCEPT ![j] = "deleted"] /\ UNCHANGED state
        /\ loop' = loop \ ({j} \X Kinds)
        /\ frames # <<>> /\ frames' = Rest(<<j, "finish">>) /\ <<j, "finish">> \in Top.events
    BY <1>3 DEF HandleFinish, IsNext
  <2>2. frames \in Seq(Frames)
    BY DEF EventsInv, PoolInv, TypeOK
  <2>3. InFrame(<<j, "finish">>, Len(frames)) /\ Len(frames) \in DOMAIN frames
    BY <2>1, <2>2, TopIsFrame DEF InFrame, Top
  <2>4. <<j, "start">> \notin loop
    BY <2>3 DEF EventsInv, StartIsFirst
  <2>5. \A k \in Jobs : <<k, "start">> \in Pending => <<k, "start">> \in Pending'
    <3>1. /\ DOMAIN frames' = DOMAIN frames
          /\ \A i \in DOMAIN frames : \A f :
               InFrame(f, i)' <=> InFrame(f, i) /\ ~(f = <<j, "finish">> /\ i = Len(frames))
      BY <2>1, <2>2, RestFrames
    <3>2. \A k \in Jobs : <<k, "start">> \in loop => <<k, "start">> \in loop'
      BY <2>1, <2>4
    <3> QED BY <3>1, <3>2, PendingIs
  <2> QED BY <1>1, <2>1, <2>5 DEF Announced, Ran
<1>4. ASSUME NEW j \in Jobs, stage[j] = "asking", NEW yes \in BOOLEAN, Resume(j, yes),
             \A k \in Jobs : <<k, "start">> \in Pending => <<k, "start">> \in Pending'
      PROVE  Announced
  BY <1>1, <1>4 DEF Resume, Announced, Ran
<1>5. ASSUME NEW j \in Jobs, HandleProxy(j) PROVE Announced
  <2>1. \A k \in Jobs : <<k, "start">> \in Pending => <<k, "start">> \in Pending'
    BY <1>5, ProxyNests
  <2>2. stage[j] = "asking" /\ (UNCHANGED <<stage, state>> \/ Resume(j, proxy = "yes"))
    BY <1>5, ProxyNests
  <2>3. CASE UNCHANGED <<stage, state>>
    BY <2>1, <2>3 DEF Announced, Ran
  <2>4. CASE Resume(j, proxy = "yes")
    BY <1>4, <2>1, <2>2, <2>4
  <2> QED BY <2>2, <2>3, <2>4
<1>6. ASSUME Answer PROVE Announced
  <2>1. \A k \in Jobs : <<k, "start">> \in Pending => <<k, "start">> \in Pending'
    BY <1>6, AnswerNests
  <2>2. PICK j \in Jobs, yes \in BOOLEAN : stage[j] = "asking" /\ Resume(j, yes)
    BY <1>6, AnswerNests
  <2> QED BY <1>4, <2>1, <2>2
<1>7. ASSUME Abort PROVE Announced
  BY <1>7 DEF Abort, Announced, Ran, Pending
<1>8. ASSUME Tick PROVE Announced
  <2>1. PICK n : n = Len(frames) + 1
    OBVIOUS
  <2>2. \A f : f \in Pending => f \in Pending'
    BY <1>8, <2>1, TickFrames, PendingIs DEF EventsInv, PoolInv, InFrame
  <2> QED BY <1>8, <2>2 DEF Tick, Announced, Ran
<1>9. ASSUME EndTick PROVE Announced
  <2>1. \A f : f \in Pending => f \in Pending'
    BY <1>9, EndTickFrames, PendingIs DEF EndTick, EventsInv, PoolInv, InFrame
  <2> QED BY <1>9, <2>1 DEF EndTick, Announced, Ran
<1>10. ASSUME NEW w \in Workers, WorkerStep(w) PROVE Announced
  <2>1. ASSUME Take(w) PROVE Announced
    <3>1. UNCHANGED <<state, loop, frames>>
      BY <2>1, TakeNests
    <3>2. PICK j \in Jobs : stage' = [stage EXCEPT ![j] = "taken"]
      BY <2>1, TakeNests
    <3> QED BY <1>1, <3>1, <3>2 DEF Announced, Ran, Pending
  <2>2. ASSUME Start(w) \/ Run(w) \/ Ask(w) \/ Check(w) \/ Post(w) PROVE Announced
    BY <2>2, WorkerNests DEF Announced, Ran
  <2> QED BY <1>10, <2>1, <2>2 DEF WorkerStep
<1> QED BY <1>2, <1>3, <1>5, <1>6, <1>7, <1>8, <1>9, <1>10

\* When the pool is idle, no start event of a deleted job is left: the books are complete.
LEMMA IdleHasNoStart ==
  ASSUME EventsInv, running = {}, NEW k \in Jobs, stage[k] = "deleted"
  PROVE  <<k, "start">> \notin Pending
BY PendingIs DEF EventsInv, StartIsFirst, Anchored

-----------------------------------------------------------------------------
(* Steps keep the books *)

\* No task has begun at first.
LEMMA TasksInitHolds == TasksInit => TasksInv
<1> SUFFICES ASSUME TasksInit PROVE TasksInv
  OBVIOUS
<1>1. EventsInv
  BY EventsInit DEF TasksInit
<1>2. /\ stage = [j \in Jobs |-> "new"] /\ state = [j \in Jobs |-> "Idle"] /\ running = {}
  BY DEF TasksInit, Init
<1>3. TasksTypeOK
  BY DEF TasksInit, TasksTypeOK
<1>4. BooksTold /\ PhaseTold /\ FailTold
  BY <1>2 DEF TasksInit, BooksTold, PhaseTold, FailTold, JobsOf
<1>5. Heard /\ PlacedTold /\ TempTold
  BY <1>2 DEF TasksInit, Heard, PlacedTold, TempTold
<1> QED BY <1>1, <1>3, <1>4, <1>5 DEF TasksInv

\* Steps of the pool and of the workers that end no job and that the tasks do not
\* hear of; a job may create its file, and flags may be set.
LEMMA QuietStep ==
  ASSUME TasksInv, EventsInv', TasksTypeOK', Announced,
         UNCHANGED <<running, phase, newFiles, waiting, fail, placed, result, late>>,
         \A k \in Jobs : /\ stage[k] = "deleted" => state'[k] = state[k]
                         /\ stage'[k] = "deleted" <=> stage[k] = "deleted"
                         /\ stage[k] # "new" => stage'[k] # "new"
                         /\ abort[k] \/ k \in aborting => abort'[k] \/ k \in aborting'
                         /\ k \in temp' => k \in temp \/ stage[k] = "running",
         aborting' \subseteq aborting
  PROVE  TasksInv'
<1> USE DEF TasksInv
<1>1. BooksTold'
  BY DEF BooksTold, JobsOf
<1>2. PhaseTold'
  BY DEF PhaseTold
<1>3. FailTold'
  BY DEF FailTold, TasksTypeOK
<1>4. Heard'
  BY DEF Heard, Announced, Ran
<1>5. PlacedTold'
  BY DEF PlacedTold, JobsOf
<1>6. TempTold'
  <2>1. \A j \in Jobs : result[TaskOf[j]] # "pending" => stage[j] # "running"
    BY InstallJobsAssumption
       DEF InstallJobsAssumption, PhaseTold, EventsInv, PoolInv, RunningTold
  <2> QED BY <2>1 DEF TempTold, TasksTypeOK
<1> QED BY <1>1, <1>2, <1>3, <1>4, <1>5, <1>6

\* What a step of the pool is when it neither adds a job nor ends one.
LEMMA QuietPool ==
  ASSUME EventsInv, running' = running,
         \/ \E j \in Jobs : HandleProxy(j)
         \/ Abort \/ Tick \/ EndTick \/ Answer
         \/ \E w \in Workers : WorkerStep(w)
  PROVE  /\ EventsInv' /\ Announced
         /\ \A k \in Jobs : /\ stage[k] = "deleted" => state'[k] = state[k]
                            /\ stage'[k] = "deleted" <=> stage[k] = "deleted"
                            /\ stage[k] # "new" => stage'[k] # "new"
                            /\ abort[k] => abort'[k]
<1>1. Next /\ Announced
  BY PoolAnnounces DEF Next, MainStep, Handle
<1>2. EventsInv'
  BY <1>1, EventsStep
<1>3. ASSUME NEW k \in Jobs
      PROVE  /\ stage[k] = "deleted" => state'[k] = state[k]
             /\ stage'[k] = "deleted" <=> stage[k] = "deleted"
             /\ stage[k] # "new" => stage'[k] # "new"
  <2>1. /\ stage[k] = "deleted" => stage'[k] = "deleted" /\ state'[k] = state[k]
        /\ stage'[k] = "deleted" => stage[k] \in {"posted", "deleted"} /\ state'[k] = state[k]
        /\ stage[k] # "new" => stage'[k] # "new"
    BY <1>1, JobsEndOnce
  <2>2. /\ k \in running <=> stage[k] \notin {"new", "deleted"}
        /\ k \in running <=> stage'[k] \notin {"new", "deleted"}
    BY <1>2 DEF EventsInv, PoolInv, RunningTold
  <2> QED BY <2>1, <2>2
<1>4. \A k \in Jobs : abort[k] => abort'[k]
  <2>1. abort \in [Jobs -> BOOLEAN]
    BY DEF EventsInv, PoolInv, TypeOK
  <2>2. CASE Abort
    BY <2>1, <2>2 DEF Abort
  <2>3. CASE Tick \/ EndTick \/ Answer \/ \E j \in Jobs : HandleProxy(j)
    BY <2>3 DEF Tick, EndTick, Answer, HandleProxy
  <2>4. ASSUME NEW w \in Workers, WorkerStep(w) PROVE UNCHANGED abort
    BY <2>4 DEF WorkerStep, Take, Start, Run, Ask, Check, Post
  <2> QED BY <2>2, <2>3, <2>4
<1> QED BY <1>1, <1>2, <1>3, <1>4

\* A job is given to the pool before any event is handled.
LEMMA StartJobKeeps ==
  ASSUME TasksInv, NEW j \in Jobs, StartJob(j)
  PROVE  TasksInv'
<1> USE DEF TasksInv
<1> DEFINE t == TaskOf[j]
<1>1. /\ phase = "start" /\ Push(j) /\ waiting' = [waiting EXCEPT ![t] = @ \union {j}]
      /\ UNCHANGED <<phase, newFiles, fail, cancelled, aborting, temp, opened, placed, result, late>>
  BY DEF StartJob, files
<1>2. /\ stage[j] = "new" /\ stage' = [stage EXCEPT ![j] = "queued"]
      /\ running' = running \union {j} /\ UNCHANGED <<state, abort>>
  BY <1>1 DEF Push
<1>3. EventsInv' /\ Announced
  BY <1>1, EventsStep, PoolAnnounces DEF Next
<1>4. t \in Tasks /\ stage \in [Jobs -> Stages] /\ \A k \in Jobs : TaskOf[k] \in Tasks
  BY InstallJobsAssumption DEF InstallJobsAssumption, EventsInv, PoolInv, TypeOK
<1>5. TasksTypeOK'
  BY <1>1, <1>4 DEF TasksTypeOK
<1>6. BooksTold'
  BY <1>1, <1>2, <1>4 DEF BooksTold, JobsOf, TasksTypeOK
<1>7. PhaseTold' /\ FailTold'
  BY <1>1, <1>2, <1>4 DEF PhaseTold, FailTold
<1>8. Heard'
  BY <1>1, <1>3 DEF Heard, Announced, Ran
<1>9. PlacedTold'
  BY <1>1, <1>2, <1>4 DEF PlacedTold, JobsOf
<1>10. TempTold'
  BY <1>1, <1>2, <1>4 DEF TempTold, TasksTypeOK
<1> QED BY <1>3, <1>5, <1>6, <1>7, <1>8, <1>9, <1>10

\* The pool is left alone.
LEMMA PoolStays ==
  ASSUME EventsInv, UNCHANGED vars
  PROVE  EventsInv' /\ Announced
<1>1. EventsInv'
  BY EventsStep
<1>2. Announced
  BY DEF vars, Announced, Ran, Pending
<1> QED BY <1>1, <1>2

\* The last task was started.
LEMMA StartedKeeps ==
  ASSUME TasksInv, Started
  PROVE  TasksInv'
<1> USE DEF TasksInv
<1>1. EventsInv' /\ UNCHANGED vars
  BY PoolStays DEF Started, poolVars
<1>2. TasksTypeOK'
  BY DEF Started, TasksTypeOK, books, files
<1>3. BooksTold' /\ PhaseTold' /\ FailTold'
  BY <1>1 DEF Started, books, files, vars, BooksTold, PhaseTold, FailTold, JobsOf
<1>4. Heard' /\ PlacedTold' /\ TempTold'
  BY <1>1 DEF Started, books, files, vars, Heard, Pending, PlacedTold, TempTold, JobsOf
<1> QED BY <1>1, <1>2, <1>3, <1>4

\* The start event of a job adds its file to the task's.
LEMMA OnStartKeeps ==
  ASSUME TasksInv, NEW j \in Jobs, OnStart(j)
  PROVE  TasksInv'
<1> USE DEF TasksInv
<1> DEFINE t == TaskOf[j]
<1>1. /\ HandleStart(j) /\ newFiles' = [newFiles EXCEPT ![t] = @ \union {j}]
      /\ UNCHANGED <<phase, waiting, fail, cancelled, aborting, temp, opened, placed, result, late>>
  BY DEF OnStart, files
<1>2. /\ UNCHANGED <<stage, state, abort, running>>
      /\ \A f : f # <<j, "start">> => (f \in Pending' <=> f \in Pending)
  BY <1>1, StartNests
<1>3. EventsInv'
  BY <1>1, EventsStep DEF Next, MainStep, Handle
<1>4. t \in Tasks /\ \A k \in Jobs : TaskOf[k] \in Tasks
  BY InstallJobsAssumption DEF InstallJobsAssumption
<1>5. /\ TasksTypeOK' /\ j \in newFiles'[t]
      /\ \A u \in Tasks : newFiles[u] \subseteq newFiles'[u]
  BY <1>1, <1>4 DEF TasksTypeOK
<1>6. BooksTold'
  BY <1>1, <1>2, <1>4 DEF BooksTold, JobsOf, TasksTypeOK
<1>7. PhaseTold' /\ FailTold'
  BY <1>1, <1>2 DEF PhaseTold, FailTold
<1>8. Heard'
  <2> SUFFICES ASSUME NEW k \in Jobs,
                      state'[k] = "Success" \/ stage'[k] \in {"running", "asking"} \/ k \in temp'
               PROVE  <<k, "start">> \in Pending' \/ k \in newFiles'[TaskOf[k]]
    BY DEF Heard
  <2>1. <<k, "start">> \in Pending \/ k \in newFiles[TaskOf[k]]
    BY <1>1, <1>2 DEF Heard
  <2> QED BY <1>2, <1>4, <1>5, <2>1
<1>9. PlacedTold' /\ TempTold'
  BY <1>1, <1>2 DEF PlacedTold, TempTold, JobsOf
<1> QED BY <1>3, <1>5, <1>6, <1>7, <1>8, <1>9

\* A job ended: its task does not wait for it any more, and rolls back what it has
\* if the job did not end well.
LEMMA OnFinishKeeps ==
  ASSUME TasksInv, NEW j \in Jobs, OnFinish(j)
  PROVE  TasksInv'
<1> USE DEF TasksInv
<1>1. PICK t \in Tasks : t = TaskOf[j]
  BY InstallJobsAssumption DEF InstallJobsAssumption
<1>2. /\ aborting = {} /\ phase \in {"wait", "over"} /\ HandleFinish(j)
      /\ waiting' = [waiting EXCEPT ![t] = waiting[t] \ {j}]
      /\ \/ /\ state[j] # "Success"
            /\ temp' = temp \ newFiles[t] /\ aborting' = waiting'[t] /\ fail' = fail \union {t}
         \/ state[j] = "Success" /\ UNCHANGED <<temp, aborting, fail>>
      /\ phase' = IF running' = {} THEN "commit" ELSE phase
      /\ late' = late \union ({j} \ newFiles[t])
      /\ UNCHANGED <<newFiles, cancelled, opened, placed, result>>
  BY <1>1 DEF OnFinish, Listening, StillWaiting, MustRollBack, Siblings, Failed
<1>3. /\ running' = running \ {j} /\ stage' = [stage EXCEPT ![j] = "deleted"]
      /\ UNCHANGED <<state, abort>> /\ stage \in [Jobs -> Stages]
  BY <1>2 DEF HandleFinish, EventsInv, PoolInv, TypeOK
<1>4. Next /\ EventsInv' /\ Announced
  BY <1>2, EventsStep, PoolAnnounces DEF Next, MainStep, Handle
<1>5. stage[j] \in {"posted", "deleted"}
  BY <1>3, <1>4, JobsEndOnce
<1>6. stage[j] = "posted" /\ j \in running
  <2>1. stage[j] # "deleted"
    <3>1. frames # <<>> /\ <<j, "finish">> \in Top.events /\ frames \in Seq(Frames)
      BY <1>2 DEF HandleFinish, IsNext, EventsInv, PoolInv, TypeOK
    <3>2. <<j, "finish">> \in Pending
      BY <3>1, TopIsFrame, PendingIs DEF InFrame, Top
    <3> QED BY <3>2 DEF EventsInv, PoolInv, FinishTold
  <2> QED BY <1>5, <2>1 DEF EventsInv, PoolInv, RunningTold
<1>7. phase = "wait" /\ phase' \in {"wait", "commit"} /\ \A u \in Tasks : result[u] = "pending"
  BY <1>2, <1>6 DEF PhaseTold
<1>8. /\ TasksTypeOK' /\ waiting'[t] = waiting[t] \ {j}
      /\ \A u \in Tasks \ {t} : waiting'[u] = waiting[u]
  BY <1>2, <1>7 DEF TasksTypeOK
<1>9. BooksTold'
  BY <1>1, <1>2, <1>3, <1>8 DEF BooksTold, JobsOf
<1>10. PhaseTold'
  BY <1>2, <1>3, <1>7 DEF PhaseTold
<1>11. FailTold'
  <2>1. \A u \in fail' : \A k \in waiting'[u] : abort'[k] \/ k \in aborting'
    BY <1>2, <1>3, <1>8 DEF FailTold, TasksTypeOK
  <2>2. \A k \in Jobs : stage'[k] = "deleted" /\ TaskOf[k] \notin fail' => state'[k] = "Success"
    BY <1>1, <1>2, <1>3 DEF FailTold
  <2> QED BY <1>7, <2>1, <2>2 DEF FailTold
<1>12. Heard'
  BY <1>2, <1>4 DEF Heard, Announced, Ran
<1>13. PlacedTold'
  BY <1>2, <1>3, <1>7 DEF PlacedTold, JobsOf
<1>14. TempTold'
  <2>1. \A k \in temp' \ late' : stage'[k] = "deleted" => state'[k] = "Success"
    BY <1>1, <1>2, <1>3 DEF TempTold, TasksTypeOK
  <2>2. \A k \in Jobs : result'[TaskOf[k]] = "pending"
    BY <1>2, <1>7, InstallJobsAssumption DEF InstallJobsAssumption
  <2> QED BY <1>8, <2>1, <2>2 DEF TempTold, TasksTypeOK
<1> QED BY <1>4, <1>8, <1>9, <1>10, <1>11, <1>12, <1>13, <1>14

\* rollback() stops one more job.
LEMMA AbortSiblingKeeps ==
  ASSUME TasksInv, AbortSibling
  PROVE  TasksInv'
<1> USE DEF TasksInv
<1>1. PICK k \in aborting : abort' = [abort EXCEPT ![k] = TRUE] /\ aborting' = aborting \ {k}
  BY DEF AbortSibling
<1>2. /\ UNCHANGED <<stage, state, running, workerVars, proxy, loop, frames>>
      /\ UNCHANGED <<phase, newFiles, waiting, fail, cancelled, temp, opened, placed, result, late>>
  BY DEF AbortSibling, books, files
<1>3. k \in Jobs /\ abort \in [Jobs -> BOOLEAN]
  BY DEF TasksTypeOK, EventsInv, PoolInv, TypeOK
<1>4. abort' \in [Jobs -> BOOLEAN] /\ \A i \in Jobs : abort[i] => abort'[i]
  BY <1>1, <1>3
<1>5. EventsInv'
  BY <1>2, <1>4, FlagsNest
<1>6. Announced
  BY <1>2 DEF Announced, Ran, Pending
<1>7. TasksTypeOK'
  BY <1>1, <1>2 DEF TasksTypeOK
<1>8. \A i \in Jobs : abort[i] \/ i \in aborting => abort'[i] \/ i \in aborting'
  BY <1>1, <1>3
<1> QED BY <1>1, <1>2, <1>5, <1>6, <1>7, <1>8, QuietStep

\* Events the tasks do not hear of, and the cancel button.
LEMMA OnOtherKeeps ==
  ASSUME TasksInv, OnOther \/ Cancel
  PROVE  TasksInv'
<1> USE DEF TasksInv
<1>1. /\ UNCHANGED <<phase, newFiles, waiting, fail, aborting, temp, opened, placed, result, late>>
      /\ cancelled' \in BOOLEAN
  BY DEF OnOther, Cancel, books, files, TasksTypeOK
<1>2. \/ \E j \in Jobs : HandleProxy(j)
      \/ Abort \/ Tick \/ EndTick \/ Answer
  BY DEF OnOther, Cancel
<1>3. running' = running
  BY <1>2 DEF HandleProxy, Abort, Tick, EndTick, Answer
<1>4. /\ EventsInv' /\ Announced
      /\ \A k \in Jobs : /\ stage[k] = "deleted" => state'[k] = state[k]
                         /\ stage'[k] = "deleted" <=> stage[k] = "deleted"
                         /\ stage[k] # "new" => stage'[k] # "new"
                         /\ abort[k] => abort'[k]
  BY <1>2, <1>3, QuietPool
<1>5. TasksTypeOK'
  BY <1>1 DEF TasksTypeOK
<1> QED BY <1>1, <1>3, <1>4, <1>5, QuietStep

\* The workers fetch files while the main thread goes on.
LEMMA WorkersKeep ==
  ASSUME TasksInv, NEW w \in Workers,
         Open(w) \/ RunJob(w) \/ AskForProxy(w) \/ WorkerOther(w)
  PROVE  TasksInv'
<1> USE DEF TasksInv
<1>1. CASE Open(w)
  <2>1. /\ UNCHANGED vars /\ stage[busy[w]] = "running" /\ busy[w] # NoJob
        /\ opened' = opened \union {busy[w]} /\ temp' = temp \union {busy[w]}
        /\ UNCHANGED <<phase, newFiles, waiting, fail, cancelled, aborting, placed, result, late>>
    BY <1>1 DEF Open, Executing, poolVars, books
  <2>2. busy[w] \in Jobs
    BY <2>1 DEF EventsInv, PoolInv, TypeOK
  <2>3. EventsInv' /\ Announced
    BY <2>1, PoolStays
  <2>4. TasksTypeOK'
    BY <2>1, <2>2 DEF TasksTypeOK
  <2>5. UNCHANGED <<running, stage, state, abort>>
    BY <2>1 DEF vars
  <2> QED BY <2>1, <2>3, <2>4, <2>5, QuietStep
<1>2. CASE RunJob(w) \/ AskForProxy(w) \/ WorkerOther(w)
  <2>1. /\ UNCHANGED <<phase, newFiles, waiting, fail, cancelled, aborting, temp, placed, result, late>>
        /\ opened' \subseteq opened
    BY <1>2 DEF RunJob, AskForProxy, WorkerOther, books, files
  <2>2. WorkerStep(w)
    BY <1>2 DEF RunJob, AskForProxy, WorkerOther, WorkerStep
  <2>3. running' = running
    BY <2>2 DEF WorkerStep, Take, Start, Run, Ask, Check, Post
  <2>4. /\ EventsInv' /\ Announced
        /\ \A k \in Jobs : /\ stage[k] = "deleted" => state'[k] = state[k]
                           /\ stage'[k] = "deleted" <=> stage[k] = "deleted"
                           /\ stage[k] # "new" => stage'[k] # "new"
                           /\ abort[k] => abort'[k]
    BY <2>2, <2>3, QuietPool
  <2>5. TasksTypeOK'
    BY <2>1 DEF TasksTypeOK
  <2> QED BY <2>1, <2>3, <2>4, <2>5, QuietStep
<1> QED BY <1>1, <1>2

-----------------------------------------------------------------------------
(* The tasks are committed, or rolled back *)

\* When a task's turn comes, all its jobs are over, and their files are those it
\* was told of.
LEMMA BooksAreComplete ==
  ASSUME TasksInv, phase = "commit", NEW t \in Tasks, NEW j \in JobsOf(t)
  PROVE  /\ j \in Jobs /\ TaskOf[j] = t /\ stage[j] = "deleted" /\ running = {}
         /\ state[j] = "Success" \/ j \in temp => j \in newFiles[t]
         /\ t \notin fail => state[j] = "Success"
<1> USE DEF TasksInv
<1>1. j \in Jobs /\ TaskOf[j] = t /\ running = {}
  BY DEF JobsOf, PhaseTold
<1>2. stage[j] = "deleted"
  BY <1>1 DEF PhaseTold, EventsInv, PoolInv, RunningTold
<1>3. <<j, "start">> \notin Pending
  BY <1>1, <1>2, IdleHasNoStart
<1> QED BY <1>1, <1>2, <1>3 DEF Heard, FailTold

\* The end of a task: it removes its files, unless it was rolled back before.
LEMMA FinishedKeeps ==
  ASSUME TasksInv, NEW t \in Tasks, NEW r \in {"installed", "broken", "failed"}, Finished(t, r),
         temp' = temp \ newFiles[t] \/ (t \in fail /\ temp' = temp),
         placed \subseteq placed',
         placed' # placed => t \notin fail /\ placed' \subseteq placed \union newFiles[t],
         r = "installed" => newFiles[t] \subseteq placed' /\ t \notin fail
  PROVE  TasksInv'
<1> USE DEF TasksInv
<1>1. /\ phase = "commit" /\ result[t] = "pending" /\ result' = [result EXCEPT ![t] = r]
      /\ phase' = IF \E u \in Tasks \ {t} : result[u] = "pending" THEN phase ELSE "over"
      /\ UNCHANGED <<vars, newFiles, waiting, fail, cancelled, aborting, opened, late>>
  BY DEF Finished, poolVars, books
<1>2. EventsInv' /\ Announced
  BY <1>1, PoolStays
<1>3. UNCHANGED <<stage, state, abort, running>>
  BY <1>1 DEF vars
<1>4. /\ result'[t] = r /\ \A u \in Tasks \ {t} : result'[u] = result[u]
      /\ newFiles[t] \subseteq JobsOf(t) /\ newFiles[t] \subseteq Jobs /\ temp' \subseteq temp
  BY <1>1 DEF TasksTypeOK, BooksTold, JobsOf
<1>5. TasksTypeOK'
  BY <1>1, <1>4 DEF TasksTypeOK
<1>6. BooksTold'
  BY <1>1, <1>3 DEF BooksTold, JobsOf
<1>7. PhaseTold'
  BY <1>1, <1>3, <1>4 DEF PhaseTold
<1>8. FailTold'
  BY <1>1, <1>3 DEF FailTold
<1>9. Heard'
  BY <1>1, <1>2, <1>4 DEF Heard, Announced, Ran
<1>10. PlacedTold'
  <2>1. ASSUME NEW j \in placed', NEW k \in JobsOf(TaskOf[j])
        PROVE  stage[k] = "deleted" /\ state[k] = "Success"
    <3>1. CASE j \in placed
      BY <2>1, <3>1 DEF PlacedTold
    <3>2. CASE j \notin placed
      <4>1. j \in newFiles[t] /\ t \notin fail
        BY <2>1, <3>2
      <4>2. k \in JobsOf(t)
        BY <1>4, <2>1, <4>1 DEF JobsOf
      <4> QED BY <1>1, <4>1, <4>2, BooksAreComplete
    <3> QED BY <3>1, <3>2
  <2>2. ASSUME NEW u \in Tasks, result'[u] = "installed" PROVE JobsOf(u) \subseteq placed'
    <3>1. CASE u = t
      BY <1>1, <1>4, <2>2, <3>1, BooksAreComplete
    <3>2. CASE u # t
      BY <1>4, <2>2, <3>2 DEF PlacedTold
    <3> QED BY <3>1, <3>2
  <2> QED BY <1>3, <2>1, <2>2 DEF PlacedTold, JobsOf
<1>11. TempTold'
  <2>1. \A j \in temp' \ late' : stage'[j] = "deleted" => state'[j] = "Success"
    BY <1>1, <1>3, <1>4 DEF TempTold
  <2>2. ASSUME NEW j \in temp' \ late', result'[TaskOf[j]] # "pending"
        PROVE  TaskOf[j] \in fail
    <3>1. j \in Jobs /\ j \in temp \ late /\ TaskOf[j] \in Tasks
      BY <1>1, <1>4, <2>2, InstallJobsAssumption DEF TasksTypeOK, InstallJobsAssumption
    <3>2. CASE TaskOf[j] = t
      <4>1. j \in JobsOf(t)
        BY <3>1, <3>2 DEF JobsOf
      <4>2. j \in newFiles[t]
        BY <1>1, <3>1, <4>1, BooksAreComplete
      <4> QED BY <2>2, <3>2, <4>2
    <3>3. CASE TaskOf[j] # t
      BY <1>4, <2>2, <3>1, <3>3 DEF TempTold
    <3> QED BY <3>2, <3>3
  <2> QED BY <1>1, <2>1, <2>2 DEF TempTold
<1> QED BY <1>2, <1>5, <1>6, <1>7, <1>8, <1>9, <1>10, <1>11

\* A task puts its files in place, or fails to, or rolls back.
LEMMA CommitKeeps ==
  ASSUME TasksInv, NEW t \in Tasks, CommitTask(t) \/ CommitFails(t) \/ RollbackTask(t)
  PROVE  TasksInv'
<1>1. CASE CommitTask(t)
  BY <1>1, FinishedKeeps DEF CommitTask
<1>2. CASE CommitFails(t)
  <2>1. PICK done : done \subseteq newFiles[t] /\ placed' = placed \union done
    BY <1>2 DEF CommitFails
  <2>2. t \notin fail /\ temp' = temp \ newFiles[t] /\ Finished(t, "broken")
    BY <1>2 DEF CommitFails
  <2> QED BY <2>1, <2>2, FinishedKeeps
<1>3. CASE RollbackTask(t)
  BY <1>3, FinishedKeeps DEF RollbackTask
<1> QED BY <1>1, <1>2, <1>3

\* Every step keeps the books.
LEMMA TasksStep == TasksInv /\ [TasksNext]_allVars => TasksInv'
<1> SUFFICES ASSUME TasksInv, [TasksNext]_allVars PROVE TasksInv'
  OBVIOUS
<1>1. ASSUME NEW j \in Jobs, StartJob(j) \/ OnStart(j) \/ OnFinish(j) PROVE TasksInv'
  BY <1>1, StartJobKeeps, OnStartKeeps, OnFinishKeeps
<1>2. CASE Started \/ AbortSibling \/ OnOther \/ Cancel
  BY <1>2, StartedKeeps, AbortSiblingKeeps, OnOtherKeeps
<1>3. ASSUME NEW w \in Workers, Open(w) \/ RunJob(w) \/ AskForProxy(w) \/ WorkerOther(w)
      PROVE  TasksInv'
  BY <1>3, WorkersKeep
<1>4. ASSUME NEW t \in Tasks, CommitTask(t) \/ CommitFails(t) \/ RollbackTask(t) PROVE TasksInv'
  BY <1>4, CommitKeeps
<1>5. CASE UNCHANGED allVars
  <2>1. /\ UNCHANGED vars
        /\ UNCHANGED <<phase, newFiles, waiting, fail, cancelled, aborting, temp, opened, placed,
                       result, late>>
    BY <1>5 DEF allVars, poolVars, books, files
  <2>2. EventsInv' /\ Announced /\ UNCHANGED <<stage, state, abort, running>>
    BY <2>1, PoolStays DEF TasksInv, vars
  <2>3. TasksTypeOK'
    BY <2>1 DEF TasksInv, TasksTypeOK
  <2> QED BY <2>1, <2>2, <2>3, QuietStep
<1> QED BY <1>1, <1>2, <1>3, <1>4, <1>5 DEF TasksNext

-----------------------------------------------------------------------------
(* The theorems *)

\* The invariant holds in every state that the tasks of a queue can reach.
THEOREM TasksAreSound == TasksSpec => []TasksInv
<1> QED BY TasksInitHolds, TasksStep, PTL DEF TasksSpec

\* rollback() calls abort() on live jobs only (install.cpp:86-93, 132-134).
THEOREM NoJobDangles == TasksSpec => []NoDanglingJob
<1>1. TasksInv => NoDanglingJob
  <2> SUFFICES ASSUME TasksInv PROVE NoDanglingJob
    OBVIOUS
  <2>1. \A t \in Tasks : waiting[t] \subseteq running
    BY DEF TasksInv, BooksTold
  <2>2. aborting \subseteq running
    BY DEF TasksInv, BooksTold
  <2> QED BY <2>1, <2>2 DEF NoDanglingJob
<1> QED BY TasksAreSound, <1>1, PTL

\* After a failure every job of the task that has not ended was told to stop
\* (install.cpp:89-90, 133-134).
THEOREM SiblingsStop == TasksSpec => []FailureStopsSiblings
<1>1. TasksInv => FailureStopsSiblings
  BY DEF TasksInv, FailTold, FailureStopsSiblings
<1> QED BY TasksAreSound, <1>1, PTL

\* Files are put in place for whole packages only, and all of them: the start
\* events of all jobs were handled when the pool is idle (install.cpp:83-113).
THEOREM PackagesAreWhole == TasksSpec => []OnlyWholePackages
<1>1. TasksInv => OnlyWholePackages
  BY DEF TasksInv, PlacedTold, OnlyWholePackages
<1> QED BY TasksAreSound, <1>1, PTL

\* A job that failed or was aborted leaves no temporary file (install.cpp:85-91,
\* 128-137), unless its start event was handled after its end.
THEOREM FailuresCleanUp == TasksSpec => []FailedJobsLeaveNoFile
<1>1. TasksInv => FailedJobsLeaveNoFile
  <2> SUFFICES ASSUME TasksInv, phase = "over", NEW j \in temp \ late
               PROVE  state[j] = "Success" /\ TaskOf[j] \in fail
    BY DEF FailedJobsLeaveNoFile
  <2>1. j \in Jobs /\ TaskOf[j] \in Tasks
    BY InstallJobsAssumption DEF TasksInv, TasksTypeOK, InstallJobsAssumption
  <2>2. stage[j] = "deleted" /\ result[TaskOf[j]] # "pending"
    BY <2>1 DEF TasksInv, PhaseTold, EventsInv, PoolInv, RunningTold
  <2> QED BY <2>2 DEF TasksInv, TempTold
<1> QED BY TasksAreSound, <1>1, PTL
=============================================================================
