------------------------------ MODULE TaskPool ------------------------------
(***************************************************************************)
(* What the users of ThreadPool rely on.  A job given to the pool ends once *)
(* and its end is then reported once, on the main thread: Report(j) stands  *)
(* for the finish handlers, the last of which takes the job out of the pool *)
(* and tells the user when the pool became idle.  A job that ends after     *)
(* abort() still may succeed: only its last look at the flag counts.        *)
(***************************************************************************)
EXTENDS FiniteSets

CONSTANTS Jobs

VARIABLES stage, \* where a job is: new, running, ended or reported
          result \* how it ended, Idle before that

vars == <<stage, result>>

Init ==
  /\ stage = [j \in Jobs |-> "new"]
  /\ result = [j \in Jobs |-> "Idle"]

Push(j) ==
  /\ stage[j] = "new"
  /\ stage' = [stage EXCEPT ![j] = "running"]
  /\ UNCHANGED result

End(j) ==
  /\ stage[j] = "running"
  /\ stage' = [stage EXCEPT ![j] = "ended"]
  /\ \E r \in {"Success", "Failure", "Aborted"} : result' = [result EXCEPT ![j] = r]

Report(j) ==
  /\ stage[j] = "ended"
  /\ stage' = [stage EXCEPT ![j] = "reported"]
  /\ UNCHANGED result

Next == \E j \in Jobs : Push(j) \/ End(j) \/ Report(j)

\* Every job ends and is reported.
Fairness == \A j \in Jobs : WF_vars(End(j)) /\ WF_vars(Report(j))

Spec == Init /\ [][Next]_vars /\ Fairness
=============================================================================
