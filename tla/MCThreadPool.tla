---------------------------- MODULE MCThreadPool ----------------------------
(* Three jobs on two workers: a job can wait behind another one, two can end *)
(* in one batch, and a third can be pushed meanwhile. Serial jobs come       *)
(* second and third in memory, so that one of them is pushed when the other  *)
(* is at any stage.                                                          *)
EXTENDS ThreadPool

CONSTANTS a, b, c

MCAddressOf == [j \in Jobs |-> CASE j = a -> 1 [] j = b -> 2 [] j = c -> 3]
=============================================================================
