----------------------------- MODULE MCThreadJob -----------------------------
(***************************************************************************)
(* Instances of ThreadJob for TLC: two ranks on one queue, a worker for     *)
(* each, three slots per rank, one thread of the application.               *)
(***************************************************************************)
EXTENDS ThreadJob, TLC

CONSTANTS r1, r2, w1, w2, c1, q1

MCQueueOf == (r1 :> q1) @@ (r2 :> q1)
MCServesOf == [w \in Workers |-> q1]

Both == <<r1, r2>>

Copy(ranks, sync, fails) == [op |-> "copy", ranks |-> ranks, sync |-> sync, fails |-> fails]
Launch(ranks, sync, fails) == [Copy(ranks, sync, fails) EXCEPT !.op = "launch"]
Sync(ranks) == [Copy(ranks, FALSE, {}) EXCEPT !.op = "sync"]
FreeRanks == [Sync(Both) EXCEPT !.op = "free"]
Callback(ranks, single, nonblocking, fails, body) ==
  [op |-> "callback", ranks |-> ranks, sync |-> FALSE, fails |-> fails,
   single |-> single, nonblocking |-> nonblocking, body |-> body]

(* Transfers and launches that may fail, more jobs than slots, nonblocking  *)
(* callbacks whose function makes calls, a callback for each rank, a        *)
(* callback that is last in the FIFOs of its ranks.                         *)
FifoPrograms ==
  {c1 :> p : p \in
    {<<Copy(Both, FALSE, {r1}), Copy(Both, FALSE, {}), Launch(Both, TRUE, {r2}), Sync(Both),
       FreeRanks>>,
     <<Copy(<<r2>>, FALSE, {}), Callback(Both, TRUE, TRUE, {r1}, <<Copy(<<r1>>, FALSE, {})>>),
       Copy(Both, TRUE, {}), FreeRanks>>,
     <<Copy(<<r2>>, FALSE, {r2}), Callback(Both, TRUE, TRUE, {}, <<>>), Copy(Both, TRUE, {})>>,
     <<Callback(<<r1>>, FALSE, TRUE, {}, <<Launch(<<>>, FALSE, {})>>), Launch(Both, TRUE, {})>>,
     <<[Callback(Both, FALSE, FALSE, {r2}, <<Copy(<<>>, TRUE, {r1})>>) EXCEPT !.sync = TRUE],
       Copy(Both, FALSE, {}), Sync(Both), FreeRanks>>,
     <<Callback(Both, TRUE, FALSE, {}, <<Copy(<<r1>>, TRUE, {})>>),
       Copy(Both, FALSE, {}), Callback(Both, TRUE, FALSE, {}, <<>>), Sync(Both)>>}}

(* Synchronous calls on the rank of a callback that may run meanwhile. *)
RacingPrograms ==
  {c1 :> p : p \in
    {<<Callback(<<r1>>, FALSE, FALSE, {r1}, <<Launch(<<>>, TRUE, {r1})>>),
       Launch(<<r1>>, TRUE, {})>>}}

MCPrograms == FifoPrograms \cup RacingPrograms

(* A callback that is last in the FIFO of a rank. *)
LastPrograms == {c1 :> <<Callback(Both, TRUE, FALSE, {}, <<>>)>>}

(* A transfer that fails, then dpu_sync. *)
FailingPrograms == {c1 :> <<Copy(<<r1>>, FALSE, {r1}), Sync(<<r1>>)>>}

(* Two threads that enqueue transfers at the same time. *)
OverlappingPrograms ==
  {c1 :> <<Callback(<<r2>>, FALSE, TRUE, {}, <<Copy(<<>>, FALSE, {})>>), Copy(Both, FALSE, {})>>}

===============================================================================
