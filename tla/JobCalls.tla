------------------------------- MODULE JobCalls -------------------------------
(***************************************************************************)
(* The calls a host application makes on sets of ranks, as data, and the    *)
(* jobs a call gives to each rank (dpu_thread_job.h, and the functions of   *)
(* the API that use its macros).                                            *)
(*                                                                         *)
(* A program gives each thread of the application the sequence of its      *)
(* calls.  A call is a record:                                             *)
(*   op        "copy", "launch", "sync", "callback" or "free"              *)
(*   ranks     the set of ranks, in the order of dpu_set.list.ranks        *)
(*   sync      synchronous: the call waits for its jobs                     *)
(*   fails     the ranks on which the job may end with an error             *)
(*   single, nonblocking, body                                              *)
(*             of a callback: its flags, and the calls the function makes   *)
(* In a body, ranks = <<>> stands for the set the function is called with.  *)
(***************************************************************************)
EXTENDS Integers, Sequences, FiniteSets

CONSTANTS Ranks, Queues, Workers, Clients,
          QueueOf,     \* rank -> queue: the NUMA node of the rank
          ServesOf,    \* worker -> queue it takes ranks from
          NrJobs,      \* slots of each rank (api.nr_jobs)
          Programs,    \* the programs to consider
          None         \* NULL

Threads == Clients \cup Workers

(***************************************************************************)
(* A call is named by its thread and its place in the program, a call in a  *)
(* callback also by its place in the body and the first rank of the set the *)
(* function was called with.                                                *)
(***************************************************************************)
TopIds(p) == UNION {{<<c, n>> : n \in DOMAIN p[c]} : c \in DOMAIN p}

UsesMaster(call) == call.op = "callback" /\ call.single /\ Len(call.ranks) # 1

(* The first ranks of the sets with which the function is called. *)
CalledWith(call) ==
  IF UsesMaster(call) THEN {call.ranks[1]} ELSE {call.ranks[i] : i \in DOMAIN call.ranks}

BodyIds(p) ==
  UNION {LET call == p[id[1]][id[2]]
         IN  {<<id[1], id[2], m, r>> : m \in DOMAIN call.body, r \in CalledWith(call)}
         : id \in {i \in TopIds(p) : p[i[1]][i[2]].op = "callback"}}

Ids(p) == TopIds(p) \cup BodyIds(p)

(* The call a name stands for, the ranks filled in. *)
CallOf(p, id) ==
  LET outer == p[id[1]][id[2]]
  IN  IF Len(id) = 2 THEN outer
      ELSE LET inner == outer.body[id[3]]
           IN  IF inner.ranks # <<>> THEN inner
               ELSE [inner EXCEPT !.ranks = IF UsesMaster(outer) THEN outer.ranks
                                            ELSE <<id[4]>>]

(* The calls the function of callback id makes when a worker of rank r runs *)
(* it.                                                                      *)
BodyOf(p, id, r) ==
  LET call == CallOf(p, id)
      with == IF UsesMaster(call) THEN call.ranks[1] ELSE r
  IN  [m \in DOMAIN call.body |-> <<id[1], id[2], m, with>>]

(* Wrong: dpu_sync asks for a SYNC job besides its own. *)
JobTypesTwoSyncs(call) ==
  IF call.sync \/ call.op = "sync" THEN <<call.op, "sync">> ELSE <<call.op>>

(* The jobs a call gives to each rank: a synchronous one adds a SYNC job.   *)
JobTypes(call) == IF call.sync /\ call.op # "sync" THEN <<call.op, "sync">> ELSE <<call.op>>

JobsOf(p, id) ==
  LET types == JobTypes(CallOf(p, id))
  IN  [n \in DOMAIN types |-> [type |-> types[n], id |-> id]]

BatchesIn(p) == {JobsOf(p, id) : id \in {i \in Ids(p) : CallOf(p, i).op # "free"}}

(* Does the call wait for its jobs?  dpu_sync always does. *)
Waits(call) == call.sync \/ call.op = "sync"

(* A call is made on a set of ranks, none of them twice.  The functions of   *)
(* callbacks free no ranks, and callbacks do not make callbacks that make    *)
(* calls.                                                                    *)
CallOK(call) ==
  /\ call.op \in {"copy", "launch", "sync", "callback", "free"}
  /\ call.ranks \in Seq(Ranks) /\ call.ranks # <<>>
  /\ \A i, k \in DOMAIN call.ranks : call.ranks[i] = call.ranks[k] => i = k

ProgramOK(p) ==
  /\ DOMAIN p = Clients
  /\ \A c \in Clients : Len(p[c]) \in Nat /\ DOMAIN p[c] = 1..Len(p[c])
  /\ \A id \in Ids(p) :
       /\ CallOK(CallOf(p, id))
       /\ CallOf(p, id).op = "callback" =>
            LET body == CallOf(p, id).body
            IN  /\ Len(body) \in Nat /\ DOMAIN body = 1..Len(body)
                /\ Len(id) # 2 => body = <<>>
       /\ CallOf(p, id).op = "free" => Len(id) = 2
       /\ None \notin {[type |-> type, id |-> id] :
                         type \in {"copy", "launch", "sync", "callback"}}

(* Every queue a rank uses is served: dpu_thread_job_create starts workers   *)
(* for the queue of each rank.  There is room for a synchronous call.  The   *)
(* job threads are not threads of the application.                           *)
ASSUME JobCallsAssumption ==
  /\ QueueOf \in [Ranks -> Queues]
  /\ ServesOf \in [Workers -> Queues]
  /\ \A r \in Ranks : \E w \in Workers : ServesOf[w] = QueueOf[r]
  /\ NrJobs \in Nat \ {0, 1}
  /\ None \notin Ranks \cup Queues \cup Workers \cup Clients
  /\ Clients \cap Workers = {}
  /\ \A p \in Programs : ProgramOK(p)

===============================================================================
