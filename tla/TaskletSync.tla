----------------------------- MODULE TaskletSync -----------------------------
(***************************************************************************)
(* barrier_wait, sem_take, sem_give, handshake_notify, handshake_wait_for   *)
(* and the mutexes of the DPU runtime, down to the atomic bits, the wait    *)
(* queues and the instructions acquire, release, stop and resume.           *)
(*                                                                          *)
(* All barriers and semaphores keep their queues in one table with an entry *)
(* for each tasklet: the next one of the queue it is in.  wait_queue is the *)
(* last one, and the next of the last is the first.  Each object has a lock *)
(* of its own, so no lock protects the table as a whole.                    *)
(***************************************************************************)
EXTENDS Integers, Sequences, FiniteSets

CONSTANTS NumTasklets,   \* NR_TASKLETS
          Barriers, Sems, Mutexes,
          Programs,      \* set of functions from Tasklets to sequences of calls
          Size,          \* Size[b]: BARRIER_INIT(b, Size[b])
          Initial        \* Initial[s]: SEMAPHORE_INIT(s, Initial[s])

Tasklets == 0..(NumTasklets - 1)
Empty    == 255          \* __EMPTY_WAIT_QUEUE
Queued   == Barriers \cup Sems
Objects  == Queued \cup Mutexes \cup Tasklets   \* a handshake has its tasklet's name
Free     == -1

Calls ==
  [op : {"barrier_wait"}, on : Barriers]
    \cup [op : {"sem_take", "sem_give"}, on : Sems]
    \cup [op : {"handshake_notify", "handshake_wait_for"}, on : Tasklets]
    \cup [op : {"mutex_lock", "mutex_trylock", "mutex_unlock"}, on : Mutexes]

(* A barrier is for as many tasklets as it is initialised with, and a       *)
(* tasklet notifies in its own name and does not wait for itself.  Whoever  *)
(* tries a mutex gives it back next, or skips that call if it has not got   *)
(* the mutex.  (Counts are one byte; the programs considered keep a         *)
(* semaphore below 128.)  Different objects have different names.           *)
ProgramOK(p) ==
  /\ p \in [Tasklets -> Seq(Calls)]
  /\ \A b \in Barriers :
       LET users == {t \in Tasklets : \E k \in 1..Len(p[t]) : p[t][k].on = b}
       IN  users = {} \/ Cardinality(users) = Size[b]
  /\ \A t \in Tasklets : \A k \in 1..Len(p[t]) :
       /\ p[t][k].op = "handshake_notify" => p[t][k].on = t
       /\ p[t][k].op = "handshake_wait_for" => p[t][k].on # t
       /\ p[t][k].op = "mutex_trylock" =>
            /\ k < Len(p[t])
            /\ p[t][k + 1] = [op |-> "mutex_unlock", on |-> p[t][k].on]

ASSUME SyncAssumption ==
  /\ NumTasklets \in 1..24
  /\ Mutexes \cap Queued = {} /\ Barriers \cap Sems = {}
  /\ Tasklets \cap (Queued \cup Mutexes) = {}
  /\ Size \in [Barriers -> 1..24]
  /\ Initial \in [Sems -> 0..127]
  /\ \A p \in Programs : ProgramOK(p)

(* A mutex is given back by whoever has got it: mutex_unlock stores the     *)
(* bit without looking whose it is.                                         *)
Gets(seq, m)  == {k \in DOMAIN seq : seq[k].op \in {"mutex_lock", "mutex_trylock"} /\ seq[k].on = m}
Gives(seq, m) == {k \in DOMAIN seq : seq[k] = [op |-> "mutex_unlock", on |-> m]}

ASSUME MutexAssumption ==
  \A p \in Programs : \A t \in Tasklets : \A m \in Mutexes : \A k \in Gives(p[t], m) :
    Cardinality(Gets(p[t], m) \cap 1..(k - 1)) > Cardinality(Gives(p[t], m) \cap 1..(k - 1))

VARIABLES
  prog,        \* prog[t]: the calls tasklet t makes
  done,        \* done[t]: how many of them have returned
  pc,          \* pc[t]: where in the library tasklet t is
  lock,        \* lock[o]: the tasklet that has the atomic bit of o, or Free
  count,       \* count[o]: of a barrier or semaphore
  wait_queue,  \* wait_queue[o]: the last tasklet of its queue, or Empty
  table,       \* __WAIT_QUEUE_TABLE
  shake,       \* __handshake_array
  walk,        \* walk[t]: `first' in the frame of t, which it resumes next
  refused      \* refused[n]: EALREADY returned to waits for n

vars == << prog, done, pc, lock, count, wait_queue, table, shake, walk, refused >>

Init ==
  /\ prog \in Programs
  /\ done = [t \in Tasklets |-> 0]
  /\ pc = [t \in Tasklets |-> "caller"]
  /\ lock = [o \in Objects |-> Free]
  /\ count = [o \in Queued |-> IF o \in Barriers THEN Size[o] ELSE Initial[o]]
  /\ wait_queue = [o \in Queued |-> Empty]
  /\ table = [t \in Tasklets |-> Empty]
  /\ shake = [t \in Tasklets |-> Empty]
  /\ walk = [t \in Tasklets |-> t]
  /\ refused = [t \in Tasklets |-> 0]

Op(t) == prog[t][done[t] + 1].op
On(t) == prog[t][done[t] + 1].on

In(t, place, op) == pc[t] = place /\ Op(t) = op

-----------------------------------------------------------------------------
Call(t) ==
  /\ pc[t] = "caller"
  /\ done[t] < Len(prog[t])
  /\ pc' = [pc EXCEPT ![t] = IF Op(t) = "mutex_unlock" THEN "release" ELSE "acquire"]
  /\ UNCHANGED << prog, done, lock, count, wait_queue, table, shake, walk, refused >>

(* __acquire(lock, "0"): at this instruction until the bit is free.         *)
BitSeenFree(o) == TRUE
BitFree(o)     == lock[o] = Free

Acquire(t) ==
  /\ pc[t] = "acquire"
  /\ Op(t) \notin {"mutex_lock", "mutex_trylock"}
  /\ BitFree(On(t))
  /\ lock' = [lock EXCEPT ![On(t)] = t]
  /\ pc' = [pc EXCEPT ![t] = "section"]
  /\ UNCHANGED << prog, done, count, wait_queue, table, shake, walk, refused >>

(* A mutex is no more than a bit, which the caller keeps ...                *)
Locked(t) ==
  /\ pc[t] = "acquire"
  /\ Op(t) \in {"mutex_lock", "mutex_trylock"}
  /\ BitFree(On(t))
  /\ lock' = [lock EXCEPT ![On(t)] = t]
  /\ pc' = [pc EXCEPT ![t] = "caller"]
  /\ done' = [done EXCEPT ![t] = @ + 1]
  /\ UNCHANGED << prog, count, wait_queue, table, shake, walk, refused >>

(* ... if the attempt has not failed.                                       *)
NotLocked(t) ==
  /\ In(t, "acquire", "mutex_trylock")
  /\ ~BitFree(On(t))
  /\ pc' = [pc EXCEPT ![t] = "caller"]
  /\ done' = [done EXCEPT ![t] = @ + 2]
  /\ UNCHANGED << prog, lock, count, wait_queue, table, shake, walk, refused >>

(* __release(lock, "0", __AT_NEXT_INSTRUCTION), and the call returns ...    *)
Release(t) ==
  /\ pc[t] = "release"
  /\ lock' = [lock EXCEPT ![On(t)] = Free]
  /\ pc' = [pc EXCEPT ![t] = "caller"]
  /\ done' = [done EXCEPT ![t] = @ + 1]
  /\ UNCHANGED << prog, count, wait_queue, table, shake, walk, refused >>

(* ... or the tasklet stops, which is another instruction.                  *)
Suspend(t) ==
  /\ pc[t] = "suspend"
  /\ lock' = [lock EXCEPT ![On(t)] = Free]
  /\ pc' = [pc EXCEPT ![t] = "stop"]
  /\ UNCHANGED << prog, done, count, wait_queue, table, shake, walk, refused >>

Stop(t) ==
  /\ pc[t] = "stop"
  /\ pc' = [pc EXCEPT ![t] = "stopped"]
  /\ UNCHANGED << prog, done, lock, count, wait_queue, table, shake, walk, refused >>

-----------------------------------------------------------------------------
(* The table after tasklet t has entered a queue behind `last'.             *)
EnqueuedAlone(last, t) == [table EXCEPT ![t] = t]
Enqueued(last, t) ==
  IF last = Empty THEN [table EXCEPT ![t] = t]
  ELSE [table EXCEPT ![t] = table[last], ![last] = t]

Enter(t) ==
  /\ table' = Enqueued(wait_queue[On(t)], t)
  /\ wait_queue' = [wait_queue EXCEPT ![On(t)] = t]
  /\ count' = [count EXCEPT ![On(t)] = @ - 1]
  /\ pc' = [pc EXCEPT ![t] = "suspend"]
  /\ UNCHANGED << prog, done, lock, shake, walk, refused >>

LastOneSoon(b)   == count[b] = 2
LastOneAtZero(b) == count[b] = 0
LastOne(b)       == count[b] = 1

BarrierEnter(t) ==
  /\ In(t, "section", "barrier_wait")
  /\ ~LastOne(On(t))
  /\ Enter(t)

(* The last tasklet resumes the others, from the first.                     *)
BarrierOpen(t) ==
  /\ In(t, "section", "barrier_wait")
  /\ LastOne(On(t))
  /\ IF wait_queue[On(t)] = Empty
     THEN pc' = [pc EXCEPT ![t] = "release"] /\ UNCHANGED walk
     ELSE /\ pc' = [pc EXCEPT ![t] = "wake"]
          /\ walk' = [walk EXCEPT ![t] = table[wait_queue[On(t)]]]
  /\ UNCHANGED << prog, done, lock, count, wait_queue, table, shake, refused >>

SemEnter(t) ==
  /\ In(t, "section", "sem_take")
  /\ count[On(t)] - 1 < 0
  /\ Enter(t)

SemTake(t) ==
  /\ In(t, "section", "sem_take")
  /\ count[On(t)] - 1 >= 0
  /\ count' = [count EXCEPT ![On(t)] = @ - 1]
  /\ pc' = [pc EXCEPT ![t] = "release"]
  /\ UNCHANGED << prog, done, lock, wait_queue, table, shake, walk, refused >>

(* The first of the queue leaves it and is resumed.                         *)
SemGive(t) ==
  LET last  == wait_queue[On(t)]
      first == table[last]
  IN  /\ In(t, "section", "sem_give")
      /\ count' = [count EXCEPT ![On(t)] = @ + 1]
      /\ IF last = Empty
         THEN /\ pc' = [pc EXCEPT ![t] = "release"]
              /\ UNCHANGED << wait_queue, table, walk >>
         ELSE /\ pc' = [pc EXCEPT ![t] = "wake"]
              /\ walk' = [walk EXCEPT ![t] = first]
              /\ IF first = last
                 THEN /\ wait_queue' = [wait_queue EXCEPT ![On(t)] = Empty]
                      /\ UNCHANGED table
                 ELSE /\ table' = [table EXCEPT ![last] = table[first]]
                      /\ UNCHANGED wait_queue
      /\ UNCHANGED << prog, done, lock, shake, refused >>

-----------------------------------------------------------------------------
(* Whoever of the two comes first leaves its number in the cell of the      *)
(* notifier and stops; the other one resumes it.                            *)
HandshakeFirst(t) ==
  /\ In(t, "section", "handshake_notify") \/ In(t, "section", "handshake_wait_for")
  /\ shake[On(t)] = Empty
  /\ shake' = [shake EXCEPT ![On(t)] = t]
  /\ pc' = [pc EXCEPT ![t] = "suspend"]
  /\ UNCHANGED << prog, done, lock, count, wait_queue, table, walk, refused >>

HandshakeSecond(t) ==
  /\ \/ In(t, "section", "handshake_notify") /\ shake[t] # Empty
     \/ In(t, "section", "handshake_wait_for") /\ shake[On(t)] = On(t)
  /\ walk' = [walk EXCEPT ![t] = shake[On(t)]]
  /\ pc' = [pc EXCEPT ![t] = "wake"]
  /\ UNCHANGED << prog, done, lock, count, wait_queue, table, shake, refused >>

(* EALREADY *)
HandshakeRefused(t) ==
  /\ In(t, "section", "handshake_wait_for")
  /\ shake[On(t)] \notin {Empty, On(t)}
  /\ pc' = [pc EXCEPT ![t] = "refuse"]
  /\ UNCHANGED << prog, done, lock, count, wait_queue, table, shake, walk, refused >>

Refuse(t) ==
  /\ pc[t] = "refuse"
  /\ lock' = [lock EXCEPT ![On(t)] = Free]
  /\ pc' = [pc EXCEPT ![t] = "caller"]
  /\ done' = [done EXCEPT ![t] = @ + 1]
  /\ refused' = [refused EXCEPT ![On(t)] = @ + 1]
  /\ UNCHANGED << prog, count, wait_queue, table, shake, walk >>

-----------------------------------------------------------------------------
(* __resume(first, "0"): at this instruction until `first' has stopped.     *)
Resume(t) ==
  /\ pc[t] = "wake"
  /\ pc[walk[t]] = "stopped"
  /\ done' = [done EXCEPT ![walk[t]] = @ + 1]

(* barrier_wait reads the entry of `first' after it has resumed it.  That   *)
(* is the next instruction but one, while `first' has to return and be in   *)
(* the next critical section before it writes the entry: the tasklets of a  *)
(* DPU issue instructions in turn, so the two are one step.                 *)
WakeNext(t) ==
  /\ Resume(t)
  /\ Op(t) = "barrier_wait"
  /\ walk[t] # wait_queue[On(t)]
  /\ walk' = [walk EXCEPT ![t] = table[walk[t]]]
  /\ pc' = [pc EXCEPT ![walk[t]] = "caller"]
  /\ UNCHANGED << prog, lock, count, wait_queue, table, shake, refused >>

NotReopened(b) == count[b]
Reopened(b)    == Size[b]

WakeLast(t) ==
  /\ Resume(t)
  /\ Op(t) = "barrier_wait"
  /\ walk[t] = wait_queue[On(t)]
  /\ wait_queue' = [wait_queue EXCEPT ![On(t)] = Empty]
  /\ count' = [count EXCEPT ![On(t)] = Reopened(On(t))]
  /\ pc' = [pc EXCEPT ![walk[t]] = "caller", ![t] = "release"]
  /\ UNCHANGED << prog, lock, table, shake, walk, refused >>

WakeTaker(t) ==
  /\ Resume(t)
  /\ Op(t) = "sem_give"
  /\ pc' = [pc EXCEPT ![walk[t]] = "caller", ![t] = "release"]
  /\ UNCHANGED << prog, lock, count, wait_queue, table, shake, walk, refused >>

WakePartner(t) ==
  /\ Resume(t)
  /\ Op(t) \in {"handshake_notify", "handshake_wait_for"}
  /\ shake' = [shake EXCEPT ![On(t)] = Empty]
  /\ pc' = [pc EXCEPT ![walk[t]] = "caller", ![t] = "release"]
  /\ UNCHANGED << prog, lock, count, wait_queue, table, walk, refused >>

Step(t) ==
  \/ Call(t) \/ Acquire(t) \/ Locked(t) \/ NotLocked(t)
  \/ Release(t) \/ Suspend(t) \/ Stop(t)
  \/ BarrierEnter(t) \/ BarrierOpen(t)
  \/ SemEnter(t) \/ SemTake(t) \/ SemGive(t)
  \/ HandshakeFirst(t) \/ HandshakeSecond(t) \/ HandshakeRefused(t) \/ Refuse(t)
  \/ WakeNext(t) \/ WakeLast(t) \/ WakeTaker(t) \/ WakePartner(t)

(* The programs are at their ends, or wait for calls nobody will make.      *)
Halted ==
  /\ \A t \in Tasklets : pc[t] = "stopped" \/ (pc[t] = "caller" /\ done[t] = Len(prog[t]))
  /\ UNCHANGED vars

Next == Halted \/ \E t \in Tasklets : Step(t)

(* The tasklets that run issue their instructions in turn.                  *)
Spec == Init /\ [][Next]_vars /\ \A t \in Tasklets : WF_vars(Step(t))
-----------------------------------------------------------------------------
Places ==
  {"caller", "acquire", "section", "release", "suspend", "stop", "stopped", "wake", "refuse"}

TypeOK ==
  /\ prog \in Programs
  /\ done \in [Tasklets -> Nat]
  /\ \A t \in Tasklets : done[t] \in 0..Len(prog[t])
  /\ pc \in [Tasklets -> Places]
  /\ lock \in [Objects -> Tasklets \cup {Free}]
  /\ count \in [Queued -> Int]
  /\ \A b \in Barriers : count[b] \in 1..Size[b]
  /\ wait_queue \in [Queued -> Tasklets \cup {Empty}]
  /\ table \in [Tasklets -> Tasklets \cup {Empty}]
  /\ shake \in [Tasklets -> Tasklets \cup {Empty}]
  /\ walk \in [Tasklets -> Tasklets]
  /\ refused \in [Tasklets -> Nat]

(* A critical section of a barrier, a semaphore or a handshake has at most  *)
(* one tasklet in it, whether it leaves by returning or by stopping and     *)
(* however long it waits in it for another to stop.                         *)
Inside(t) ==
  /\ pc[t] \in {"section", "release", "suspend", "wake", "refuse"}
  /\ On(t) \notin Mutexes

InsideAlone ==
  \A t, u \in Tasklets : t # u /\ Inside(t) /\ Inside(u) => On(t) # On(u)

(* Between two critical sections of a barrier or semaphore, its queue is a  *)
(* cycle through exactly the tasklets that are suspended in it, although    *)
(* all queues share the one table and each has its own lock.                *)
Waiting(o) == {t \in Tasklets : pc[t] \in {"stop", "stopped"} /\ On(t) = o}

Chain(o) ==
  LET hop[k \in 0..NumTasklets] == IF k = 0 THEN wait_queue[o] ELSE table[hop[k - 1]]
  IN  hop

QueuesIntact ==
  \A o \in Queued :
    lock[o] = Free =>
      IF wait_queue[o] = Empty THEN Waiting(o) = {}
      ELSE /\ {Chain(o)[k] : k \in 0..(Cardinality(Waiting(o)) - 1)} = Waiting(o)
           /\ Chain(o)[Cardinality(Waiting(o))] = wait_queue[o]

(* ... and its count agrees with the queue: a barrier waits for as many     *)
(* tasklets as its count says, and a semaphore below zero has as many       *)
(* tasklets suspended.                                                      *)
CountsAgree ==
  /\ \A b \in Barriers : lock[b] = Free => count[b] + Cardinality(Waiting(b)) = Size[b]
  /\ \A s \in Sems : lock[s] = Free =>
       Cardinality(Waiting(s)) = IF count[s] < 0 THEN -count[s] ELSE 0

(* The library keeps what it promises: nobody passes a barrier before its   *)
(* round is complete, a semaphore before there is a unit, and so on; and a  *)
(* tasklet that is suspended when its call may return is resumed, even if   *)
(* the other side came between its release and its stop.                    *)
Promise == INSTANCE TaskletPromise WITH
  begun <- [t \in Tasklets |-> done[t] + (IF pc[t] = "caller" THEN 0 ELSE 1)],
  ended <- done

KeepsPromise == Promise!Spec

(* Of these the half that is about what a call may never do: return early,  *)
(* give up without cause, or return twice.                                  *)
NeverEarly == Promise!Init /\ [][Promise!Next]_(Promise!vars)
=============================================================================
