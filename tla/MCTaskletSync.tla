---------------------------- MODULE MCTaskletSync ----------------------------
(* Instances of TaskletSync: four tasklets.                                  *)
EXTENDS TaskletSync, TLC

CONSTANTS all, left, right, pool, items, guard   \* the objects

MCSize    == all :> 4 @@ left :> 2 @@ right :> 2
MCInitial == pool :> 1 @@ items :> 0

Wait(b)     == [op |-> "barrier_wait", on |-> b]
Take(s)     == [op |-> "sem_take", on |-> s]
Give(s)     == [op |-> "sem_give", on |-> s]
Notify(t)   == [op |-> "handshake_notify", on |-> t]
WaitFor(t)  == [op |-> "handshake_wait_for", on |-> t]
Lock(m)     == [op |-> "mutex_lock", on |-> m]
Try(m)      == [op |-> "mutex_trylock", on |-> m]
Unlock(m)   == [op |-> "mutex_unlock", on |-> m]

Program(p0, p1, p2, p3) == (0 :> p0) @@ (1 :> p1) @@ (2 :> p2) @@ (3 :> p3)

(* Barriers used again at once and in turn, as the kernels use theirs; a     *)
(* semaphore that starts at zero and one used as a lock; handshakes in both  *)
(* orders; two tasklets that wait for the same one, of which one may be      *)
(* refused and one may wait for ever; a mutex taken and tried; and queues of several objects *)
(* in the table at once.                                                     *)
MCPrograms ==
  { Program(<<Wait(all), Wait(left), Wait(left)>>, <<Wait(all), Wait(left), Wait(left)>>,
            <<Wait(all), Wait(right)>>, <<Wait(all), Wait(right)>>),
    Program(<<Take(pool), Give(pool)>>, <<Take(pool), Give(pool)>>,
            <<Take(pool), Give(pool)>>, <<Give(items), Take(items)>>),
    Program(<<Take(items), Wait(left)>>, <<Take(items), Wait(left)>>,
            <<Give(items), Wait(right)>>, <<Give(items), Wait(right)>>),
    Program(<<Notify(0), WaitFor(1)>>, <<WaitFor(0), Notify(1)>>,
            <<Notify(2), Take(items)>>, <<WaitFor(2), Give(items)>>),
    Program(<<Notify(0), Notify(0)>>, <<WaitFor(0)>>, <<WaitFor(0)>>, <<WaitFor(1)>>),
    Program(<<Lock(guard), Unlock(guard)>>, <<Lock(guard), Give(items), Unlock(guard)>>,
            <<Take(items), Lock(guard), Unlock(guard)>>,
            <<Try(guard), Unlock(guard), Try(guard), Unlock(guard)>>) }
=============================================================================
