-------------------------- MODULE TaskletSyncProofs --------------------------
(***************************************************************************)
(* For every number of tasklets and every set of programs: the state of the *)
(* synchronisation library stays well typed, so that no tasklet is ever     *)
(* resumed, and no entry of the wait queue table ever used, under a number  *)
(* that is none; a critical section has one tasklet in it; and the wait     *)
(* queues of barriers and semaphores stay cycles through the tasklets       *)
(* suspended in them, and the counts agree with them, although all queues   *)
(* share one table that no lock protects as a whole.                        *)
(*                                                                         *)
(* The first part needs only IInv.  The second names each queue: a function *)
(* q from 1..n to the tasklets, q[1] the first and q[n] the last one.       *)
(*                                                                         *)
(* The third part is the safety half of the refinement of TaskletPromise:   *)
(* a call returns in no state in which TaskletPromise keeps it.  It counts  *)
(* calls: those begun and those returned, of each kind on each object, are  *)
(* balanced by what the object holds and by who is inside it or suspended.  *)
(***************************************************************************)
EXTENDS TaskletSync, TLAPS, FiniteSetTheorems, WellFoundedInduction

(* A tasklet inside the library has a call that has not returned.           *)
Pending == \A t \in Tasklets : pc[t] # "caller" => done[t] < Len(prog[t])

(* Whoever is reached from a queue through the table has an entry in it.    *)
TableClosed ==
  /\ \A o \in Queued : wait_queue[o] # Empty => table[wait_queue[o]] # Empty
  /\ \A t \in Tasklets : table[t] # Empty => table[table[t]] # Empty
  /\ \A t \in Tasklets :
       pc[t] = "wake" /\ Op(t) = "barrier_wait" => table[walk[t]] # Empty

SectionsHeld == \A t \in Tasklets : Inside(t) => lock[On(t)] = t

IInv == TypeOK /\ Pending /\ TableClosed /\ SectionsHeld

-----------------------------------------------------------------------------
(* Neither Empty nor Free is a tasklet.                                     *)
LEMMA Numbers == Tasklets \subseteq Int /\ Empty \notin Tasklets /\ Free \notin Tasklets
BY SyncAssumption DEF Tasklets, Empty, Free

LEMMA ProgramTyped == prog \in Programs => \A t \in Tasklets : Len(prog[t]) \in Nat
BY SyncAssumption DEF ProgramOK

(* Counts.                                                                  *)
LEMMA CountedUp ==
  ASSUME NEW S, NEW f \in [S -> Nat], NEW x
  PROVE  [f EXCEPT ![x] = @ + 1] \in [S -> Nat]
<1>1. \A y \in S : [f EXCEPT ![x] = @ + 1][y] = IF y = x THEN f[y] + 1 ELSE f[y]
  OBVIOUS
<1>2. \A y \in S : f[y] \in Nat
  OBVIOUS
<1>3. \A y \in S : [f EXCEPT ![x] = @ + 1][y] \in Nat
  BY <1>1, <1>2
<1>4. QED
  BY <1>3

LEMMA CountedDown ==
  ASSUME NEW n \in 1..24, NEW c \in 1..n, c # 1
  PROVE  c \in Int /\ c - 1 \in 1..n
OBVIOUS

LEMMA WholeRound ==
  ASSUME NEW n \in 1..24
  PROVE  n \in Int /\ n \in 1..n
OBVIOUS

(* What a call that has not returned is made on.                            *)
LEMMA CallTyped ==
  ASSUME TypeOK, NEW t \in Tasklets, done[t] < Len(prog[t])
  PROVE  /\ On(t) \in Objects
         /\ Op(t) = "barrier_wait" => On(t) \in Barriers
         /\ Op(t) \in {"sem_take", "sem_give"} => On(t) \in Sems
         /\ Op(t) \in {"handshake_notify", "handshake_wait_for"} => On(t) \in Tasklets
         /\ Op(t) = "handshake_notify" => On(t) = t
         /\ Op(t) \in {"mutex_lock", "mutex_trylock", "mutex_unlock"} <=> On(t) \in Mutexes
         /\ Op(t) = "mutex_trylock" => done[t] + 2 \in 0..Len(prog[t])
<1>1. prog[t] \in Seq(Calls)
  BY SyncAssumption DEF TypeOK, ProgramOK
<1>2. done[t] + 1 \in 1..Len(prog[t])
  BY <1>1 DEF TypeOK
<1>3. prog[t][done[t] + 1] \in Calls
  BY <1>1, <1>2
<1>a. \A k \in 1..Len(prog[t]) :
        /\ prog[t][k].op = "handshake_notify" => prog[t][k].on = t
        /\ prog[t][k].op = "mutex_trylock" => k < Len(prog[t])
  <2>1. ProgramOK(prog)
    BY SyncAssumption DEF TypeOK
  <2>2. QED
    BY <2>1 DEF ProgramOK
<1>4. Op(t) = "handshake_notify" => On(t) = t
  BY <1>2, <1>a DEF Op, On
<1>5. Op(t) = "mutex_trylock" => done[t] + 1 < Len(prog[t])
  BY <1>2, <1>a DEF Op
<1>6. Op(t) = "mutex_trylock" => done[t] + 2 \in 0..Len(prog[t])
  BY <1>2, <1>5, ProgramTyped DEF TypeOK
<1>7. QED
  BY <1>3, <1>4, <1>6, SyncAssumption DEF Calls, Op, On, Objects, Queued

-----------------------------------------------------------------------------
(* The invariant, part by part, over the steps of one tasklet.              *)
LEMMA InitInvariant == Init => IInv
<1> SUFFICES ASSUME Init PROVE IInv
  OBVIOUS
<1>1. TypeOK
  <2>1. \A t \in Tasklets : done[t] \in 0..Len(prog[t])
    BY ProgramTyped DEF Init
  <2>2. count \in [Queued -> Int] /\ \A b \in Barriers : count[b] \in 1..Size[b]
    BY SyncAssumption DEF Init, Queued
  <2>3. QED
    BY <2>1, <2>2 DEF Init, TypeOK, Places
<1>2. Pending /\ TableClosed /\ SectionsHeld
  BY DEF Init, Pending, TableClosed, SectionsHeld, Inside
<1>3. QED
  BY <1>1, <1>2 DEF IInv

LEMMA PendingStep ==
  ASSUME IInv, NEW t \in Tasklets, Step(t)
  PROVE  Pending'
<1> USE DEF IInv, TypeOK, Pending
<1>1. CASE Call(t)
  BY <1>1 DEF Call
<1>2. CASE Acquire(t)
  BY <1>2 DEF Acquire
<1>3. CASE Locked(t)
  BY <1>3 DEF Locked
<1>4. CASE Release(t)
  BY <1>4 DEF Release
<1>5. CASE Suspend(t)
  BY <1>5 DEF Suspend
<1>6. CASE Stop(t)
  BY <1>6 DEF Stop
<1>7. CASE BarrierEnter(t)
  BY <1>7 DEF BarrierEnter, Enter, In
<1>8. CASE BarrierOpen(t)
  BY <1>8 DEF BarrierOpen, In
<1>9. CASE SemEnter(t)
  BY <1>9 DEF SemEnter, Enter, In
<1>10. CASE SemTake(t)
  BY <1>10 DEF SemTake, In
<1>11. CASE SemGive(t)
  BY <1>11 DEF SemGive, In
<1>12. CASE HandshakeFirst(t)
  BY <1>12 DEF HandshakeFirst, In
<1>13. CASE HandshakeSecond(t)
  BY <1>13 DEF HandshakeSecond, In
<1>14. CASE HandshakeRefused(t)
  BY <1>14 DEF HandshakeRefused, In
<1>15. CASE Refuse(t)
  BY <1>15 DEF Refuse
<1>16. CASE WakeNext(t)
  BY <1>16 DEF WakeNext, Resume
<1>17. CASE WakeLast(t)
  BY <1>17 DEF WakeLast, Resume
<1>18. CASE WakeTaker(t)
  BY <1>18 DEF WakeTaker, Resume
<1>19. CASE WakePartner(t)
  BY <1>19 DEF WakePartner, Resume
<1>20. CASE NotLocked(t)
  BY <1>20 DEF NotLocked, In
<1>21. QED
  BY <1>1, <1>2, <1>3, <1>4, <1>5, <1>6, <1>7, <1>8, <1>9, <1>10, <1>11,
     <1>12, <1>13, <1>14, <1>15, <1>16, <1>17, <1>18, <1>19, <1>20 DEF Step

LEMMA DoneStep ==
  ASSUME IInv, NEW t \in Tasklets, Step(t)
  PROVE  done' \in [Tasklets -> Nat]
<1>1. \/ done' = done
      \/ done' = [done EXCEPT ![t] = @ + 1]
      \/ done' = [done EXCEPT ![walk[t]] = @ + 1]
      \/ done' = [done EXCEPT ![t] = @ + 2]
  BY DEF Step, Call, Acquire, Locked, NotLocked, Release, Suspend, Stop, BarrierEnter, Enter,
         BarrierOpen, SemEnter, SemTake, SemGive, HandshakeFirst, HandshakeSecond,
         HandshakeRefused, Refuse, WakeNext, WakeLast, WakeTaker, WakePartner, Resume
<1>2. done \in [Tasklets -> Nat]
  BY DEF IInv, TypeOK
<1>3. [done EXCEPT ![t] = @ + 2] \in [Tasklets -> Nat]
  BY <1>2
<1>4. QED
  BY <1>1, <1>2, <1>3, CountedUp

LEMMA TypeStep ==
  ASSUME IInv, NEW t \in Tasklets, Step(t)
  PROVE  TypeOK'
<1>a. TypeOK /\ Pending /\ TableClosed
  BY DEF IInv
<1>b. ASSUME done[t] < Len(prog[t])
      PROVE  /\ On(t) \in Objects
             /\ Op(t) = "barrier_wait" => On(t) \in Barriers
             /\ Op(t) \in {"sem_take", "sem_give"} => On(t) \in Sems
             /\ Op(t) \in {"handshake_notify", "handshake_wait_for"} => On(t) \in Tasklets
             /\ Op(t) = "handshake_notify" => On(t) = t
             /\ Op(t) = "mutex_trylock" => done[t] + 2 \in 0..Len(prog[t])
  BY <1>a, <1>b, CallTyped
<1>c. /\ \A u \in Tasklets : Len(prog[u]) \in Nat
      /\ Barriers \cap Sems = {} /\ \A b \in Barriers : Size[b] \in 1..24
  BY <1>a, ProgramTyped, SyncAssumption DEF TypeOK
<1>d. done' \in [Tasklets -> Nat]
  BY DoneStep
<1>f. ASSUME Resume(t)
      PROVE  /\ walk[t] \in Tasklets
             /\ \A u \in Tasklets : done'[u] \in 0..Len(prog[u])
  <2>1. walk[t] \in Tasklets /\ done[walk[t]] \in Nat /\ done[walk[t]] < Len(prog[walk[t]])
    BY <1>a, <1>f DEF TypeOK, Pending, Resume
  <2>2. \A u \in Tasklets : done'[u] = IF u = walk[t] THEN done[u] + 1 ELSE done[u]
    BY <1>a, <1>f DEF TypeOK, Resume
  <2>3. \A u \in Tasklets : done[u] \in 0..Len(prog[u]) /\ Len(prog[u]) \in Nat
    BY <1>a, <1>c DEF TypeOK
  <2>4. QED
    BY <2>1, <2>2, <2>3
<1>e. ASSUME NEW o \in Queued, wait_queue[o] # Empty
      PROVE  /\ wait_queue[o] \in Tasklets
             /\ table[wait_queue[o]] \in Tasklets
             /\ table[table[wait_queue[o]]] \in Tasklets
  BY <1>a, <1>e DEF TypeOK, TableClosed
<1> USE <1>a, <1>c, <1>d, Numbers DEF TypeOK, Pending, Places
<1>1. CASE Call(t)
  BY <1>1, <1>b DEF Call
<1>2. CASE Acquire(t)
  BY <1>2, <1>b DEF Acquire
<1>3. CASE Locked(t)
  BY <1>3, <1>b DEF Locked
<1>4. CASE Release(t)
  BY <1>4, <1>b DEF Release
<1>5. CASE Suspend(t)
  BY <1>5, <1>b DEF Suspend
<1>6. CASE Stop(t)
  BY <1>6, <1>b DEF Stop
<1>7. CASE BarrierEnter(t)
  <2>1. On(t) \in Barriers /\ On(t) \in Queued
    BY <1>7, <1>b DEF BarrierEnter, In, Queued
  <2>2. table' \in [Tasklets -> Tasklets \cup {Empty}]
    BY <1>7, <2>1 DEF BarrierEnter, Enter, Enqueued
  <2>3. count' \in [Queued -> Int] /\ \A b \in Barriers : count'[b] \in 1..Size[b]
    <3>1. count[On(t)] \in Int /\ count[On(t)] - 1 \in 1..Size[On(t)]
      <4>1. count[On(t)] \in 1..Size[On(t)] /\ Size[On(t)] \in 1..24
        BY <2>1
      <4>2. count[On(t)] # 1
        BY <1>7 DEF BarrierEnter, LastOne
      <4>3. QED
        BY <4>1, <4>2, CountedDown
    <3>2. count' = [count EXCEPT ![On(t)] = count[On(t)] - 1]
      BY <1>7 DEF BarrierEnter, Enter
    <3>3. QED
      BY <2>1, <3>1, <3>2 DEF Queued
  <2>4. QED
    BY <1>7, <2>1, <2>2, <2>3 DEF BarrierEnter, Enter
<1>8. CASE BarrierOpen(t)
  <2>1. On(t) \in Queued
    BY <1>8, <1>b DEF BarrierOpen, In, Queued
  <2>2. QED
    BY <1>8, <1>e, <2>1 DEF BarrierOpen
<1>9. CASE SemEnter(t)
  <2>1. On(t) \in Sems /\ On(t) \in Queued
    BY <1>9, <1>b DEF SemEnter, In, Queued
  <2>2. table' \in [Tasklets -> Tasklets \cup {Empty}]
    BY <1>9, <2>1 DEF SemEnter, Enter, Enqueued
  <2>3. count' \in [Queued -> Int] /\ \A b \in Barriers : count'[b] \in 1..Size[b]
    BY <1>9, <2>1 DEF SemEnter, Enter, Queued
  <2>4. QED
    BY <1>9, <2>1, <2>2, <2>3 DEF SemEnter, Enter
<1>10. CASE SemTake(t)
  BY <1>10, <1>b DEF SemTake, In, Queued
<1>11. CASE SemGive(t)
  <2>1. On(t) \in Sems /\ On(t) \in Queued
    BY <1>11, <1>b DEF SemGive, In, Queued
  <2>2. count' \in [Queued -> Int] /\ \A b \in Barriers : count'[b] \in 1..Size[b]
    BY <1>11, <2>1 DEF SemGive, Queued
  <2>3. CASE wait_queue[On(t)] = Empty
    BY <1>11, <2>1, <2>2, <2>3 DEF SemGive
  <2>4. CASE wait_queue[On(t)] # Empty
    BY <1>11, <1>e, <2>1, <2>2, <2>4 DEF SemGive
  <2>5. QED
    BY <2>3, <2>4
<1>12. CASE HandshakeFirst(t)
  BY <1>12, <1>b DEF HandshakeFirst, In
<1>13. CASE HandshakeSecond(t)
  BY <1>13, <1>b DEF HandshakeSecond, In
<1>14. CASE HandshakeRefused(t)
  BY <1>14, <1>b DEF HandshakeRefused, In
<1>15. CASE Refuse(t)
  <2>1. \A u \in Tasklets : done'[u] \in 0..Len(prog[u])
    BY <1>15 DEF Refuse
  <2>2. refused' \in [Tasklets -> Nat]
    BY <1>15, CountedUp DEF Refuse
  <2>3. QED
    BY <1>15, <2>1, <2>2 DEF Refuse
<1>16. CASE WakeNext(t)
  BY <1>16, <1>f DEF WakeNext, Resume, TableClosed
<1>17. CASE WakeLast(t)
  <2>1. On(t) \in Barriers /\ On(t) \in Queued
    BY <1>17, <1>b DEF WakeLast, Resume, Queued
  <2>2. count' \in [Queued -> Int] /\ \A b \in Barriers : count'[b] \in 1..Size[b]
    <3>1. Size[On(t)] \in Int /\ Size[On(t)] \in 1..Size[On(t)]
      BY <2>1, WholeRound
    <3>2. count' = [count EXCEPT ![On(t)] = Size[On(t)]]
      BY <1>17 DEF WakeLast, Reopened
    <3>3. QED
      BY <2>1, <3>1, <3>2 DEF Queued
  <2>3. QED
    BY <1>17, <1>f, <2>1, <2>2 DEF WakeLast
<1>18. CASE WakeTaker(t)
  BY <1>18, <1>f DEF WakeTaker
<1>19. CASE WakePartner(t)
  BY <1>19, <1>f DEF WakePartner
<1>20. CASE NotLocked(t)
  <2>1. done[t] + 2 \in 0..Len(prog[t])
    BY <1>20, <1>b DEF NotLocked, In
  <2>2. \A u \in Tasklets : done'[u] \in 0..Len(prog[u])
    BY <1>20, <2>1 DEF NotLocked
  <2>3. QED
    BY <1>20, <2>2 DEF NotLocked
<1>21. QED
  BY <1>1, <1>2, <1>3, <1>4, <1>5, <1>6, <1>7, <1>8, <1>9, <1>10, <1>11,
     <1>12, <1>13, <1>14, <1>15, <1>16, <1>17, <1>18, <1>19, <1>20 DEF Step

(* A call changes only by returning, and a step moves another tasklet only   *)
(* by resuming it.                                                          *)
LEMMA CallsStay ==
  ASSUME IInv, NEW t \in Tasklets, Step(t)
  PROVE  \A u \in Tasklets : pc'[u] # "caller" =>
           Op(u)' = Op(u) /\ On(u)' = On(u) /\ (u # t => pc'[u] = pc[u])
<1>a. TypeOK
  BY DEF IInv
<1>b. SUFFICES prog' = prog /\ \A u \in Tasklets : pc'[u] # "caller" =>
                 done'[u] = done[u] /\ (u # t => pc'[u] = pc[u])
  BY DEF Op, On
<1> USE <1>a DEF TypeOK
<1>1. CASE Call(t)
  BY <1>1 DEF Call
<1>2. CASE Acquire(t)
  BY <1>2 DEF Acquire
<1>3. CASE Locked(t)
  BY <1>3 DEF Locked
<1>4. CASE Release(t)
  BY <1>4 DEF Release
<1>5. CASE Suspend(t)
  BY <1>5 DEF Suspend
<1>6. CASE Stop(t)
  BY <1>6 DEF Stop
<1>7. CASE BarrierEnter(t)
  BY <1>7 DEF BarrierEnter, Enter
<1>8. CASE BarrierOpen(t)
  BY <1>8 DEF BarrierOpen
<1>9. CASE SemEnter(t)
  BY <1>9 DEF SemEnter, Enter
<1>10. CASE SemTake(t)
  BY <1>10 DEF SemTake
<1>11. CASE SemGive(t)
  BY <1>11 DEF SemGive
<1>12. CASE HandshakeFirst(t)
  BY <1>12 DEF HandshakeFirst
<1>13. CASE HandshakeSecond(t)
  BY <1>13 DEF HandshakeSecond
<1>14. CASE HandshakeRefused(t)
  BY <1>14 DEF HandshakeRefused
<1>15. CASE Refuse(t)
  BY <1>15 DEF Refuse
<1>16. CASE WakeNext(t)
  BY <1>16 DEF WakeNext, Resume
<1>17. CASE WakeLast(t)
  BY <1>17 DEF WakeLast, Resume
<1>18. CASE WakeTaker(t)
  BY <1>18 DEF WakeTaker, Resume
<1>19. CASE WakePartner(t)
  BY <1>19 DEF WakePartner, Resume
<1>20. CASE NotLocked(t)
  BY <1>20 DEF NotLocked
<1>21. QED
  BY <1>1, <1>2, <1>3, <1>4, <1>5, <1>6, <1>7, <1>8, <1>9, <1>10, <1>11,
     <1>12, <1>13, <1>14, <1>15, <1>16, <1>17, <1>18, <1>19, <1>20 DEF Step

LEMMA HeldStep ==
  ASSUME IInv, NEW t \in Tasklets, Step(t)
  PROVE  SectionsHeld'
<1>a. TypeOK /\ Pending /\ SectionsHeld
  BY DEF IInv
<1>b. \A u \in Tasklets : pc'[u] # "caller" =>
        Op(u)' = Op(u) /\ On(u)' = On(u) /\ (u # t => pc'[u] = pc[u])
  BY CallsStay
<1>c. \A u \in Tasklets : Inside(u)' /\ u # t => Inside(u) /\ On(u)' = On(u)
  BY <1>b DEF Inside
<1>d. ASSUME UNCHANGED lock, Inside(t)' => Inside(t) /\ On(t)' = On(t)
      PROVE  SectionsHeld'
  BY <1>a, <1>c, <1>d DEF SectionsHeld
<1>e. ASSUME NEW holder, lock' = [lock EXCEPT ![On(t)] = holder], ~Inside(t)',
             Inside(t) \/ On(t) \in Mutexes
      PROVE  SectionsHeld'
  <2>1. SUFFICES ASSUME NEW u \in Tasklets, Inside(u)' PROVE lock'[On(u)'] = u
    BY DEF SectionsHeld
  <2>2. u # t /\ Inside(u) /\ On(u)' = On(u) /\ lock[On(u)] = u
    BY <1>a, <1>c, <1>e, <2>1 DEF SectionsHeld
  <2>3. On(u) # On(t)
    BY <1>a, <1>e, <2>2 DEF SectionsHeld, Inside
  <2>4. On(u) \in Objects
    BY <1>a, <2>2, CallTyped DEF Inside, Pending
  <2>5. QED
    BY <1>a, <1>e, <2>2, <2>3, <2>4 DEF TypeOK
<1>f. ASSUME NEW u \in Tasklets, pc[u] # "caller"
      PROVE  On(u) \in Objects /\ (Op(u) \in {"mutex_lock", "mutex_trylock", "mutex_unlock"} <=> On(u) \in Mutexes)
  BY <1>a, <1>f, CallTyped DEF Pending
<1>1. CASE Call(t)
  <2>1. On(t)' = On(t) /\ pc'[t] \in {"acquire", "release"} /\ UNCHANGED lock
    BY <1>1, <1>a DEF Call, On, TypeOK
  <2>2. pc'[t] = "release" => On(t) \in Mutexes
    BY <1>1, <1>a, CallTyped DEF Call, TypeOK
  <2>3. QED
    BY <1>d, <2>1, <2>2 DEF Inside
<1>2. CASE Acquire(t)
  <2>1. SUFFICES ASSUME NEW u \in Tasklets, Inside(u)' PROVE lock'[On(u)'] = u
    BY DEF SectionsHeld
  <2>2. On(u)' = On(u)
    BY <1>b, <2>1 DEF Inside
  <2>3. On(t) \in Objects /\ lock[On(t)] = Free /\ lock' = [lock EXCEPT ![On(t)] = t]
    BY <1>2, <1>f DEF Acquire, BitFree
  <2>4. CASE u = t
    BY <1>a, <2>2, <2>3, <2>4 DEF TypeOK
  <2>5. CASE u # t
    <3>1. Inside(u) /\ lock[On(u)] = u
      BY <1>a, <1>c, <2>1, <2>5 DEF SectionsHeld
    <3>2. On(u) \in Objects /\ On(u) # On(t)
      BY <1>f, <2>3, <3>1, Numbers DEF Inside
    <3>3. QED
      BY <1>a, <2>2, <2>3, <3>1, <3>2 DEF TypeOK
  <2>6. QED
    BY <2>4, <2>5
<1>3. CASE Locked(t)
  BY <1>3, <1>a, <1>e, <1>f DEF Locked, Inside, TypeOK
<1>4. CASE Release(t)
  BY <1>4, <1>a, <1>e DEF Release, Inside, TypeOK
<1>5. CASE Suspend(t)
  BY <1>5, <1>a, <1>e DEF Suspend, Inside, TypeOK
<1>6. CASE Stop(t)
  BY <1>6, <1>a, <1>d DEF Stop, In, Inside, TypeOK
<1>7. CASE BarrierEnter(t)
  BY <1>7, <1>a, <1>b, <1>d DEF BarrierEnter, Enter, In, Inside, TypeOK
<1>8. CASE BarrierOpen(t)
  BY <1>8, <1>a, <1>b, <1>d DEF BarrierOpen, In, Inside, TypeOK
<1>9. CASE SemEnter(t)
  BY <1>9, <1>a, <1>b, <1>d DEF SemEnter, Enter, In, Inside, TypeOK
<1>10. CASE SemTake(t)
  BY <1>10, <1>a, <1>b, <1>d DEF SemTake, In, Inside, TypeOK
<1>11. CASE SemGive(t)
  BY <1>11, <1>a, <1>b, <1>d DEF SemGive, In, Inside, TypeOK
<1>12. CASE HandshakeFirst(t)
  BY <1>12, <1>a, <1>b, <1>d DEF HandshakeFirst, In, Inside, TypeOK
<1>13. CASE HandshakeSecond(t)
  BY <1>13, <1>a, <1>b, <1>d DEF HandshakeSecond, In, Inside, TypeOK
<1>14. CASE HandshakeRefused(t)
  BY <1>14, <1>a, <1>b, <1>d DEF HandshakeRefused, In, Inside, TypeOK
<1>15. CASE Refuse(t)
  BY <1>15, <1>a, <1>e DEF Refuse, Inside, TypeOK
<1>16. CASE WakeNext(t)
  BY <1>16, <1>a, <1>b, <1>d DEF WakeNext, Resume, In, Inside, TypeOK
<1>17. CASE WakeLast(t)
  BY <1>17, <1>a, <1>b, <1>d DEF WakeLast, Resume, In, Inside, TypeOK
<1>18. CASE WakeTaker(t)
  BY <1>18, <1>a, <1>b, <1>d DEF WakeTaker, Resume, In, Inside, TypeOK
<1>19. CASE WakePartner(t)
  BY <1>19, <1>a, <1>b, <1>d DEF WakePartner, Resume, In, Inside, TypeOK
<1>20. CASE NotLocked(t)
  BY <1>20, <1>a, <1>d DEF NotLocked, In, Inside, TypeOK
<1>21. QED
  BY <1>1, <1>2, <1>3, <1>4, <1>5, <1>6, <1>7, <1>8, <1>9, <1>10, <1>11,
     <1>12, <1>13, <1>14, <1>15, <1>16, <1>17, <1>18, <1>19, <1>20 DEF Step

LEMMA TableStep ==
  ASSUME IInv, NEW t \in Tasklets, Step(t)
  PROVE  TableClosed'
<1>a. TypeOK /\ Pending /\ TableClosed
  BY DEF IInv
<1>b. \A u \in Tasklets : pc'[u] # "caller" =>
        Op(u)' = Op(u) /\ On(u)' = On(u) /\ (u # t => pc'[u] = pc[u])
  BY CallsStay
<1>c. ASSUME UNCHANGED << wait_queue, table >>,
             \A u \in Tasklets : u # t => walk'[u] = walk[u],
             pc'[t] = "wake" /\ Op(t) = "barrier_wait" => table[walk'[t]] # Empty
      PROVE  TableClosed'
  BY <1>a, <1>b, <1>c DEF TableClosed
<1>d. ASSUME NEW o \in Queued, table' = Enqueued(wait_queue[o], t),
             wait_queue' = [wait_queue EXCEPT ![o] = t],
             pc'[t] # "wake", UNCHANGED walk
      PROVE  TableClosed'
  <2>1. wait_queue[o] = Empty \/ (wait_queue[o] \in Tasklets /\ table[wait_queue[o]] \in Tasklets)
    BY <1>a DEF TypeOK, TableClosed
  <2>2. \A u \in Tasklets :
          table'[u] = IF u = t THEN (IF wait_queue[o] = Empty THEN t ELSE table[wait_queue[o]])
                      ELSE IF u = wait_queue[o] THEN t ELSE table[u]
    BY <1>a, <1>d, <2>1, Numbers DEF TypeOK, Enqueued
  <2>3. \A u \in Tasklets : table[u] # Empty \/ u = t => table'[u] # Empty
    BY <1>a, <2>1, <2>2, Numbers DEF TypeOK
  <2>4. \A q \in Queued : wait_queue'[q] # Empty => table'[wait_queue'[q]] # Empty
    BY <1>a, <1>d, <2>3 DEF TypeOK, TableClosed
  <2>5. \A u \in Tasklets : table'[u] # Empty => table'[table'[u]] # Empty
    BY <1>a, <2>1, <2>2, <2>3 DEF TypeOK, TableClosed
  <2>6. \A u \in Tasklets :
          pc'[u] = "wake" /\ Op(u)' = "barrier_wait" => table'[walk'[u]] # Empty
    BY <1>a, <1>b, <1>d, <2>3 DEF TypeOK, TableClosed
  <2>7. QED
    BY <2>4, <2>5, <2>6 DEF TableClosed
<1>e. ASSUME NEW u \in Tasklets, pc[u] # "caller"
      PROVE  /\ Op(u) = "barrier_wait" => On(u) \in Barriers /\ On(u) \in Queued
             /\ Op(u) \in {"sem_take", "sem_give"} => On(u) \in Sems /\ On(u) \in Queued
  BY <1>a, <1>e, CallTyped DEF Pending, Queued
<1>1. CASE Call(t)
  BY <1>1, <1>a, <1>c DEF Call, TypeOK
<1>2. CASE Acquire(t)
  BY <1>2, <1>a, <1>c DEF Acquire, TypeOK
<1>3. CASE Locked(t)
  BY <1>3, <1>a, <1>c DEF Locked, TypeOK
<1>4. CASE Release(t)
  BY <1>4, <1>a, <1>c DEF Release, TypeOK
<1>5. CASE Suspend(t)
  BY <1>5, <1>a, <1>c DEF Suspend, TypeOK
<1>6. CASE Stop(t)
  BY <1>6, <1>a, <1>c DEF Stop, TypeOK
<1>7. CASE BarrierEnter(t)
  <2>1. On(t) \in Queued
    BY <1>7, <1>e DEF BarrierEnter, In
  <2>2. QED
    BY <1>7, <1>a, <1>d, <2>1 DEF BarrierEnter, Enter, TypeOK
<1>8. CASE BarrierOpen(t)
  <2>1. On(t) \in Queued
    BY <1>8, <1>e DEF BarrierOpen, In
  <2>2. wait_queue[On(t)] # Empty =>
          wait_queue[On(t)] \in Tasklets /\ table[table[wait_queue[On(t)]]] # Empty
    BY <1>a, <2>1 DEF TypeOK, TableClosed
  <2>3. QED
    BY <1>8, <1>a, <1>c, <2>2 DEF BarrierOpen, TypeOK
<1>9. CASE SemEnter(t)
  <2>1. On(t) \in Queued
    BY <1>9, <1>e DEF SemEnter, In
  <2>2. QED
    BY <1>9, <1>a, <1>d, <2>1 DEF SemEnter, Enter, TypeOK
<1>10. CASE SemTake(t)
  BY <1>10, <1>a, <1>c DEF SemTake, In, TypeOK
<1>11. CASE SemGive(t)
  <2>1. On(t) \in Queued /\ Op(t) = "sem_give" /\ pc[t] # "caller"
    BY <1>11, <1>e DEF SemGive, In
  <2>2. CASE wait_queue[On(t)] = Empty \/ table[wait_queue[On(t)]] = wait_queue[On(t)]
    <3>1. /\ UNCHANGED table
          /\ \A q \in Queued : wait_queue'[q] \in {wait_queue[q], Empty}
          /\ \A u \in Tasklets : u # t => walk'[u] = walk[u]
      BY <1>11, <1>a, <2>1, <2>2 DEF SemGive, TypeOK
    <3>2. QED
      BY <1>a, <1>b, <2>1, <3>1 DEF TableClosed
  <2>3. CASE wait_queue[On(t)] # Empty /\ table[wait_queue[On(t)]] # wait_queue[On(t)]
    <3>1. PICK last \in Tasklets : last = wait_queue[On(t)]
      BY <1>a, <2>1, <2>3 DEF TypeOK
    <3>2. table[last] \in Tasklets /\ table[table[last]] \in Tasklets
      BY <1>a, <2>1, <2>3, <3>1 DEF TypeOK, TableClosed
    <3>3. /\ UNCHANGED wait_queue
          /\ table' = [table EXCEPT ![last] = table[table[last]]]
          /\ \A u \in Tasklets : u # t => walk'[u] = walk[u]
      BY <1>11, <1>a, <2>3, <3>1 DEF SemGive, TypeOK
    <3>4. \A u \in Tasklets :
            table'[u] = IF u = last THEN table[table[last]] ELSE table[u]
      BY <1>a, <3>3 DEF TypeOK
    <3>5. \A u \in Tasklets : table[u] # Empty => table'[u] # Empty
      BY <3>2, <3>4, Numbers
    <3>6. \A u \in Tasklets : table'[u] # Empty => table'[table'[u]] # Empty
      BY <1>a, <3>2, <3>4, <3>5 DEF TypeOK, TableClosed
    <3>7. \A q \in Queued : wait_queue'[q] # Empty => table'[wait_queue'[q]] # Empty
      BY <1>a, <3>3, <3>5 DEF TypeOK, TableClosed
    <3>8. \A u \in Tasklets :
            pc'[u] = "wake" /\ Op(u)' = "barrier_wait" => table'[walk'[u]] # Empty
      <4>1. SUFFICES ASSUME NEW u \in Tasklets, pc'[u] = "wake", Op(u)' = "barrier_wait"
                     PROVE  table'[walk'[u]] # Empty
        OBVIOUS
      <4>2. u # t /\ pc[u] = "wake" /\ Op(u) = "barrier_wait"
        BY <1>b, <2>1, <4>1
      <4>3. walk'[u] = walk[u] /\ walk[u] \in Tasklets /\ table[walk[u]] # Empty
        BY <1>a, <3>3, <4>2 DEF TypeOK, TableClosed
      <4>4. QED
        BY <3>5, <4>3
    <3>9. QED
      BY <3>6, <3>7, <3>8 DEF TableClosed
  <2>4. QED
    BY <2>2, <2>3
<1>12. CASE HandshakeFirst(t)
  BY <1>12, <1>a, <1>c DEF HandshakeFirst, In, TypeOK
<1>13. CASE HandshakeSecond(t)
  BY <1>13, <1>a, <1>c DEF HandshakeSecond, In, TypeOK
<1>14. CASE HandshakeRefused(t)
  BY <1>14, <1>a, <1>c DEF HandshakeRefused, In, TypeOK
<1>15. CASE Refuse(t)
  BY <1>15, <1>a, <1>c DEF Refuse, TypeOK
<1>16. CASE WakeNext(t)
  <2>1. table[walk[t]] # Empty /\ walk[t] \in Tasklets
    BY <1>16, <1>a DEF WakeNext, Resume, TypeOK, TableClosed
  <2>2. table[table[walk[t]]] # Empty
    BY <1>a, <2>1 DEF TableClosed
  <2>3. QED
    BY <1>16, <1>a, <1>c, <2>2 DEF WakeNext, Resume, TypeOK
<1>17. CASE WakeLast(t)
  <2>1. \A q \in Queued : wait_queue'[q] \in {wait_queue[q], Empty}
    BY <1>17, <1>a DEF WakeLast, TypeOK
  <2>2. UNCHANGED << table, walk >> /\ pc'[t] # "wake"
    BY <1>17, <1>a DEF WakeLast, Resume, TypeOK
  <2>3. QED
    BY <1>a, <1>b, <2>1, <2>2 DEF TableClosed
<1>18. CASE WakeTaker(t)
  BY <1>18, <1>a, <1>c DEF WakeTaker, Resume, TypeOK
<1>19. CASE WakePartner(t)
  BY <1>19, <1>a, <1>c DEF WakePartner, Resume, TypeOK
<1>20. CASE NotLocked(t)
  BY <1>20, <1>a, <1>c DEF NotLocked, In, TypeOK
<1>21. QED
  BY <1>1, <1>2, <1>3, <1>4, <1>5, <1>6, <1>7, <1>8, <1>9, <1>10, <1>11,
     <1>12, <1>13, <1>14, <1>15, <1>16, <1>17, <1>18, <1>19, <1>20 DEF Step

LEMMA Inductive == IInv /\ [Next]_vars => IInv'
<1> SUFFICES ASSUME IInv, [Next]_vars PROVE IInv'
  OBVIOUS
<1>1. ASSUME NEW t \in Tasklets, Step(t) PROVE IInv'
  BY <1>1, TypeStep, PendingStep, TableStep, HeldStep DEF IInv
<1>2. CASE UNCHANGED vars
  BY <1>2 DEF vars, IInv, TypeOK, Pending, TableClosed, SectionsHeld, Inside, Op, On
<1>3. QED
  BY <1>1, <1>2 DEF Next, Halted

LEMMA AlwaysIInv == Spec => []IInv
BY InitInvariant, Inductive, PTL DEF Spec

-----------------------------------------------------------------------------
(* The state stays well typed: in particular every resume is for a tasklet,  *)
(* never for Empty, and a barrier's count stays between one and its size,   *)
(* whatever the tasklets call.                                              *)
THEOREM TypeCorrect == Spec => []TypeOK
<1>1. IInv => TypeOK
  BY DEF IInv
<1>2. QED
  BY <1>1, AlwaysIInv, PTL

(* At most one tasklet is in the critical section of a barrier, semaphore   *)
(* or handshake, through the wait for another tasklet to stop included.     *)
THEOREM OneInside == Spec => []InsideAlone
<1>1. IInv => InsideAlone
  BY DEF IInv, SectionsHeld, InsideAlone
<1>2. QED
  BY <1>1, AlwaysIInv, PTL

(* The queues of one table: the entry of every tasklet that a queue, an     *)
(* entry or a barrier that opens leads to is in use.                        *)
THEOREM EntriesInUse == Spec => []TableClosed
<1>1. IInv => TableClosed
  BY DEF IInv
<1>2. QED
  BY <1>1, AlwaysIInv, PTL

-----------------------------------------------------------------------------
(* The wait queues.                                                         *)
(* Suspended, or on the way there, in the call on object o. *)
Suspended(t, o) == pc[t] \in {"suspend", "stop", "stopped"} /\ On(t) = o

Waking(t, op, o) == pc[t] = "wake" /\ Op(t) = op /\ On(t) = o

(* Whom sem_give resumes has left the queue already. *)
Leaving(o) == {walk[u] : u \in {v \in Tasklets : Waking(v, "sem_give", o)}}
Members(o) == {t \in Tasklets : Suspended(t, o)} \ Leaving(o)

(* A barrier resumes its queue one after the other, keeping its lock. *)
Opening(o) == \E u \in Tasklets : Waking(u, "barrier_wait", o)

QueueIs(o, n, q) ==
  /\ q \in [1..n -> Tasklets]
  /\ \A j, k \in 1..n : q[j] = q[k] => j = k
  /\ Members(o) = {q[k] : k \in 1..n}
  /\ wait_queue[o] = IF n = 0 THEN Empty ELSE q[n]
  /\ \A k \in 1..(n - 1) : table[q[k]] = q[k + 1]
  /\ \/ Opening(o)
     \/ /\ n # 0 => table[q[n]] = q[1]
        /\ o \in Barriers => count[o] + n = Size[o]
  /\ \A u \in Tasklets : Waking(u, "barrier_wait", o) => n # 0 /\ walk[u] = q[1]
  /\ o \in Sems => n = IF count[o] < 0 THEN -count[o] ELSE 0

Queues == \A o \in Queued : \E n \in Nat : \E q : QueueIs(o, n, q)

(* A tasklet is resumed out of the call on the same object. *)
Resumable ==
  \A u \in Tasklets : pc[u] = "wake" =>
    /\ Suspended(walk[u], On(u))
    /\ On(u) \in Tasklets => walk[u] = shake[On(u)]

(* The cell of a handshake holds whoever came first and is suspended. *)
Shaken == \A n, s \in Tasklets : shake[n] = s => Suspended(s, n)

QInv == IInv /\ Queues /\ Resumable /\ Shaken

-----------------------------------------------------------------------------
(* A call is made on an object of its kind. *)
LEMMA CallKinds ==
  ASSUME IInv, NEW t \in Tasklets, done[t] < Len(prog[t])
  PROVE  /\ On(t) \in Barriers <=> Op(t) = "barrier_wait"
         /\ On(t) \in Sems <=> Op(t) \in {"sem_take", "sem_give"}
         /\ On(t) \in Tasklets <=> Op(t) \in {"handshake_notify", "handshake_wait_for"}
         /\ On(t) \in Mutexes <=> Op(t) \in {"mutex_lock", "mutex_trylock", "mutex_unlock"}
<1>1. prog[t] \in Seq(Calls) /\ done[t] \in 0..Len(prog[t])
  BY SyncAssumption DEF IInv, TypeOK, ProgramOK
<1>2. prog[t][done[t] + 1] \in Calls
  BY <1>1
<1>3. QED
  BY <1>2, SyncAssumption DEF Calls, Op, On, Queued

LEMMA CallMade ==
  ASSUME IInv, NEW t \in Tasklets, pc[t] # "caller"
  PROVE  done[t] < Len(prog[t])
BY DEF IInv, Pending

(* What a step of t does to the places of the tasklets: it moves t, and the *)
(* one it resumes; and only t changes its frame.                            *)
LEMMA StepMoves ==
  ASSUME IInv, NEW t \in Tasklets, Step(t)
  PROVE  /\ prog' = prog
         /\ pc'[t] # "caller" => done'[t] = done[t]
         /\ \A u \in Tasklets \ {t} :
              /\ walk'[u] = walk[u]
              /\ IF pc[t] = "wake" /\ u = walk[t] THEN pc'[u] = "caller"
                 ELSE pc'[u] = pc[u] /\ done'[u] = done[u]
<1> USE DEF IInv, TypeOK
<1>1. CASE Call(t)
  BY <1>1 DEF Call
<1>2. CASE Acquire(t)
  BY <1>2 DEF Acquire
<1>3. CASE Locked(t)
  BY <1>3 DEF Locked
<1>4. CASE Release(t)
  BY <1>4 DEF Release
<1>5. CASE Suspend(t)
  BY <1>5 DEF Suspend
<1>6. CASE Stop(t)
  BY <1>6 DEF Stop
<1>7. CASE BarrierEnter(t)
  BY <1>7 DEF BarrierEnter, Enter, In
<1>8. CASE BarrierOpen(t)
  BY <1>8 DEF BarrierOpen, In
<1>9. CASE SemEnter(t)
  BY <1>9 DEF SemEnter, Enter, In
<1>10. CASE SemTake(t)
  BY <1>10 DEF SemTake, In
<1>11. CASE SemGive(t)
  BY <1>11 DEF SemGive, In
<1>12. CASE HandshakeFirst(t)
  BY <1>12 DEF HandshakeFirst, In
<1>13. CASE HandshakeSecond(t)
  BY <1>13 DEF HandshakeSecond, In
<1>14. CASE HandshakeRefused(t)
  BY <1>14 DEF HandshakeRefused, In
<1>15. CASE Refuse(t)
  BY <1>15 DEF Refuse
<1>16. CASE WakeNext(t)
  BY <1>16 DEF WakeNext, Resume
<1>17. CASE WakeLast(t)
  BY <1>17 DEF WakeLast, Resume
<1>18. CASE WakeTaker(t)
  BY <1>18 DEF WakeTaker, Resume
<1>19. CASE WakePartner(t)
  BY <1>19 DEF WakePartner, Resume
<1>20. CASE NotLocked(t)
  BY <1>20 DEF NotLocked, In
<1>21. QED
  BY <1>1, <1>2, <1>3, <1>4, <1>5, <1>6, <1>7, <1>8, <1>9, <1>10, <1>11,
     <1>12, <1>13, <1>14, <1>15, <1>16, <1>17, <1>18, <1>19, <1>20 DEF Step

(* Hence who is suspended or resumes, and where. *)
LEMMA OthersMove ==
  ASSUME IInv, NEW t \in Tasklets, Step(t), NEW u \in Tasklets \ {t}
  PROVE  /\ \A o : Suspended(u, o)' <=>
                     Suspended(u, o) /\ ~(pc[t] = "wake" /\ u = walk[t])
         /\ pc[t] = "wake" => pc[walk[t]] = "stopped"
         /\ \A op, o : Waking(u, op, o)' <=> Waking(u, op, o)
<1>1. pc[t] = "wake" => pc[walk[t]] = "stopped"
  BY DEF Step, Call, Acquire, Locked, NotLocked, Release, Suspend, Stop, BarrierEnter,
         BarrierOpen, SemEnter, SemTake, SemGive, HandshakeFirst, HandshakeSecond,
         HandshakeRefused, Refuse, WakeNext, WakeLast, WakeTaker, WakePartner, Resume, In
<1>2. /\ prog' = prog
      /\ IF pc[t] = "wake" /\ u = walk[t] THEN pc'[u] = "caller"
         ELSE pc'[u] = pc[u] /\ done'[u] = done[u]
  BY StepMoves
<1>3. QED
  BY <1>1, <1>2 DEF Suspended, Waking, Op, On

LEMMA SelfMoves ==
  ASSUME IInv, NEW t \in Tasklets, Step(t)
  PROVE  pc'[t] # "caller" => Op(t)' = Op(t) /\ On(t)' = On(t)
BY StepMoves DEF Op, On

(* Nobody else is in the section that t is in. *)
LEMMA Alone ==
  ASSUME IInv, NEW t \in Tasklets, Inside(t), NEW u \in Tasklets \ {t}, On(u) = On(t)
  PROVE  pc[u] \notin {"section", "release", "suspend", "wake", "refuse"}
BY DEF IInv, SectionsHeld, Inside

(* A queue that the step does not touch. *)
LEMMA Untouched ==
  ASSUME NEW o, NEW n \in Nat, NEW q, QueueIs(o, n, q),
         Members(o)' = Members(o),
         wait_queue'[o] = wait_queue[o], count'[o] = count[o],
         \A u \in Members(o) : table'[u] = table[u],
         \A u \in Tasklets : Waking(u, "barrier_wait", o)' <=> Waking(u, "barrier_wait", o),
         \A u \in Tasklets : Waking(u, "barrier_wait", o) => walk'[u] = walk[u]
  PROVE  QueueIs(o, n, q)'
<1>1. \A k \in 1..n : table'[q[k]] = table[q[k]]
  BY DEF QueueIs
<1>2. Opening(o)' <=> Opening(o)
  BY DEF Opening
<1>3. \A k \in 1..(n - 1) : table'[q[k]] = q[k + 1]
  <2>1. \A k \in 1..(n - 1) : k \in 1..n
    OBVIOUS
  <2>2. QED
    BY <1>1, <2>1 DEF QueueIs
<1>4. n # 0 /\ table[q[n]] = q[1] => table'[q[n]] = q[1]
  <2>1. n # 0 => n \in 1..n
    OBVIOUS
  <2>2. QED
    BY <1>1, <2>1
<1>5. QED
  BY <1>2, <1>3, <1>4 DEF QueueIs

(* The last of a queue is a member of it. *)
LEMMA LastIsMember ==
  ASSUME NEW o, NEW n \in Nat, NEW q, QueueIs(o, n, q), wait_queue[o] # Empty
  PROVE  n # 0 /\ wait_queue[o] = q[n] /\ Suspended(q[n], o) /\ q[n] \in Tasklets
<1>1. n # 0 /\ wait_queue[o] = q[n] /\ n \in 1..n
  BY DEF QueueIs
<1>2. q[n] \in Members(o)
  BY <1>1 DEF QueueIs
<1>3. QED
  BY <1>1, <1>2 DEF Members

(* A step of t changes the table, queues and counts only at t itself and in *)
(* the queue t's call is made on. *)
LEMMA DataStays ==
  ASSUME QInv, NEW t \in Tasklets, Step(t)
  PROVE  /\ \A o \in Queued \ {On(t)} :
              wait_queue'[o] = wait_queue[o] /\ count'[o] = count[o]
         /\ \A u \in Tasklets \ {t} : ~Suspended(u, On(t)) => table'[u] = table[u]
<1>a. IInv /\ TypeOK /\ Queues
  BY DEF QInv, IInv
<1>b. ASSUME pc[t] # "caller", Op(t) \in {"barrier_wait", "sem_take", "sem_give"},
             wait_queue[On(t)] # Empty
      PROVE  wait_queue[On(t)] \in Tasklets /\ Suspended(wait_queue[On(t)], On(t))
  <2>1. On(t) \in Queued
    BY <1>a, <1>b, CallMade, CallKinds DEF Queued
  <2>2. PICK n \in Nat : \E q : QueueIs(On(t), n, q)
    BY <1>a, <2>1 DEF Queues
  <2>3. QED
    BY <1>b, <2>2, LastIsMember
<1> USE <1>a DEF TypeOK
<1>1. CASE Call(t) \/ Acquire(t) \/ Locked(t) \/ NotLocked(t) \/ Release(t) \/ Suspend(t)
           \/ Stop(t) \/ BarrierOpen(t) \/ HandshakeFirst(t) \/ HandshakeSecond(t)
           \/ HandshakeRefused(t) \/ Refuse(t) \/ WakeNext(t) \/ WakeTaker(t) \/ WakePartner(t)
  BY <1>1 DEF Call, Acquire, Locked, NotLocked, Release, Suspend, Stop, BarrierOpen,
              HandshakeFirst, HandshakeSecond, HandshakeRefused, Refuse, WakeNext, WakeTaker,
              WakePartner
<1>2. CASE BarrierEnter(t) \/ SemEnter(t)
  <2>1. Enter(t) /\ pc[t] # "caller" /\ Op(t) \in {"barrier_wait", "sem_take"}
    BY <1>2 DEF BarrierEnter, SemEnter, In
  <2>2. QED
    BY <1>b, <2>1 DEF Enter, Enqueued
<1>3. CASE SemTake(t)
  BY <1>3 DEF SemTake
<1>4. CASE SemGive(t)
  <2>1. pc[t] # "caller" /\ Op(t) = "sem_give"
    BY <1>4 DEF SemGive, In
  <2>2. QED
    BY <1>4, <1>b, <2>1 DEF SemGive
<1>5. CASE WakeLast(t)
  BY <1>5 DEF WakeLast
<1>6. QED
  BY <1>1, <1>2, <1>3, <1>4, <1>5 DEF Step

(* The queues of the other objects. *)
LEMMA Elsewhere ==
  ASSUME QInv, NEW t \in Tasklets, Step(t), NEW o \in Queued, o # On(t),
         NEW n \in Nat, NEW q, QueueIs(o, n, q)
  PROVE  QueueIs(o, n, q)'
<1>1. IInv /\ (pc[t] = "wake" => Suspended(walk[t], On(t)))
  BY DEF QInv, Resumable
<1>2. \A u \in Tasklets : Suspended(u, o)' <=> Suspended(u, o)
  <2>1. \A u \in Tasklets \ {t} : Suspended(u, o)' <=> Suspended(u, o)
    BY <1>1, OthersMove DEF Suspended
  <2>2. ~Suspended(t, o) /\ ~Suspended(t, o)'
    BY <1>1, SelfMoves DEF Suspended
  <2>3. QED
    BY <2>1, <2>2
<1>3. \A u \in Tasklets : \A op :
        /\ Waking(u, op, o)' <=> Waking(u, op, o)
        /\ Waking(u, op, o) => walk'[u] = walk[u]
  <2>1. \A u \in Tasklets \ {t} : \A op :
          /\ Waking(u, op, o)' <=> Waking(u, op, o)
          /\ Waking(u, op, o) => walk'[u] = walk[u]
    BY <1>1, OthersMove, StepMoves
  <2>2. \A op : ~Waking(t, op, o) /\ ~Waking(t, op, o)'
    BY <1>1, SelfMoves DEF Waking
  <2>3. QED
    BY <2>1, <2>2
<1>4. Leaving(o)' = Leaving(o)
  BY <1>3 DEF Leaving
<1>5. Members(o)' = Members(o)
  BY <1>2, <1>4 DEF Members
<1>6. \A u \in Members(o) : table'[u] = table[u]
  <2>1. \A u \in Members(o) : u \in Tasklets \ {t} /\ ~Suspended(u, On(t))
    BY DEF Members, Suspended
  <2>2. QED
    BY <2>1, DataStays
<1>7. wait_queue'[o] = wait_queue[o] /\ count'[o] = count[o]
  BY DataStays
<1>8. QED
  BY <1>3, <1>5, <1>6, <1>7, Untouched

-----------------------------------------------------------------------------
(* The queue of the object that t's call is made on, action by action.      *)

(* Steps that leave it as it is. *)
LEMMA OwnQueueStays ==
  ASSUME QInv, NEW t \in Tasklets, Step(t), NEW o \in Queued, o = On(t),
         NEW n \in Nat, NEW q, QueueIs(o, n, q),
         UNCHANGED << count, wait_queue, table >>,
         pc[t] # "wake", pc'[t] # "wake",
         pc[t] \in {"suspend", "stop", "stopped"} <=> pc'[t] \in {"suspend", "stop", "stopped"}
  PROVE  QueueIs(o, n, q)'
<1>1. IInv
  BY DEF QInv
<1>2. \A u \in Tasklets : Suspended(u, o)' <=> Suspended(u, o)
  BY <1>1, OthersMove, SelfMoves DEF Suspended
<1>3. \A u \in Tasklets : \A op :
        /\ Waking(u, op, o)' <=> Waking(u, op, o)
        /\ Waking(u, op, o) => walk'[u] = walk[u]
  <2>1. \A u \in Tasklets \ {t} : \A op :
          /\ Waking(u, op, o)' <=> Waking(u, op, o)
          /\ Waking(u, op, o) => walk'[u] = walk[u]
    BY <1>1, OthersMove, StepMoves
  <2>2. \A op : ~Waking(t, op, o) /\ ~Waking(t, op, o)'
    BY DEF Waking
  <2>3. QED
    BY <2>1, <2>2
<1>4. Leaving(o)' = Leaving(o)
  BY <1>3 DEF Leaving
<1>5. Members(o)' = Members(o)
  BY <1>2, <1>4 DEF Members
<1>6. QED
  BY <1>3, <1>5, Untouched

(* Whoever is in a section of a barrier or semaphore has its queue at rest. *)
LEMMA AtRest ==
  ASSUME IInv, NEW t \in Tasklets, pc[t] = "section", NEW o \in Queued, o = On(t)
  PROVE  /\ \A u \in Tasklets : \A op : ~Waking(u, op, o)
         /\ Leaving(o) = {} /\ ~Opening(o)
         /\ Members(o) = {u \in Tasklets : Suspended(u, o)}
         /\ t \notin Members(o)
<1>1. Inside(t)
  BY SyncAssumption DEF Inside, Queued
<1>2. \A u \in Tasklets : \A op : ~Waking(u, op, o)
  BY <1>1, Alone DEF Waking
<1>3. Leaving(o) = {}
  BY <1>2 DEF Leaving
<1>4. QED
  BY <1>2, <1>3 DEF Opening, Members, Suspended

(* A tasklet enters the queue behind the last one. *)
LEMMA EnterQueue ==
  ASSUME QInv, NEW t \in Tasklets, Step(t), pc[t] = "section", Enter(t),
         NEW o \in Queued, o = On(t), NEW n \in Nat, NEW q, QueueIs(o, n, q),
         o \in Sems => count[o] <= 0
  PROVE  \E m \in Nat : \E r : QueueIs(o, m, r)'
<1> DEFINE r == [k \in 1..(n + 1) |-> IF k = n + 1 THEN t ELSE q[k]]
<1>1. IInv /\ TypeOK
  BY DEF QInv, IInv
<1>2. /\ \A u \in Tasklets : \A op : ~Waking(u, op, o)
      /\ Leaving(o) = {} /\ ~Opening(o)
      /\ Members(o) = {u \in Tasklets : Suspended(u, o)}
      /\ t \notin Members(o)
  BY <1>1, AtRest
<1>3. pc'[t] = "suspend" /\ On(t)' = o
  BY <1>1, SelfMoves DEF Enter, TypeOK
<1>4. \A u \in Tasklets : \A op : ~Waking(u, op, o)'
  <2>1. \A u \in Tasklets \ {t} : \A op : ~Waking(u, op, o)'
    BY <1>1, <1>2, OthersMove
  <2>2. \A op : ~Waking(t, op, o)'
    BY <1>3 DEF Waking
  <2>3. QED
    BY <2>1, <2>2
<1>5. Leaving(o)' = {} /\ ~Opening(o)'
  BY <1>4 DEF Leaving, Opening
<1>6. \A u \in Tasklets : Suspended(u, o)' <=> Suspended(u, o) \/ u = t
  <2>1. \A u \in Tasklets \ {t} : Suspended(u, o)' <=> Suspended(u, o)
    BY <1>1, OthersMove
  <2>2. Suspended(t, o)'
    BY <1>3 DEF Suspended
  <2>3. QED
    BY <2>1, <2>2
<1>7. Members(o)' = Members(o) \cup {t}
  BY <1>2, <1>5, <1>6 DEF Members
<1>8. /\ q \in [1..n -> Tasklets]
      /\ \A j, k \in 1..n : q[j] = q[k] => j = k
      /\ Members(o) = {q[k] : k \in 1..n}
      /\ wait_queue[o] = IF n = 0 THEN Empty ELSE q[n]
      /\ \A k \in 1..(n - 1) : table[q[k]] = q[k + 1]
      /\ n # 0 => table[q[n]] = q[1]
      /\ o \in Barriers => count[o] + n = Size[o]
      /\ o \in Sems => n = IF count[o] < 0 THEN -count[o] ELSE 0
  BY <1>2 DEF QueueIs
<1>9. \A k \in 1..n : q[k] # t /\ q[k] \in Tasklets
  BY <1>2, <1>8
<1>10. /\ r \in [1..(n + 1) -> Tasklets]
       /\ r[n + 1] = t /\ \A k \in 1..n : r[k] = q[k]
  BY <1>9
<1>11. \A j, k \in 1..(n + 1) : r[j] = r[k] => j = k
  <2>1. \A k \in 1..(n + 1) : k = n + 1 \/ k \in 1..n
    OBVIOUS
  <2>2. QED
    BY <1>8, <1>9, <2>1
<1>12. Members(o)' = {r[k] : k \in 1..(n + 1)}
  <2>1. 1..(n + 1) = (1..n) \cup {n + 1}
    OBVIOUS
  <2>2. QED
    BY <1>7, <1>8, <1>10, <2>1
<1>13. table'[t] = r[1] /\ \A k \in 1..n : table'[r[k]] = r[k + 1]
  <2>1. CASE n = 0
    <3>1. table' = [table EXCEPT ![t] = t]
      BY <1>8, <2>1 DEF Enter, Enqueued
    <3>2. QED
      BY <1>1, <1>10, <2>1, <3>1 DEF TypeOK
  <2>2. CASE n # 0
    <3>1. q[n] \in Tasklets /\ q[n] # t /\ wait_queue[o] = q[n] /\ table[q[n]] = q[1]
          /\ q[n] # Empty
      BY <1>8, <1>9, <2>2, Numbers
    <3>2. table' = [table EXCEPT ![t] = q[1], ![q[n]] = t]
      BY <3>1 DEF Enter, Enqueued
    <3>3. table'[t] = q[1] /\ table'[q[n]] = t
      BY <1>1, <3>1, <3>2 DEF TypeOK
    <3>4. \A k \in 1..(n - 1) : table'[q[k]] = q[k + 1]
      <4>1. \A k \in 1..(n - 1) : k \in 1..n /\ q[k] # t /\ q[k] # q[n] /\ q[k] \in Tasklets
        BY <1>8, <1>9, <2>2
      <4>2. QED
        BY <1>1, <1>8, <3>2, <4>1 DEF TypeOK
    <3>5. \A k \in 1..n : k = n \/ (k \in 1..(n - 1) /\ k + 1 \in 1..n)
      OBVIOUS
    <3>6. 1 \in 1..n
      BY <2>2
    <3>7. QED
      BY <1>10, <3>3, <3>4, <3>5, <3>6
  <2>3. QED
    BY <2>1, <2>2
<1>14. wait_queue'[o] = t /\ count'[o] = count[o] - 1 /\ t # Empty
  BY <1>1, Numbers DEF Enter, TypeOK
<1>15. /\ o \in Barriers => count'[o] + (n + 1) = Size[o]
       /\ o \in Sems => n + 1 = IF count'[o] < 0 THEN -count'[o] ELSE 0
  <2>1. count[o] \in Int
    BY <1>1 DEF TypeOK
  <2>2. QED
    BY <1>8, <1>14, <2>1
<1>16. QueueIs(o, n + 1, r)'
  <2> HIDE DEF r
  <2>1. n + 1 # 0 /\ (n + 1) - 1 = n
    OBVIOUS
  <2>2. QED
    BY <1>4, <1>5, <1>10, <1>11, <1>12, <1>13, <1>14, <1>15, <2>1 DEF QueueIs
<1>17. QED
  BY <1>16

(* A unit is taken: nobody waited. *)
LEMMA SemTakeQueue ==
  ASSUME QInv, NEW t \in Tasklets, Step(t), SemTake(t),
         NEW o \in Queued, o = On(t), NEW n \in Nat, NEW q, QueueIs(o, n, q)
  PROVE  QueueIs(o, n, q)'
<1>1. IInv /\ TypeOK /\ pc[t] = "section" /\ o \in Sems
  BY CallMade, CallKinds DEF QInv, IInv, SemTake, In
<1>2. /\ \A u \in Tasklets : \A op : ~Waking(u, op, o)
      /\ Leaving(o) = {} /\ ~Opening(o)
      /\ Members(o) = {u \in Tasklets : Suspended(u, o)}
  BY <1>1, AtRest
<1>3. count[o] \in Int /\ count[o] >= 1 /\ count'[o] = count[o] - 1 /\ o \notin Barriers
      /\ UNCHANGED << wait_queue, table >> /\ pc'[t] = "release"
  BY <1>1, SyncAssumption DEF SemTake, TypeOK
<1>4. \A u \in Tasklets : \A op : ~Waking(u, op, o)'
  <2>1. \A u \in Tasklets \ {t} : \A op : ~Waking(u, op, o)'
    BY <1>1, <1>2, OthersMove
  <2>2. \A op : ~Waking(t, op, o)'
    BY <1>3 DEF Waking
  <2>3. QED
    BY <2>1, <2>2
<1>5. \A u \in Tasklets : Suspended(u, o)' <=> Suspended(u, o)
  <2>1. \A u \in Tasklets \ {t} : Suspended(u, o)' <=> Suspended(u, o)
    BY <1>1, OthersMove
  <2>2. ~Suspended(t, o) /\ ~Suspended(t, o)'
    BY <1>1, <1>3 DEF Suspended
  <2>3. QED
    BY <2>1, <2>2
<1>6. Members(o)' = Members(o) /\ ~Opening(o)'
  BY <1>2, <1>4, <1>5 DEF Members, Leaving, Opening
<1>7. n = 0
  BY <1>1, <1>2, <1>3 DEF QueueIs
<1>8. QED
  BY <1>1, <1>2, <1>3, <1>4, <1>6, <1>7 DEF QueueIs

(* sem_give: the first leaves the queue, if there is one. *)
LEMMA SemGiveQueue ==
  ASSUME QInv, NEW t \in Tasklets, Step(t), SemGive(t),
         NEW o \in Queued, o = On(t), NEW n \in Nat, NEW q, QueueIs(o, n, q)
  PROVE  \E m \in Nat : \E r : QueueIs(o, m, r)'
<1>1. IInv /\ TypeOK /\ pc[t] = "section" /\ o \in Sems /\ Op(t) = "sem_give"
  BY CallMade, CallKinds DEF QInv, IInv, SemGive, In
<1>2. /\ \A u \in Tasklets : \A op : ~Waking(u, op, o)
      /\ Leaving(o) = {} /\ ~Opening(o)
      /\ Members(o) = {u \in Tasklets : Suspended(u, o)}
      /\ t \notin Members(o)
  BY <1>1, AtRest
<1>3. /\ q \in [1..n -> Tasklets]
      /\ \A j, k \in 1..n : q[j] = q[k] => j = k
      /\ Members(o) = {q[k] : k \in 1..n}
      /\ wait_queue[o] = IF n = 0 THEN Empty ELSE q[n]
      /\ \A k \in 1..(n - 1) : table[q[k]] = q[k + 1]
      /\ n # 0 => table[q[n]] = q[1]
      /\ n = IF count[o] < 0 THEN -count[o] ELSE 0
  BY <1>1, <1>2 DEF QueueIs
<1>4. count[o] \in Int /\ count'[o] = count[o] + 1 /\ o \notin Barriers
  BY <1>1, SyncAssumption DEF SemGive, TypeOK
<1>5. On(t)' = o /\ Op(t)' = "sem_give" /\ pc'[t] \in {"release", "wake"}
  BY <1>1, SelfMoves DEF SemGive, TypeOK
<1>6. \A u \in Tasklets : Suspended(u, o)' <=> Suspended(u, o)
  <2>1. \A u \in Tasklets \ {t} : Suspended(u, o)' <=> Suspended(u, o)
    BY <1>1, OthersMove
  <2>2. ~Suspended(t, o) /\ ~Suspended(t, o)'
    BY <1>1, <1>5 DEF Suspended
  <2>3. QED
    BY <2>1, <2>2
<1>7. \A u \in Tasklets \ {t} : \A op : ~Waking(u, op, o)'
  BY <1>1, <1>2, OthersMove
<1>8. ~Opening(o)'
  BY <1>5, <1>7 DEF Opening, Waking
<1>9. \A u \in Tasklets : ~Waking(u, "barrier_wait", o)'
  BY <1>8 DEF Opening
<1>10. CASE n = 0
  <2>1. UNCHANGED << wait_queue, table >> /\ pc'[t] = "release"
    BY <1>1, <1>3, <1>10 DEF SemGive, TypeOK
  <2>2. ~Waking(t, "sem_give", o)'
    BY <2>1 DEF Waking
  <2>3. Leaving(o)' = {}
    BY <1>7, <2>2 DEF Leaving
  <2>4. Members(o)' = Members(o)
    BY <1>2, <1>6, <2>3 DEF Members
  <2>5. QueueIs(o, n, q)'
    BY <1>1, <1>3, <1>4, <1>8, <1>9, <1>10, <2>1, <2>4 DEF QueueIs
  <2>6. QED
    BY <2>5
<1>11. CASE n # 0
  <2> DEFINE r == [k \in 1..(n - 1) |-> q[k + 1]]
  <2>1. /\ n \in 1..n /\ 1 \in 1..n /\ wait_queue[o] = q[n] /\ table[q[n]] = q[1]
        /\ q[n] \in Tasklets /\ q[1] \in Tasklets /\ q[n] # Empty
    BY <1>3, <1>11, Numbers
  <2>2. /\ pc'[t] = "wake" /\ walk'[t] = q[1]
        /\ IF q[1] = q[n]
           THEN wait_queue' = [wait_queue EXCEPT ![o] = Empty] /\ table' = table
           ELSE table' = [table EXCEPT ![q[n]] = table[q[1]]] /\ wait_queue' = wait_queue
    BY <1>1, <2>1 DEF SemGive, TypeOK
  <2>3. Leaving(o)' = {q[1]}
    <3>1. Waking(t, "sem_give", o)'
      BY <1>5, <2>2 DEF Waking
    <3>2. QED
      BY <1>7, <2>2, <3>1 DEF Leaving
  <2>4. Members(o)' = Members(o) \ {q[1]}
    BY <1>2, <1>6, <2>3 DEF Members
  <2>5. \A k \in 1..(n - 1) : k + 1 \in 1..n /\ k \in 1..n /\ k + 1 # 1
    BY <1>11
  <2>6. r \in [1..(n - 1) -> Tasklets] /\ \A k \in 1..(n - 1) : r[k] = q[k + 1]
    BY <1>3, <2>5
  <2>7. \A j, k \in 1..(n - 1) : r[j] = r[k] => j = k
    <3>1. ASSUME NEW j \in 1..(n - 1), NEW k \in 1..(n - 1), r[j] = r[k] PROVE j = k
      <4>1. j + 1 = k + 1
        BY <1>3, <2>5, <2>6, <3>1
      <4>2. QED
        BY <4>1
    <3>2. QED
      BY <3>1
  <2>8. Members(o)' = {r[k] : k \in 1..(n - 1)}
    <3>1. \A x \in 1..n : x = 1 \/ (x - 1 \in 1..(n - 1) /\ (x - 1) + 1 = x)
      OBVIOUS
    <3>2. \A x \in 1..n : x # 1 => q[x] # q[1]
      BY <1>3, <2>1
    <3>3. {q[k] : k \in 1..n} \ {q[1]} = {q[k + 1] : k \in 1..(n - 1)}
      BY <2>5, <3>1, <3>2
    <3>4. {r[k] : k \in 1..(n - 1)} = {q[k + 1] : k \in 1..(n - 1)}
      BY <2>6
    <3>5. QED
      BY <1>3, <2>4, <3>3, <3>4
  <2>9. wait_queue'[o] = IF n - 1 = 0 THEN Empty ELSE r[n - 1]
    <3>1. CASE n = 1
      BY <1>1, <2>2, <3>1 DEF TypeOK
    <3>2. CASE n # 1
      <4>1. n - 1 \in 1..(n - 1) /\ (n - 1) + 1 = n
        BY <1>11, <3>2
      <4>2. q[1] # q[n]
        BY <1>3, <2>1, <3>2
      <4>3. QED
        BY <2>1, <2>2, <2>6, <4>1, <4>2
    <3>3. QED
      BY <3>1, <3>2
  <2>10. /\ \A k \in 1..((n - 1) - 1) : table'[r[k]] = r[k + 1]
         /\ n - 1 # 0 => table'[r[n - 1]] = r[1]
    <3>1. CASE n = 1
      BY <3>1
    <3>2. CASE n # 1
      <4>1. q[1] # q[n]
        BY <1>3, <2>1, <3>2
      <4>2. \A u \in Tasklets : table'[u] = IF u = q[n] THEN table[q[1]] ELSE table[u]
        BY <1>1, <2>2, <4>1 DEF TypeOK
      <4>3. n - 1 \in 1..(n - 1) /\ (n - 1) + 1 = n /\ 1 \in 1..(n - 1) /\ 1 + 1 \in 1..n
        BY <1>11, <3>2
      <4>4. table'[r[n - 1]] = r[1]
        BY <1>3, <2>1, <2>6, <4>2, <4>3
      <4>5. \A k \in 1..((n - 1) - 1) :
              /\ k \in 1..(n - 1) /\ k + 1 \in 1..(n - 1) /\ k + 1 # n /\ k + 1 \in 1..n
        BY <4>3
      <4>6. \A k \in 1..((n - 1) - 1) : q[k + 1] # q[n] /\ table[q[k + 1]] = q[(k + 1) + 1]
        BY <1>3, <2>1, <4>5
      <4>7. \A k \in 1..((n - 1) - 1) : table'[r[k]] = r[k + 1]
        BY <1>3, <2>6, <4>2, <4>5, <4>6
      <4>8. QED
        BY <4>4, <4>7
    <3>3. QED
      BY <3>1, <3>2
  <2>11. n - 1 \in Nat /\ n - 1 = IF count'[o] < 0 THEN -count'[o] ELSE 0
    BY <1>3, <1>4, <1>11
  <2>12. QueueIs(o, n - 1, r)'
    <3> HIDE DEF r
    <3>1. QED
      BY <1>4, <1>8, <1>9, <2>6, <2>7, <2>8, <2>9, <2>10, <2>11 DEF QueueIs
  <2>13. QED
    BY <2>11, <2>12
<1>12. QED
  BY <1>10, <1>11

(* The last tasklet to come finds the queue at rest, and begins with its    *)
(* first one. *)
LEMMA BarrierOpenQueue ==
  ASSUME QInv, NEW t \in Tasklets, Step(t), BarrierOpen(t),
         NEW o \in Queued, o = On(t), NEW n \in Nat, NEW q, QueueIs(o, n, q)
  PROVE  QueueIs(o, n, q)'
<1>1. IInv /\ TypeOK /\ pc[t] = "section" /\ Op(t) = "barrier_wait" /\ o \in Barriers
  BY CallMade, CallKinds DEF QInv, IInv, BarrierOpen, In
<1>2. /\ \A u \in Tasklets : \A op : ~Waking(u, op, o)
      /\ Leaving(o) = {} /\ ~Opening(o)
      /\ Members(o) = {u \in Tasklets : Suspended(u, o)}
      /\ t \notin Members(o)
  BY <1>1, AtRest
<1>3. o \notin Sems /\ UNCHANGED << count, wait_queue, table >>
  BY <1>1, SyncAssumption DEF BarrierOpen
<1>4. On(t)' = o /\ Op(t)' = "barrier_wait" /\ pc'[t] \in {"release", "wake"}
  BY <1>1, SelfMoves DEF BarrierOpen, TypeOK
<1>5. \A u \in Tasklets : Suspended(u, o)' <=> Suspended(u, o)
  <2>1. \A u \in Tasklets \ {t} : Suspended(u, o)' <=> Suspended(u, o)
    BY <1>1, OthersMove
  <2>2. ~Suspended(t, o) /\ ~Suspended(t, o)'
    BY <1>1, <1>4 DEF Suspended
  <2>3. QED
    BY <2>1, <2>2
<1>6. \A u \in Tasklets \ {t} : \A op : ~Waking(u, op, o)'
  BY <1>1, <1>2, OthersMove
<1>7. Leaving(o)' = {}
  <2>1. ~Waking(t, "sem_give", o)'
    BY <1>4 DEF Waking
  <2>2. QED
    BY <1>6, <2>1 DEF Leaving
<1>8. Members(o)' = Members(o)
  BY <1>2, <1>5, <1>7 DEF Members
<1>9. Waking(t, "barrier_wait", o)' => n # 0 /\ walk'[t] = q[1]
  <2>1. SUFFICES ASSUME pc'[t] = "wake" PROVE n # 0 /\ walk'[t] = q[1]
    BY DEF Waking
  <2>2. wait_queue[o] # Empty
    BY <1>1, <2>1 DEF BarrierOpen, TypeOK
  <2>3. n # 0 /\ wait_queue[o] = q[n] /\ table[q[n]] = q[1]
    BY <1>2, <2>2, LastIsMember DEF QueueIs
  <2>4. QED
    BY <1>1, <2>2, <2>3 DEF BarrierOpen, TypeOK
<1>10. QED
  BY <1>2, <1>3, <1>6, <1>8, <1>9 DEF QueueIs

(* Whoever resumes from object o is alone in doing so. *)
LEMMA WakesAlone ==
  ASSUME QInv, NEW t \in Tasklets, Step(t), pc[t] = "wake", NEW o \in Queued, o = On(t)
  PROVE  /\ \A u \in Tasklets \ {t} : \A op : ~Waking(u, op, o) /\ ~Waking(u, op, o)'
         /\ \A u \in Tasklets : Suspended(u, o)' <=> Suspended(u, o) /\ u # walk[t]
         /\ walk[t] \in Tasklets \ {t} /\ Suspended(walk[t], o)
<1>1. IInv /\ TypeOK /\ Inside(t)
  BY SyncAssumption DEF QInv, IInv, Inside, Queued
<1>2. Suspended(walk[t], o) /\ walk[t] \in Tasklets \ {t}
  BY <1>1 DEF QInv, Resumable, Suspended, TypeOK
<1>3. \A u \in Tasklets \ {t} : \A op : ~Waking(u, op, o)
  BY <1>1, Alone DEF Waking
<1>4. \A u \in Tasklets \ {t} : \A op : ~Waking(u, op, o)'
  BY <1>1, <1>3, OthersMove
<1>5. ~Suspended(t, o) /\ ~Suspended(t, o)'
  <2>1. pc'[t] \notin {"suspend", "stop", "stopped"}
    <3>1. WakeNext(t) \/ WakeLast(t) \/ WakeTaker(t) \/ WakePartner(t)
      BY DEF Step, Call, Acquire, Locked, NotLocked, Release, Suspend, Stop, BarrierEnter,
             BarrierOpen, SemEnter, SemTake, SemGive, HandshakeFirst, HandshakeSecond,
             HandshakeRefused, Refuse, In
    <3>2. QED
      BY <1>1, <1>2, <3>1 DEF WakeNext, WakeLast, WakeTaker, WakePartner, Resume, TypeOK
  <2>2. QED
    BY <2>1 DEF Suspended
<1>6. \A u \in Tasklets \ {t} : Suspended(u, o)' <=> Suspended(u, o) /\ u # walk[t]
  BY <1>1, OthersMove
<1>7. QED
  BY <1>2, <1>3, <1>4, <1>5, <1>6

(* barrier_wait goes on to the second of the queue. *)
LEMMA WakeNextQueue ==
  ASSUME QInv, NEW t \in Tasklets, Step(t), WakeNext(t),
         NEW o \in Queued, o = On(t), NEW n \in Nat, NEW q, QueueIs(o, n, q)
  PROVE  \E m \in Nat : \E r : QueueIs(o, m, r)'
<1> DEFINE r == [k \in 1..(n - 1) |-> q[k + 1]]
<1>1. IInv /\ TypeOK /\ pc[t] = "wake" /\ Op(t) = "barrier_wait" /\ o \in Barriers
  BY CallMade, CallKinds DEF QInv, IInv, WakeNext, Resume
<1>2. /\ \A u \in Tasklets \ {t} : \A op : ~Waking(u, op, o) /\ ~Waking(u, op, o)'
      /\ \A u \in Tasklets : Suspended(u, o)' <=> Suspended(u, o) /\ u # walk[t]
      /\ walk[t] \in Tasklets \ {t}
  BY <1>1, WakesAlone
<1>3. Waking(t, "barrier_wait", o) /\ ~Waking(t, "sem_give", o)
  BY <1>1 DEF Waking
<1>4. /\ q \in [1..n -> Tasklets]
      /\ \A j, k \in 1..n : q[j] = q[k] => j = k
      /\ Members(o) = {q[k] : k \in 1..n}
      /\ wait_queue[o] = IF n = 0 THEN Empty ELSE q[n]
      /\ \A k \in 1..(n - 1) : table[q[k]] = q[k + 1]
      /\ n # 0 /\ walk[t] = q[1]
  BY <1>3 DEF QueueIs
<1>5. /\ UNCHANGED << count, wait_queue, table >> /\ pc'[t] = "wake"
      /\ walk'[t] = table[walk[t]] /\ walk[t] # wait_queue[o]
  BY <1>1, <1>2 DEF WakeNext, Resume, TypeOK
<1>6. On(t)' = o /\ Op(t)' = "barrier_wait"
  BY <1>1, <1>5, SelfMoves
<1>7. n \in 1..n /\ 1 \in 1..n /\ n # 1 /\ 1 \in 1..(n - 1) /\ n - 1 \in 1..(n - 1)
  BY <1>4, <1>5
<1>8. walk'[t] = q[2] /\ 2 = 1 + 1
  BY <1>4, <1>5, <1>7
<1>9. Leaving(o) = {} /\ Leaving(o)' = {}
  <2>1. ~Waking(t, "sem_give", o)'
    BY <1>6 DEF Waking
  <2>2. QED
    BY <1>2, <1>3, <2>1 DEF Leaving
<1>10. Members(o)' = Members(o) \ {q[1]}
  BY <1>2, <1>4, <1>9 DEF Members
<1>11. \A k \in 1..(n - 1) : k + 1 \in 1..n /\ k \in 1..n /\ k + 1 # 1
  BY <1>7
<1>12. r \in [1..(n - 1) -> Tasklets] /\ \A k \in 1..(n - 1) : r[k] = q[k + 1]
  BY <1>4, <1>11
<1>13. \A j, k \in 1..(n - 1) : r[j] = r[k] => j = k
  <2>1. ASSUME NEW j \in 1..(n - 1), NEW k \in 1..(n - 1), r[j] = r[k] PROVE j = k
    <3>1. j + 1 = k + 1
      BY <1>4, <1>11, <1>12, <2>1
    <3>2. QED
      BY <3>1
  <2>2. QED
    BY <2>1
<1>14. Members(o)' = {r[k] : k \in 1..(n - 1)}
  <2>1. \A x \in 1..n : x = 1 \/ (x - 1 \in 1..(n - 1) /\ (x - 1) + 1 = x)
    OBVIOUS
  <2>2. \A x \in 1..n : x # 1 => q[x] # q[1]
    BY <1>4, <1>7
  <2>3. {q[k] : k \in 1..n} \ {q[1]} = {q[k + 1] : k \in 1..(n - 1)}
    BY <1>11, <2>1, <2>2
  <2>4. {r[k] : k \in 1..(n - 1)} = {q[k + 1] : k \in 1..(n - 1)}
    BY <1>12
  <2>5. QED
    BY <1>4, <1>10, <2>3, <2>4
<1>15. n - 1 \in Nat /\ n - 1 # 0 /\ wait_queue'[o] = r[n - 1]
  <2>1. (n - 1) + 1 = n /\ n - 1 # 0 /\ n - 1 \in Nat
    BY <1>7
  <2>2. QED
    BY <1>4, <1>5, <1>7, <1>12, <2>1
<1>16. \A k \in 1..((n - 1) - 1) : table'[r[k]] = r[k + 1]
  <2>1. \A k \in 1..((n - 1) - 1) : k \in 1..(n - 1) /\ k + 1 \in 1..(n - 1)
    BY <1>7
  <2>2. QED
    BY <1>4, <1>5, <1>12, <2>1
<1>17. Opening(o)'
  BY <1>5, <1>6 DEF Opening, Waking
<1>18. \A u \in Tasklets : Waking(u, "barrier_wait", o)' => walk'[u] = r[1]
  BY <1>2, <1>7, <1>8, <1>12
<1>19. QueueIs(o, n - 1, r)'
  <2> HIDE DEF r
  <2>1. o \notin Sems
    BY <1>1, SyncAssumption
  <2>2. QED
    BY <1>12, <1>13, <1>14, <1>15, <1>16, <1>17, <1>18, <2>1 DEF QueueIs
<1>20. QED
  BY <1>15, <1>19

(* ... and, after the last, opens the next round with an empty queue. *)
LEMMA WakeLastQueue ==
  ASSUME QInv, NEW t \in Tasklets, Step(t), WakeLast(t),
         NEW o \in Queued, o = On(t), NEW n \in Nat, NEW q, QueueIs(o, n, q)
  PROVE  \E m \in Nat : \E r : QueueIs(o, m, r)'
<1>1. IInv /\ TypeOK /\ pc[t] = "wake" /\ Op(t) = "barrier_wait" /\ o \in Barriers
  BY CallMade, CallKinds DEF QInv, IInv, WakeLast, Resume
<1>2. /\ \A u \in Tasklets \ {t} : \A op : ~Waking(u, op, o) /\ ~Waking(u, op, o)'
      /\ \A u \in Tasklets : Suspended(u, o)' <=> Suspended(u, o) /\ u # walk[t]
      /\ walk[t] \in Tasklets \ {t}
  BY <1>1, WakesAlone
<1>3. Waking(t, "barrier_wait", o) /\ ~Waking(t, "sem_give", o)
  BY <1>1 DEF Waking
<1>4. /\ \A j, k \in 1..n : q[j] = q[k] => j = k
      /\ Members(o) = {q[k] : k \in 1..n}
      /\ n # 0 /\ walk[t] = q[1] /\ wait_queue[o] = q[n]
  BY <1>3 DEF QueueIs
<1>5. /\ wait_queue'[o] = Empty /\ count'[o] = Size[o] /\ pc'[t] = "release"
      /\ walk[t] = wait_queue[o]
  BY <1>1, <1>2 DEF WakeLast, Resume, Reopened, TypeOK
<1>6. n = 1
  <2>1. n \in 1..n /\ 1 \in 1..n
    BY <1>4
  <2>2. QED
    BY <1>4, <1>5, <2>1
<1>7. \A u \in Tasklets : \A op : ~Waking(u, op, o)'
  <2>1. \A op : ~Waking(t, op, o)'
    BY <1>5 DEF Waking
  <2>2. QED
    BY <1>2, <2>1
<1>8. Leaving(o) = {} /\ Leaving(o)' = {} /\ ~Opening(o)'
  BY <1>2, <1>3, <1>7 DEF Leaving, Opening
<1>9. Members(o)' = {}
  BY <1>2, <1>4, <1>6, <1>8 DEF Members
<1>10. Size[o] \in Int /\ o \notin Sems
  BY <1>1, SyncAssumption
<1>11. QueueIs(o, 0, [k \in {} |-> 0])'
  BY <1>5, <1>7, <1>8, <1>9, <1>10 DEF QueueIs
<1>12. QED
  BY <1>11

(* sem_give resumes whom it has taken off the queue. *)
LEMMA WakeTakerQueue ==
  ASSUME QInv, NEW t \in Tasklets, Step(t), WakeTaker(t),
         NEW o \in Queued, o = On(t), NEW n \in Nat, NEW q, QueueIs(o, n, q)
  PROVE  QueueIs(o, n, q)'
<1>1. IInv /\ TypeOK /\ pc[t] = "wake" /\ Op(t) = "sem_give"
  BY DEF QInv, IInv, WakeTaker, Resume
<1>2. /\ \A u \in Tasklets \ {t} : \A op : ~Waking(u, op, o) /\ ~Waking(u, op, o)'
      /\ \A u \in Tasklets : Suspended(u, o)' <=> Suspended(u, o) /\ u # walk[t]
      /\ walk[t] \in Tasklets \ {t}
  BY <1>1, WakesAlone
<1>3. Waking(t, "sem_give", o) /\ ~Waking(t, "barrier_wait", o)
  BY <1>1 DEF Waking
<1>4. /\ UNCHANGED << count, wait_queue, table >> /\ pc'[t] = "release"
  BY <1>1, <1>2 DEF WakeTaker, Resume, TypeOK
<1>5. \A u \in Tasklets : \A op : ~Waking(u, op, o)'
  <2>1. \A op : ~Waking(t, op, o)'
    BY <1>4 DEF Waking
  <2>2. QED
    BY <1>2, <2>1
<1>6. Leaving(o) = {walk[t]} /\ Leaving(o)' = {}
  BY <1>2, <1>3, <1>5 DEF Leaving
<1>7. Members(o)' = Members(o)
  BY <1>2, <1>6 DEF Members
<1>8. QED
  BY <1>2, <1>3, <1>4, <1>5, <1>7, Untouched

(* All the queues after a step. *)
LEMMA QueuesStep ==
  ASSUME QInv, NEW t \in Tasklets, Step(t)
  PROVE  Queues'
<1>1. SUFFICES ASSUME NEW o \in Queued PROVE \E n \in Nat : \E q : QueueIs(o, n, q)'
  BY DEF Queues
<1>2. PICK n \in Nat : \E q : QueueIs(o, n, q)
  BY DEF QInv, Queues
<1>3. PICK q : QueueIs(o, n, q)
  BY <1>2
<1>4. CASE o # On(t)
  BY <1>3, <1>4, Elsewhere
<1>5. CASE o = On(t)
  <2>1. IInv /\ TypeOK
    BY DEF QInv, IInv
  <2>2. On(t) \notin Mutexes /\ On(t) \notin Tasklets
    BY <1>5, SyncAssumption DEF Queued
  <2>3. ASSUME pc[t] # "caller"
        PROVE  Op(t) \in {"barrier_wait", "sem_take", "sem_give"}
    <3>1. On(t) \in Barriers \/ On(t) \in Sems
      BY <1>5 DEF Queued
    <3>2. QED
      BY <2>1, <2>3, <3>1, CallMade, CallKinds
  <2>4. ASSUME UNCHANGED << count, wait_queue, table >>, pc[t] # "wake", pc'[t] # "wake",
               pc[t] \in {"suspend", "stop", "stopped"}
                 <=> pc'[t] \in {"suspend", "stop", "stopped"}
        PROVE  QueueIs(o, n, q)'
    BY <1>3, <1>5, <2>4, OwnQueueStays
  <2>5. CASE Call(t) \/ Acquire(t) \/ Release(t) \/ Suspend(t) \/ Stop(t)
    BY <2>1, <2>4, <2>5 DEF Call, Acquire, Release, Suspend, Stop, TypeOK
  <2>6. ~Locked(t) /\ ~NotLocked(t) /\ ~WakePartner(t)
    BY <2>3 DEF Locked, NotLocked, In, WakePartner, Resume
  <2>7. ~HandshakeFirst(t) /\ ~HandshakeSecond(t) /\ ~HandshakeRefused(t)
    BY <2>3 DEF HandshakeFirst, HandshakeSecond, HandshakeRefused, In
  <2>8. CASE Refuse(t)
    BY <2>1, <2>4, <2>8 DEF Refuse, TypeOK
  <2>9. CASE BarrierEnter(t)
    <3>1. pc[t] = "section" /\ Enter(t) /\ o \notin Sems
      <4>1. pc[t] = "section" /\ Op(t) = "barrier_wait" /\ Enter(t)
        BY <2>9 DEF BarrierEnter, In
      <4>2. QED
        BY <1>5, <2>1, <4>1, CallMade, CallKinds
    <3>2. QED
      BY <1>3, <1>5, <3>1, EnterQueue
  <2>10. CASE SemEnter(t)
    <3>1. pc[t] = "section" /\ Enter(t) /\ count[o] - 1 < 0
      BY <1>5, <2>10 DEF SemEnter, In
    <3>2. count[o] <= 0
      BY <2>1, <3>1 DEF TypeOK
    <3>3. QED
      BY <1>3, <1>5, <3>1, <3>2, EnterQueue
  <2>11. CASE BarrierOpen(t)
    BY <1>3, <1>5, <2>11, BarrierOpenQueue
  <2>12. CASE SemTake(t)
    BY <1>3, <1>5, <2>12, SemTakeQueue
  <2>13. CASE SemGive(t)
    BY <1>3, <1>5, <2>13, SemGiveQueue
  <2>14. CASE WakeNext(t)
    BY <1>3, <1>5, <2>14, WakeNextQueue
  <2>15. CASE WakeLast(t)
    BY <1>3, <1>5, <2>15, WakeLastQueue
  <2>16. CASE WakeTaker(t)
    BY <1>3, <1>5, <2>16, WakeTakerQueue
  <2>17. QED
    BY <2>5, <2>6, <2>7, <2>8, <2>9, <2>10, <2>11, <2>12, <2>13, <2>14, <2>15, <2>16 DEF Step
<1>6. QED
  BY <1>4, <1>5

-----------------------------------------------------------------------------
(* Whoever is suspended stays so until it is resumed. *)
LEMMA StaysSuspended ==
  ASSUME QInv, NEW t \in Tasklets, Step(t), NEW s \in Tasklets, NEW o, Suspended(s, o),
         ~(pc[t] = "wake" /\ s = walk[t])
  PROVE  Suspended(s, o)'
<1>1. IInv /\ TypeOK
  BY DEF QInv, IInv
<1>2. CASE s # t
  BY <1>1, <1>2, OthersMove
<1>3. CASE s = t
  <2>1. pc[t] \in {"suspend", "stop", "stopped"} /\ On(t) = o
    BY <1>3 DEF Suspended
  <2>2. Suspend(t) \/ Stop(t)
    BY <2>1 DEF Step, Call, Acquire, Locked, NotLocked, Release, Suspend, Stop, BarrierEnter,
         BarrierOpen, SemEnter, SemTake, SemGive, HandshakeFirst, HandshakeSecond,
         HandshakeRefused, Refuse, WakeNext, WakeLast, WakeTaker, WakePartner, Resume, In
  <2>3. pc'[t] \in {"stop", "stopped"}
    BY <1>1, <2>2 DEF Suspend, Stop, TypeOK
  <2>4. QED
    BY <1>1, <1>3, <2>1, <2>3, SelfMoves DEF Suspended
<1>4. QED
  BY <1>2, <1>3

(* A step resumes whoever its own object's section has chosen. *)
LEMMA WakerInside ==
  ASSUME QInv, NEW t \in Tasklets, Step(t), pc[t] = "wake"
  PROVE  Inside(t) /\ Suspended(walk[t], On(t)) /\ walk[t] \in Tasklets
<1>1. IInv /\ TypeOK
  BY DEF QInv, IInv
<1>2. Op(t) \in {"barrier_wait", "sem_give", "handshake_notify", "handshake_wait_for"}
  <2>1. WakeNext(t) \/ WakeLast(t) \/ WakeTaker(t) \/ WakePartner(t)
    BY DEF Step, Call, Acquire, Locked, NotLocked, Release, Suspend, Stop, BarrierEnter,
           BarrierOpen, SemEnter, SemTake, SemGive, HandshakeFirst, HandshakeSecond,
           HandshakeRefused, Refuse, In
  <2>2. QED
    BY <2>1 DEF WakeNext, WakeLast, WakeTaker, WakePartner
<1>3. On(t) \notin Mutexes
  BY <1>1, <1>2, CallMade, CallKinds
<1>4. QED
  BY <1>1, <1>3 DEF Inside, QInv, Resumable, TypeOK

(* The cells of the handshakes are written in their sections only. *)
LEMMA CellsStay ==
  ASSUME QInv, NEW t \in Tasklets, Step(t), NEW n \in Tasklets, shake'[n] # shake[n]
  PROVE  /\ n = On(t) /\ Inside(t)
         /\ \/ HandshakeFirst(t) /\ shake'[n] = t
            \/ WakePartner(t) /\ shake'[n] = Empty
<1>1. IInv /\ TypeOK
  BY DEF QInv, IInv
<1>2. HandshakeFirst(t) \/ WakePartner(t)
  BY DEF Step, Call, Acquire, Locked, NotLocked, Release, Suspend, Stop, BarrierEnter, Enter,
         BarrierOpen, SemEnter, SemTake, SemGive, HandshakeSecond,
         HandshakeRefused, Refuse, WakeNext, WakeLast, WakeTaker
<1>3. Op(t) \in {"handshake_notify", "handshake_wait_for"} /\ pc[t] \in {"section", "wake"}
  BY <1>2 DEF HandshakeFirst, In, WakePartner, Resume
<1>4. Inside(t)
  BY <1>1, <1>3, CallMade, CallKinds, SyncAssumption DEF Inside
<1>5. n = On(t)
  BY <1>1, <1>2 DEF HandshakeFirst, WakePartner, TypeOK
<1>6. QED
  BY <1>1, <1>2, <1>4, <1>5 DEF HandshakeFirst, WakePartner, TypeOK

LEMMA ShakenStep ==
  ASSUME QInv, NEW t \in Tasklets, Step(t)
  PROVE  Shaken'
<1>1. IInv /\ TypeOK
  BY DEF QInv, IInv
<1>2. SUFFICES ASSUME NEW n \in Tasklets, NEW s \in Tasklets, shake'[n] = s
               PROVE  Suspended(s, n)'
  BY DEF Shaken
<1>3. CASE shake'[n] # shake[n]
  <2>1. n = On(t) /\ HandshakeFirst(t) /\ s = t
    BY <1>2, <1>3, CellsStay, Numbers
  <2>2. pc'[t] = "suspend"
    BY <1>1, <2>1 DEF HandshakeFirst, TypeOK
  <2>3. On(t)' = On(t)
    BY <1>1, <2>2, SelfMoves
  <2>4. QED
    BY <2>1, <2>2, <2>3 DEF Suspended
<1>4. CASE shake'[n] = shake[n]
  <2>2. Suspended(s, n)
    BY <1>2, <1>4 DEF QInv, Shaken
  <2>3. ~(pc[t] = "wake" /\ s = walk[t])
    <3>1. SUFFICES ASSUME pc[t] = "wake", s = walk[t] PROVE FALSE
      OBVIOUS
    <3>2. On(t) = n
      BY <2>2, <3>1, WakerInside DEF Suspended
    <3>3. WakePartner(t)
      <4>1. Op(t) \in {"handshake_notify", "handshake_wait_for"}
        BY <1>1, <3>1, <3>2, CallMade, CallKinds
      <4>2. QED
        BY <3>1, <4>1 DEF Step, Call, Acquire, Locked, NotLocked, Release, Suspend, Stop,
           BarrierEnter, BarrierOpen, SemEnter, SemTake, SemGive, HandshakeFirst,
           HandshakeSecond, HandshakeRefused, Refuse, In, WakeNext, WakeLast, WakeTaker
    <3>4. shake'[n] = Empty
      BY <1>1, <3>2, <3>3 DEF WakePartner, TypeOK
    <3>5. QED
      BY <1>2, <3>4, Numbers
  <2>4. QED
    BY <2>2, <2>3, StaysSuspended
<1>5. QED
  BY <1>3, <1>4

LEMMA ResumableStep ==
  ASSUME QInv, NEW t \in Tasklets, Step(t), Queues'
  PROVE  Resumable'
<1>1. IInv /\ TypeOK
  BY DEF QInv, IInv
<1>2. SUFFICES ASSUME NEW u \in Tasklets, pc'[u] = "wake", NEW s \in Tasklets, s = walk'[u],
                      NEW o, o = On(u)'
               PROVE  Suspended(s, o)' /\ (o \in Tasklets => s = shake'[o])
  <2>1. walk' \in [Tasklets -> Tasklets]
    BY <1>1, TypeStep DEF QInv, TypeOK
  <2>2. QED
    BY <2>1 DEF Resumable, Suspended, On
<1>3. CASE u # t
  <2>1. pc[u] = "wake" /\ s = walk[u] /\ o = On(u)
    BY <1>1, <1>2, <1>3, StepMoves DEF On
  <2>2. Suspended(s, o) /\ (o \in Tasklets => s = shake[o])
    BY <2>1 DEF QInv, Resumable
  <2>3. ~Inside(t) \/ On(t) # o
    BY <1>1, <1>3, <2>1, Alone
  <2>4. ~(pc[t] = "wake" /\ s = walk[t])
    BY <2>2, <2>3, WakerInside DEF Suspended
  <2>5. Suspended(s, o)'
    BY <2>2, <2>4, StaysSuspended
  <2>6. o \in Tasklets => shake'[o] = shake[o]
    BY <2>3, CellsStay
  <2>7. QED
    BY <2>2, <2>5, <2>6
<1>4. CASE u = t
  <2>1. o = On(t) /\ Op(t)' = Op(t)
    BY <1>1, <1>2, <1>4, SelfMoves
  <2>2. BarrierOpen(t) \/ SemGive(t) \/ HandshakeSecond(t) \/ WakeNext(t)
    BY <1>1, <1>2, <1>4 DEF TypeOK, Step, Call, Acquire, Locked, NotLocked, Release, Suspend,
      Stop, BarrierEnter, Enter, SemEnter, SemTake, HandshakeFirst, HandshakeRefused, Refuse,
      WakeLast, WakeTaker, WakePartner
  <2>3. pc[t] # "caller"
    BY <2>2 DEF BarrierOpen, SemGive, HandshakeSecond, WakeNext, Resume, In
  <2>4. CASE BarrierOpen(t) \/ WakeNext(t)
    <3>1. Op(t) = "barrier_wait"
      BY <2>4 DEF BarrierOpen, WakeNext, In
    <3>2. o \in Barriers /\ o \in Queued /\ o \notin Tasklets
      BY <1>1, <2>1, <2>3, <3>1, CallMade, CallKinds, SyncAssumption DEF Queued
    <3>3. PICK n \in Nat : (\E q : QueueIs(o, n, q))'
      BY <3>2 DEF Queues
    <3>4. PICK q : QueueIs(o, n, q)'
      BY <3>3
    <3>5. n # 0 /\ s = q[1]
      <4>1. Waking(t, "barrier_wait", o)'
        BY <1>2, <1>4, <2>1, <3>1 DEF Waking
      <4>2. QED
        BY <1>2, <1>4, <3>4, <4>1 DEF QueueIs
    <3>6. Members(o)' = {q[k] : k \in 1..n}
      BY <3>4 DEF QueueIs
    <3>7. s \in Members(o)'
      <4>1. 1 \in 1..n
        BY <3>5
      <4>2. QED
        BY <3>5, <3>6, <4>1
    <3>8. Suspended(s, o)'
      BY <3>7 DEF Members
    <3>9. QED
      BY <3>2, <3>8
  <2>5. CASE SemGive(t)
    <3>1. Op(t) = "sem_give" /\ pc[t] = "section"
      BY <2>5 DEF SemGive, In
    <3>2. o \in Queued /\ o \notin Tasklets
      BY <1>1, <2>1, <2>3, <3>1, CallMade, CallKinds, SyncAssumption DEF Queued
    <3>3. PICK n \in Nat : \E q : QueueIs(o, n, q)
      BY <3>2 DEF QInv, Queues
    <3>4. PICK q : QueueIs(o, n, q)
      BY <3>3
    <3>5. wait_queue[o] # Empty /\ s = table[wait_queue[o]]
      BY <1>1, <1>2, <1>4, <2>1, <2>5 DEF SemGive, TypeOK
    <3>6. n # 0 /\ s = q[1]
      <4>1. ~Opening(o)
        BY <1>1, <2>1, <3>1, <3>2, AtRest
      <4>2. QED
        BY <3>4, <3>5, <4>1, LastIsMember DEF QueueIs
    <3>7. s \in Members(o)
      <4>1. 1 \in 1..n
        BY <3>6
      <4>2. QED
        BY <3>4, <3>6, <4>1 DEF QueueIs
    <3>8. Suspended(s, o)'
      BY <3>1, <3>7, StaysSuspended DEF Members
    <3>9. QED
      BY <3>2, <3>8
  <2>6. CASE HandshakeSecond(t)
    <3>1. Op(t) \in {"handshake_notify", "handshake_wait_for"} /\ pc[t] = "section"
      BY <2>6 DEF HandshakeSecond, In
    <3>2. o \in Tasklets
      BY <1>1, <2>1, <2>3, <3>1, CallMade, CallKinds
    <3>3. s = shake[o] /\ shake' = shake
      BY <1>1, <1>2, <1>4, <2>1, <2>6 DEF HandshakeSecond, TypeOK
    <3>4. Suspended(s, o)
      BY <3>2, <3>3 DEF QInv, Shaken
    <3>5. QED
      BY <3>1, <3>3, <3>4, StaysSuspended
  <2>7. QED
    BY <2>2, <2>4, <2>5, <2>6
<1>5. QED
  BY <1>3, <1>4

LEMMA InitQueues == Init => QInv
<1> SUFFICES ASSUME Init PROVE QInv
  OBVIOUS
<1>1. IInv
  BY InitInvariant
<1>2. \A t \in Tasklets : \A o : ~Suspended(t, o)
  BY DEF Init, Suspended
<1>3. \A t \in Tasklets : \A op, o : ~Waking(t, op, o)
  BY DEF Init, Waking
<1>4. Queues
  <2>1. SUFFICES ASSUME NEW o \in Queued PROVE QueueIs(o, 0, [k \in {} |-> 0])
    BY DEF Queues
  <2>2. Members(o) = {} /\ ~Opening(o)
    BY <1>2, <1>3 DEF Members, Opening
  <2>3. wait_queue[o] = Empty
    BY DEF Init
  <2>4. o \in Barriers => o \notin Sems /\ count[o] = Size[o] /\ Size[o] \in Int
    BY SyncAssumption DEF Init, Queued
  <2>5. o \in Sems => o \notin Barriers /\ count[o] \in Int /\ ~(count[o] < 0)
    BY SyncAssumption DEF Init, Queued
  <2>6. QED
    BY <1>3, <2>2, <2>3, <2>4, <2>5 DEF QueueIs
<1>5. Resumable /\ Shaken
  BY Numbers DEF Init, Resumable, Shaken
<1>6. QED
  BY <1>1, <1>4, <1>5 DEF QInv

LEMMA InductiveQueues == QInv /\ [Next]_vars => QInv'
<1> SUFFICES ASSUME QInv, [Next]_vars PROVE QInv'
  OBVIOUS
<1>1. IInv'
  BY Inductive DEF QInv
<1>2. ASSUME NEW t \in Tasklets, Step(t) PROVE QInv'
  BY <1>1, <1>2, QueuesStep, ResumableStep, ShakenStep DEF QInv
<1>3. CASE UNCHANGED vars
  <2>1. \A o, n, q : QueueIs(o, n, q)' <=> QueueIs(o, n, q)
    BY <1>3 DEF vars, QueueIs, Members, Leaving, Opening, Suspended, Waking, Op, On
  <2>2. Queues'
    BY <2>1 DEF QInv, Queues
  <2>3. Resumable' /\ Shaken'
    BY <1>3 DEF vars, QInv, Resumable, Shaken, Suspended, On
  <2>4. QED
    BY <1>1, <2>2, <2>3 DEF QInv
<1>4. QED
  BY <1>2, <1>3 DEF Next, Halted

LEMMA AlwaysQInv == Spec => []QInv
BY InitQueues, InductiveQueues, PTL DEF Spec

-----------------------------------------------------------------------------
(* Induction over the numbers, from their order being well founded. *)
LEMMA Smallest ==
  ASSUME NEW T \in SUBSET Nat, T # {}
  PROVE  \E x \in T : \A y \in T : ~(y < x)
<1> DEFINE Less == {ss \in Nat \X Nat : ss[1] < ss[2]}
<1>1. IsWellFoundedOn(Less, Nat)
  BY NatLessThanWellFounded DEF OpToRel
<1>2. \E x \in T : \A y \in T : <<y, x>> \notin Less
  <2> HIDE DEF Less
  <2>1. QED
    BY <1>1, WFMin
<1>3. QED
  BY <1>2

LEMMA EverySetOfNumbers ==
  ASSUME NEW S \in SUBSET Nat, 0 \in S, \A n \in S : n + 1 \in S
  PROVE  S = Nat
<1>1. SUFFICES ASSUME Nat \ S # {} PROVE FALSE
  OBVIOUS
<1>2. PICK x \in Nat \ S : \A y \in Nat \ S : ~(y < x)
  BY <1>1, Smallest
<1>3. x # 0 /\ x - 1 \in Nat /\ x - 1 < x
  BY <1>2
<1>4. x - 1 \in S /\ (x - 1) + 1 = x
  BY <1>2, <1>3
<1>5. QED
  BY <1>2, <1>4

(* The recursive function that follows the table exists ... *)
LEMMA HopsExist ==
  ASSUME NEW o
  PROVE  \E h : h = [k \in 0..NumTasklets |->
                       IF k = 0 THEN wait_queue[o] ELSE table[h[k - 1]]]
<1> DEFINE a == wait_queue[o]
           Hops(h, m) == h = [k \in 0..m |-> IF k = 0 THEN a ELSE table[h[k - 1]]]
           S == {m \in Nat : \E h : Hops(h, m)}
<1>1. 0 \in S
  <2>1. Hops([k \in 0..0 |-> a], 0)
    OBVIOUS
  <2>2. QED
    BY <2>1
<1>2. ASSUME NEW m \in S PROVE m + 1 \in S
  <2>1. PICK h : Hops(h, m)
    OBVIOUS
  <2> DEFINE g == [k \in 0..(m + 1) |-> IF k = m + 1 THEN table[h[m]] ELSE h[k]]
  <2>2. \A k \in 0..(m + 1) : g[k] = IF k = 0 THEN a ELSE table[g[k - 1]]
    <3>1. \A k \in 0..m : h[k] = IF k = 0 THEN a ELSE table[h[k - 1]]
      BY <2>1
    <3>2. SUFFICES ASSUME NEW k \in 0..(m + 1)
                   PROVE  g[k] = IF k = 0 THEN a ELSE table[g[k - 1]]
      OBVIOUS
    <3>3. k = 0 \/ k - 1 \in 0..m
      OBVIOUS
    <3>4. \A j \in 0..m : g[j] = h[j]
      OBVIOUS
    <3>5. CASE k = m + 1
      BY <3>3, <3>4, <3>5
    <3>6. CASE k # m + 1
      <4>1. k \in 0..m
        BY <3>6
      <4>2. QED
        BY <3>1, <3>3, <3>4, <4>1
    <3>7. QED
      BY <3>5, <3>6
  <2>3. g = [k \in 0..(m + 1) |-> IF k = 0 THEN a ELSE table[g[k - 1]]]
    BY <2>2
  <2>4. m + 1 \in Nat /\ Hops(g, m + 1)
    BY <2>3
  <2>5. QED
    BY <2>4
<1>3. S = Nat
  <2>1. S \in SUBSET Nat
    OBVIOUS
  <2> HIDE DEF S
  <2>2. QED
    BY <1>1, <1>2, <2>1, EverySetOfNumbers
<1>4. NumTasklets \in S
  <2>1. NumTasklets \in Nat
    BY SyncAssumption
  <2> HIDE DEF S
  <2>2. QED
    BY <1>3, <2>1
<1>5. QED
  BY <1>4

(* ... so that a chain is what its definition says. *)
LEMMA ChainHops ==
  ASSUME NEW o
  PROVE  /\ Chain(o)[0] = wait_queue[o]
         /\ \A k \in 1..NumTasklets : Chain(o)[k] = table[Chain(o)[k - 1]]
<1> DEFINE Hop(h) == h = [k \in 0..NumTasklets |-> IF k = 0 THEN wait_queue[o] ELSE table[h[k - 1]]]
<1>1. NumTasklets \in Nat
  BY SyncAssumption
<1>2. \E h : Hop(h)
  BY HopsExist
<1>3. Hop(Chain(o))
  BY <1>2 DEF Chain
<1>4. \A k \in 0..NumTasklets :
        Chain(o)[k] = IF k = 0 THEN wait_queue[o] ELSE table[Chain(o)[k - 1]]
  BY <1>3
<1>5. QED
  BY <1>1, <1>4

(* Along a queue it meets the queue's tasklets one after the other. *)
LEMMA ChainAlongQueue ==
  ASSUME NEW o, NEW n \in 1..NumTasklets, NEW q,
         wait_queue[o] = q[n], table[q[n]] = q[1],
         \A k \in 1..(n - 1) : table[q[k]] = q[k + 1]
  PROVE  \A k \in 1..n : Chain(o)[k] = q[k]
<1> DEFINE S == {m \in Nat : m + 1 \in 1..n => Chain(o)[m + 1] = q[m + 1]}
<1>1. NumTasklets \in Nat /\ n \in Nat /\ n <= NumTasklets /\ n >= 1
  BY SyncAssumption
<1>2. 0 \in S
  <2>1. 1 \in 1..NumTasklets /\ 1 - 1 = 0
    BY <1>1
  <2>2. Chain(o)[1] = q[1]
    BY <2>1, ChainHops
  <2>3. QED
    BY <2>2
<1>3. ASSUME NEW m \in S PROVE m + 1 \in S
  <2>1. SUFFICES ASSUME (m + 1) + 1 \in 1..n PROVE Chain(o)[(m + 1) + 1] = q[(m + 1) + 1]
    OBVIOUS
  <2>2. m + 1 \in 1..n /\ m + 1 \in 1..(n - 1)
    BY <2>1
  <2>3. Chain(o)[m + 1] = q[m + 1]
    BY <2>2
  <2>4. (m + 1) + 1 \in 1..NumTasklets /\ ((m + 1) + 1) - 1 = m + 1
    BY <1>1, <2>1
  <2>5. QED
    BY <2>2, <2>3, <2>4, ChainHops
<1>4. S = Nat
  <2>1. S \in SUBSET Nat
    OBVIOUS
  <2> HIDE DEF S
  <2>2. QED
    BY <1>2, <1>3, <2>1, EverySetOfNumbers
<1>5. SUFFICES ASSUME NEW k \in 1..n PROVE Chain(o)[k] = q[k]
  OBVIOUS
<1>6. k - 1 \in Nat /\ (k - 1) + 1 = k
  BY <1>1
<1>7. QED
  BY <1>4, <1>6

LEMMA QueueCounted ==
  ASSUME NEW n \in Nat, NEW q \in [1..n -> Tasklets],
         \A j, k \in 1..n : q[j] = q[k] => j = k
  PROVE  Cardinality({q[k] : k \in 1..n}) = n /\ n <= NumTasklets
<1> DEFINE S == {q[k] : k \in 1..n}
<1>1. ExistsBijection(1..n, S)
  BY DEF ExistsBijection, Bijection, Injection, Surjection, IsInjective
<1>2. Cardinality(S) = n
  BY <1>1, FS_CountingElements
<1>3. NumTasklets \in Nat /\ 0 \in Int /\ NumTasklets - 1 \in Int
      /\ ~(0 > NumTasklets - 1) /\ (NumTasklets - 1) - 0 + 1 = NumTasklets
  BY SyncAssumption
<1>4. IsFiniteSet(Tasklets) /\ Cardinality(Tasklets) = NumTasklets
  BY <1>3, FS_Interval DEF Tasklets
<1>5. Cardinality(S) <= Cardinality(Tasklets)
  BY <1>4, FS_Subset
<1>6. QED
  BY <1>2, <1>4, <1>5

-----------------------------------------------------------------------------
(* Outside the sections of an object nobody enters or leaves its queue. *)
LEMMA Undisturbed ==
  ASSUME IInv, NEW o \in Queued, lock[o] = Free
  PROVE  /\ ~Opening(o) /\ Members(o) = Waiting(o)
         /\ \A u \in Tasklets : \A op : ~Waking(u, op, o)
<1>1. \A u \in Tasklets : Inside(u) => On(u) # o
  BY Numbers DEF IInv, SectionsHeld
<1>2. \A u \in Tasklets : On(u) = o =>
        pc[u] \notin {"section", "release", "suspend", "wake", "refuse"}
  BY <1>1, SyncAssumption DEF Inside, Queued
<1>3. \A u \in Tasklets : \A op : ~Waking(u, op, o)
  BY <1>2 DEF Waking
<1>4. Leaving(o) = {}
  BY <1>3 DEF Leaving
<1>5. \A u \in Tasklets : Suspended(u, o) <=> pc[u] \in {"stop", "stopped"} /\ On(u) = o
  BY <1>2 DEF Suspended
<1>6. Members(o) = Waiting(o)
  BY <1>4, <1>5 DEF Members, Waiting
<1>7. QED
  BY <1>3, <1>6 DEF Opening

LEMMA QueueAtRest ==
  ASSUME QInv, NEW o \in Queued, lock[o] = Free
  PROVE  \E n \in Nat : \E q :
           /\ q \in [1..n -> Tasklets]
           /\ Waiting(o) = {q[k] : k \in 1..n}
           /\ Cardinality(Waiting(o)) = n /\ n <= NumTasklets
           /\ wait_queue[o] = IF n = 0 THEN Empty ELSE q[n]
           /\ n # 0 => \A k \in 1..n : Chain(o)[k] = q[k]
           /\ o \in Barriers => count[o] + n = Size[o]
           /\ o \in Sems => n = IF count[o] < 0 THEN -count[o] ELSE 0
<1>1. ~Opening(o) /\ Members(o) = Waiting(o)
  BY Undisturbed DEF QInv
<1>2. PICK n \in Nat : \E q : QueueIs(o, n, q)
  BY DEF QInv, Queues
<1>3. PICK q : QueueIs(o, n, q)
  BY <1>2
<1>4. /\ q \in [1..n -> Tasklets]
      /\ \A j, k \in 1..n : q[j] = q[k] => j = k
      /\ Waiting(o) = {q[k] : k \in 1..n}
      /\ wait_queue[o] = IF n = 0 THEN Empty ELSE q[n]
      /\ \A k \in 1..(n - 1) : table[q[k]] = q[k + 1]
      /\ n # 0 => table[q[n]] = q[1]
      /\ o \in Barriers => count[o] + n = Size[o]
      /\ o \in Sems => n = IF count[o] < 0 THEN -count[o] ELSE 0
  BY <1>1, <1>3 DEF QueueIs
<1>5. Cardinality(Waiting(o)) = n /\ n <= NumTasklets
  <2>1. Cardinality({q[k] : k \in 1..n}) = n /\ n <= NumTasklets
    BY <1>4, QueueCounted
  <2>2. QED
    BY <1>4, <2>1
<1>6. n # 0 => \A k \in 1..n : Chain(o)[k] = q[k]
  <2>1. SUFFICES ASSUME n # 0 PROVE \A k \in 1..n : Chain(o)[k] = q[k]
    OBVIOUS
  <2>2. n \in 1..NumTasklets
    BY <1>5, <2>1, SyncAssumption
  <2>3. wait_queue[o] = q[n] /\ table[q[n]] = q[1]
    BY <1>4, <2>1
  <2>4. QED
    BY <1>4, <2>2, <2>3, ChainAlongQueue
<1>7. QED
  BY <1>4, <1>5, <1>6

(* Whenever no tasklet is in a section of a barrier or semaphore, its queue *)
(* is one cycle through exactly the tasklets suspended in it, whatever the  *)
(* tasklets of the other objects do to the table in the meantime.           *)
THEOREM QueuesStayIntact == Spec => []QueuesIntact
<1>1. QInv => QueuesIntact
  <2>1. SUFFICES ASSUME QInv, NEW o \in Queued, lock[o] = Free
                 PROVE  IF wait_queue[o] = Empty THEN Waiting(o) = {}
                        ELSE /\ {Chain(o)[k] : k \in 0..(Cardinality(Waiting(o)) - 1)}
                                  = Waiting(o)
                             /\ Chain(o)[Cardinality(Waiting(o))] = wait_queue[o]
    BY DEF QueuesIntact
  <2>2. PICK n \in Nat : \E q :
           /\ q \in [1..n -> Tasklets]
           /\ Waiting(o) = {q[k] : k \in 1..n}
           /\ Cardinality(Waiting(o)) = n
           /\ wait_queue[o] = IF n = 0 THEN Empty ELSE q[n]
           /\ n # 0 => \A k \in 1..n : Chain(o)[k] = q[k]
    BY <2>1, QueueAtRest
  <2>3. PICK q :
           /\ q \in [1..n -> Tasklets]
           /\ Waiting(o) = {q[k] : k \in 1..n}
           /\ Cardinality(Waiting(o)) = n
           /\ wait_queue[o] = IF n = 0 THEN Empty ELSE q[n]
           /\ n # 0 => \A k \in 1..n : Chain(o)[k] = q[k]
    BY <2>2
  <2>4. CASE n = 0
    BY <2>3, <2>4
  <2>5. CASE n # 0
    <3>1. n \in 1..n /\ wait_queue[o] = q[n] /\ q[n] # Empty /\ Chain(o)[n] = q[n]
      BY <2>3, <2>5, Numbers
    <3>2. Chain(o)[0] = q[n]
      BY <3>1, ChainHops
    <3>3. \A k \in 0..(n - 1) : Chain(o)[k] \in Waiting(o)
      <4>1. \A k \in 0..(n - 1) : k = 0 \/ k \in 1..n
        OBVIOUS
      <4>2. QED
        BY <2>3, <2>5, <3>1, <3>2, <4>1
    <3>4. \A k \in 1..n : \E j \in 0..(n - 1) : Chain(o)[j] = q[k]
      <4>1. \A k \in 1..n : k = n \/ k \in 0..(n - 1)
        OBVIOUS
      <4>2. 0 \in 0..(n - 1)
        BY <2>5
      <4>3. QED
        BY <2>3, <2>5, <3>2, <4>1, <4>2
    <3>5. {Chain(o)[k] : k \in 0..(n - 1)} = Waiting(o)
      BY <2>3, <3>3, <3>4
    <3>6. QED
      BY <2>3, <3>1, <3>5
  <2>6. QED
    BY <2>4, <2>5
<1>2. QED
  BY <1>1, AlwaysQInv, PTL

(* ... and its count agrees with its queue: a barrier waits for as many     *)
(* tasklets as its count says, and a semaphore below zero has as many       *)
(* tasklets suspended.                                                      *)
THEOREM CountsStayRight == Spec => []CountsAgree
<1>1. QInv => CountsAgree
  <2>1. SUFFICES ASSUME QInv, NEW o \in Queued, lock[o] = Free
                 PROVE  /\ o \in Barriers => count[o] + Cardinality(Waiting(o)) = Size[o]
                        /\ o \in Sems =>
                             Cardinality(Waiting(o)) = IF count[o] < 0 THEN -count[o] ELSE 0
    BY DEF CountsAgree, Queued
  <2>2. QED
    BY <2>1, QueueAtRest
<1>2. QED
  BY <1>1, AlwaysQInv, PTL
-----------------------------------------------------------------------------
(* How many calls of one kind have been made: the calls of tasklet t among   *)
(* its first n, and those of all tasklets, f[t] being how far each is.       *)
IsCall(p, t, op, on, k) == p[t][k] = [op |-> op, on |-> on]
Made(p, t, op, on, n) == {k \in 1..n : IsCall(p, t, op, on, k)}
AllMade(p, op, on, f) == UNION {{t} \X Made(p, t, op, on, f[t]) : t \in Tasklets}
Number(p, op, on, f)  == Cardinality(AllMade(p, op, on, f))

LEMMA TaskletsFinite ==
  IsFiniteSet(Tasklets) /\ Cardinality(Tasklets) = NumTasklets
<1>1. NumTasklets \in Nat /\ 0 \in Int /\ NumTasklets - 1 \in Int
      /\ ~(0 > NumTasklets - 1) /\ (NumTasklets - 1) - 0 + 1 = NumTasklets
  BY SyncAssumption
<1>2. QED
  BY <1>1, FS_Interval DEF Tasklets

LEMMA MadeFinite ==
  ASSUME NEW p, NEW t, NEW op, NEW on, NEW n \in Nat
  PROVE  IsFiniteSet(Made(p, t, op, on, n)) /\ Cardinality(Made(p, t, op, on, n)) \in Nat
<1>1. IsFiniteSet(1..n)
  BY FS_Interval
<1>2. Made(p, t, op, on, n) \in SUBSET (1..n)
  BY DEF Made
<1>3. IsFiniteSet(Made(p, t, op, on, n))
  BY <1>1, <1>2, FS_Subset
<1>4. QED
  BY <1>3, FS_CardinalityType

LEMMA AllMadeFinite ==
  ASSUME NEW p, NEW op, NEW on, NEW f \in [Tasklets -> Nat]
  PROVE  IsFiniteSet(AllMade(p, op, on, f)) /\ Number(p, op, on, f) \in Nat
<1> DEFINE Part(t) == {t} \X Made(p, t, op, on, f[t])
           Parts == {Part(t) : t \in Tasklets}
<1>1. IsFiniteSet(Parts)
  <2>1. [t \in Tasklets |-> Part(t)] \in Surjection(Tasklets, Parts)
    BY DEF Surjection
  <2>2. QED
    BY <2>1, TaskletsFinite, FS_Surjection
<1>2. \A S \in Parts : IsFiniteSet(S)
  <2>1. SUFFICES ASSUME NEW t \in Tasklets PROVE IsFiniteSet(Part(t))
    OBVIOUS
  <2>2. IsFiniteSet({t}) /\ IsFiniteSet(Made(p, t, op, on, f[t]))
    BY FS_Singleton, MadeFinite
  <2>3. QED
    BY <2>2, FS_Product
<1>3. IsFiniteSet(UNION Parts)
  <2> HIDE DEF Parts
  <2>1. QED
    BY <1>1, <1>2, FS_UNION
<1>4. IsFiniteSet(AllMade(p, op, on, f))
  BY <1>3 DEF AllMade
<1>5. QED
  BY <1>4, FS_CardinalityType DEF Number

(* One more call. *)
LEMMA MadeNext ==
  ASSUME NEW p, NEW t, NEW op, NEW on, NEW n \in Nat, NEW m, m = n + 1,
         IsCall(p, t, op, on, m)
  PROVE  Cardinality(Made(p, t, op, on, m)) = Cardinality(Made(p, t, op, on, n)) + 1
<1>1. 1..m = 1..n \cup {m} /\ m \notin 1..n
  OBVIOUS
<1>2. m \notin Made(p, t, op, on, n)
  BY <1>1 DEF Made
<1>3. Made(p, t, op, on, m) = Made(p, t, op, on, n) \cup {m}
  BY <1>1 DEF Made
<1>4. QED
  BY <1>2, <1>3, MadeFinite, FS_AddElement

LEMMA MadeOther ==
  ASSUME NEW p, NEW t, NEW op, NEW on, NEW n \in Nat, NEW m, m = n + 1,
         ~IsCall(p, t, op, on, m)
  PROVE  Made(p, t, op, on, m) = Made(p, t, op, on, n)
<1>1. 1..m = 1..n \cup {m} /\ m \notin 1..n
  OBVIOUS
<1>2. QED
  BY <1>1 DEF Made

(* The calls of t go up to g, those of the others stay. *)
LEMMA NumberNext ==
  ASSUME NEW p, NEW op, NEW on, NEW f \in [Tasklets -> Nat], NEW t \in Tasklets,
         NEW g \in [Tasklets -> Nat], g[t] = f[t] + 1, \A u \in Tasklets \ {t} : g[u] = f[u]
  PROVE  Number(p, op, on, g) =
           Number(p, op, on, f) + (IF IsCall(p, t, op, on, g[t]) THEN 1 ELSE 0)
<1>1. CASE IsCall(p, t, op, on, g[t])
  <2>1. Made(p, t, op, on, g[t]) = Made(p, t, op, on, f[t]) \cup {g[t]}
    <3>1. f[t] \in Nat /\ g[t] = f[t] + 1
      OBVIOUS
    <3>2. 1..g[t] = 1..f[t] \cup {g[t]}
      BY <3>1
    <3>3. QED
      BY <1>1, <3>2 DEF Made
  <2>2. AllMade(p, op, on, g) = AllMade(p, op, on, f) \cup {<<t, g[t]>>}
    <3>1. ASSUME NEW u \in Tasklets
          PROVE  {u} \X Made(p, u, op, on, g[u]) =
                   ({u} \X Made(p, u, op, on, f[u])) \cup (IF u = t THEN {<<t, g[t]>>} ELSE {})
      BY <2>1
    <3>2. QED
      BY <3>1 DEF AllMade
  <2>3. <<t, g[t]>> \notin AllMade(p, op, on, f)
    <3>1. g[t] \notin Made(p, t, op, on, f[t])
      BY DEF Made
    <3>2. QED
      BY <3>1 DEF AllMade
  <2>4. QED
    BY <1>1, <2>2, <2>3, AllMadeFinite, FS_AddElement DEF Number
<1>2. CASE ~IsCall(p, t, op, on, g[t])
  <2>1. \A u \in Tasklets : Made(p, u, op, on, g[u]) = Made(p, u, op, on, f[u])
    <3>1. f[t] \in Nat /\ g[t] = f[t] + 1
      OBVIOUS
    <3>2. Made(p, t, op, on, g[t]) = Made(p, t, op, on, f[t])
      BY <1>2, <3>1, MadeOther
    <3>3. QED
      BY <3>2
  <2>2. AllMade(p, op, on, g) = AllMade(p, op, on, f)
    BY <2>1 DEF AllMade
  <2>3. QED
    BY <1>2, <2>2, AllMadeFinite DEF Number
<1>3. QED
  BY <1>1, <1>2

(* Those in D have all made one more. *)
LEMMA NumberMore ==
  ASSUME NEW p, NEW op, NEW on, NEW f \in [Tasklets -> Nat], NEW g \in [Tasklets -> Nat],
         \A u \in Tasklets : f[u] <= g[u],
         NEW D \in SUBSET Tasklets,
         \A u \in D : f[u] < g[u] /\ IsCall(p, u, op, on, f[u] + 1)
  PROVE  /\ Cardinality(D) \in Nat
         /\ Number(p, op, on, g) >= Number(p, op, on, f) + Cardinality(D)
<1> DEFINE New == {<<u, f[u] + 1>> : u \in D}
<1>1. IsFiniteSet(D) /\ Cardinality(D) \in Nat
  BY TaskletsFinite, FS_Subset, FS_CardinalityType
<1>2. IsFiniteSet(New) /\ Cardinality(New) = Cardinality(D)
  <2>1. [u \in D |-> <<u, f[u] + 1>>] \in Bijection(D, New)
    BY DEF Bijection, Injection, Surjection, IsInjective
  <2>2. QED
    <3> HIDE DEF New
    <3>1. QED
      BY <1>1, <2>1, FS_Bijection DEF ExistsBijection
<1>3. AllMade(p, op, on, f) \cup New \subseteq AllMade(p, op, on, g)
  <2>1. ASSUME NEW u \in Tasklets PROVE Made(p, u, op, on, f[u]) \subseteq Made(p, u, op, on, g[u])
    <3>1. f[u] <= g[u] /\ f[u] \in Nat /\ g[u] \in Nat
      OBVIOUS
    <3>2. 1..f[u] \subseteq 1..g[u]
      BY <3>1
    <3>3. QED
      BY <3>2 DEF Made
  <2>2. ASSUME NEW u \in D PROVE f[u] + 1 \in Made(p, u, op, on, g[u])
    <3>1. f[u] < g[u] /\ f[u] \in Nat /\ g[u] \in Nat
      OBVIOUS
    <3>2. f[u] + 1 \in 1..g[u]
      BY <3>1
    <3>3. QED
      BY <3>2 DEF Made
  <2>3. QED
    BY <2>1, <2>2 DEF AllMade
<1>4. AllMade(p, op, on, f) \cap New = {}
  <2>1. \A u \in Tasklets : f[u] + 1 \notin Made(p, u, op, on, f[u])
    <3>1. SUFFICES ASSUME NEW u \in Tasklets PROVE f[u] + 1 \notin 1..f[u]
      BY DEF Made
    <3>2. f[u] \in Nat
      OBVIOUS
    <3>3. QED
      BY <3>2
  <2>2. QED
    BY <2>1 DEF AllMade
<1>5. IsFiniteSet(AllMade(p, op, on, f)) /\ IsFiniteSet(AllMade(p, op, on, g))
  BY AllMadeFinite
<1>6. Cardinality(AllMade(p, op, on, f) \cup New) = Cardinality(AllMade(p, op, on, f)) + Cardinality(New)
  <2> HIDE DEF New
  <2>1. Cardinality({}) = 0
    BY FS_EmptySet
  <2>2. Cardinality(AllMade(p, op, on, f) \cup New)
          = Cardinality(AllMade(p, op, on, f)) + Cardinality(New)
              - Cardinality(AllMade(p, op, on, f) \cap New)
    BY <1>2, <1>5, FS_Union, Zenon
  <2>3. Cardinality(AllMade(p, op, on, f)) \in Nat /\ Cardinality(New) \in Nat
    BY <1>1, <1>2, <1>5, FS_CardinalityType
  <2>4. Cardinality(AllMade(p, op, on, f) \cap New) = 0
    BY <1>4, <2>1, Zenon
  <2>5. QED
    BY <2>2, <2>3, <2>4
<1>7. Cardinality(AllMade(p, op, on, f) \cup New) <= Cardinality(AllMade(p, op, on, g))
  BY <1>3, <1>5, FS_Subset
<1>8. QED
  BY <1>1, <1>2, <1>6, <1>7, AllMadeFinite DEF Number

(* Each of U has made m of them. *)
LEMMA NumberAtLeast ==
  ASSUME NEW p, NEW op, NEW on, NEW f \in [Tasklets -> Nat], NEW U \in SUBSET Tasklets,
         NEW m \in Nat, \A u \in U : Cardinality(Made(p, u, op, on, f[u])) >= m
  PROVE  Number(p, op, on, f) >= Cardinality(U) * m
<1> DEFINE M(u) == Made(p, u, op, on, f[u])
<1>1. IsFiniteSet(U) /\ Cardinality(U) \in Nat
  BY TaskletsFinite, FS_Subset, FS_CardinalityType
<1>2. \A u \in U : \E g : g \in Injection(1..m, M(u))
  <2>1. SUFFICES ASSUME NEW u \in U PROVE \E g : g \in Injection(1..m, M(u))
    OBVIOUS
  <2>2. IsFiniteSet(M(u)) /\ Cardinality(M(u)) \in Nat /\ Cardinality(M(u)) >= m
    BY MadeFinite
  <2> HIDE DEF M
  <2>3. PICK b : b \in Bijection(1..Cardinality(M(u)), M(u))
    BY <2>2, FS_CardinalityType DEF ExistsBijection
  <2>4. 1..m \subseteq 1..Cardinality(M(u))
    BY <2>2
  <2>5. [i \in 1..m |-> b[i]] \in Injection(1..m, M(u))
    BY <2>3, <2>4 DEF Bijection, Injection, Surjection, IsInjective
  <2>6. QED
    BY <2>5
<1> DEFINE G == [u \in U |-> CHOOSE g : g \in Injection(1..m, M(u))]
           F == [x \in U \X (1..m) |-> <<x[1], G[x[1]][x[2]]>>]
<1>3. \A u \in U : G[u] \in Injection(1..m, M(u))
  <2> HIDE DEF M
  <2>1. QED
    BY <1>2
<1>4. F \in Injection(U \X (1..m), AllMade(p, op, on, f))
  <2>1. \A u \in U, i \in 1..m : G[u][i] \in M(u)
    <3> HIDE DEF G, M
    <3>1. QED
      BY <1>3 DEF Injection
  <2>2. \A u \in U, i, j \in 1..m : G[u][i] = G[u][j] => i = j
    <3> HIDE DEF G, M
    <3>1. QED
      BY <1>3 DEF Injection, IsInjective
  <2> HIDE DEF G
  <2>3. \A u \in U, i \in 1..m : <<u, G[u][i]>> \in AllMade(p, op, on, f)
    BY <2>1 DEF AllMade
  <2>4. F \in [U \X (1..m) -> AllMade(p, op, on, f)]
    BY <2>3
  <2>5. \A x, y \in U \X (1..m) : F[x] = F[y] => x = y
    BY <2>2
  <2>6. QED
    <3> HIDE DEF F
    <3>1. QED
      BY <2>4, <2>5 DEF Injection, IsInjective
<1>5. Cardinality(U \X (1..m)) <= Number(p, op, on, f)
  <2> HIDE DEF F
  <2>1. QED
    BY <1>4, AllMadeFinite, FS_Injection DEF Number
<1>6. Cardinality(U \X (1..m)) = Cardinality(U) * m
  <2>1. IsFiniteSet(1..m) /\ Cardinality(1..m) = m
    BY FS_Interval
  <2>2. QED
    BY <1>1, <2>1, FS_Product
<1>7. Cardinality(U) * m \in Nat
  BY <1>1
<1>8. QED
  BY <1>5, <1>6, <1>7, AllMadeFinite
-----------------------------------------------------------------------------
(* What has been done so far: the calls that have returned, in all and of    *)
(* one tasklet, and those whose effect on their object has been had.         *)
Ended(op, on)      == Number(prog, op, on, done)
EndedBy(t, op, on) == Cardinality(Made(prog, t, op, on, done[t]))

Entered(t) == pc[t] \in {"release", "refuse", "wake", "suspend", "stop", "stopped"}
Applied == [t \in Tasklets |-> done[t] + (IF Entered(t) THEN 1 ELSE 0)]
Counted(op, on) == Number(prog, op, on, Applied)

(* Whoever waits for a notifier that has come resumes the notifier, and is   *)
(* refused while another waits.                                              *)
Chosen ==
  \A t \in Tasklets :
    pc[t] = "wake" /\ Op(t) = "handshake_wait_for" => walk[t] = On(t)
Refusing ==
  \A t \in Tasklets : pc[t] = "refuse" =>
    Op(t) = "handshake_wait_for" /\ shake[On(t)] \notin {Empty, On(t)}

(* Whoever has opened a barrier and returns has left nobody in its queue.    *)
Emptied ==
  \A t \in Tasklets :
    pc[t] = "release" /\ Op(t) = "barrier_wait" => wait_queue[On(t)] = Empty

(* Of the calls on a semaphore only sem_take is suspended. *)
Takers ==
  \A t \in Tasklets :
    pc[t] \in {"suspend", "stop", "stopped"} /\ On(t) \in Sems => Op(t) = "sem_take"

(* A mutex has been got as often as given back, once more while it is held.  *)
MutexPlaces ==
  \A t \in Tasklets : pc[t] # "caller" /\ On(t) \in Mutexes =>
    IF Op(t) = "mutex_unlock" THEN pc[t] = "release" /\ lock[On(t)] = t ELSE pc[t] = "acquire"
Holding ==
  \A t \in Tasklets, m \in Mutexes :
    EndedBy(t, "mutex_lock", m) + EndedBy(t, "mutex_trylock", m)
      = EndedBy(t, "mutex_unlock", m) + (IF lock[m] = t THEN 1 ELSE 0)
MutexTotals ==
  \A m \in Mutexes :
    Ended("mutex_lock", m) + Ended("mutex_trylock", m)
      = Ended("mutex_unlock", m) + (IF lock[m] = Free THEN 0 ELSE 1)

(* Notifications and waits have returned in pairs, but for the one that is   *)
(* about to.                                                                 *)
Releasing(x, n) == pc[x] = "release" /\ On(x) = n
CellTotals ==
  \A n \in Tasklets :
    /\ \A x \in Tasklets : Releasing(x, n) =>
         IF Op(x) = "handshake_notify"
         THEN Ended("handshake_wait_for", n) - refused[n] = Ended("handshake_notify", n) + 1
         ELSE Ended("handshake_notify", n) = Ended("handshake_wait_for", n) - refused[n] + 1
    /\ (\A x \in Tasklets : ~Releasing(x, n)) =>
         Ended("handshake_notify", n) = Ended("handshake_wait_for", n) - refused[n]

(* The count of a semaphore is what it began with and has been given, less   *)
(* what has been taken.                                                      *)
SemUnits ==
  \A s \in Sems : count[s] + Counted("sem_take", s) = Initial[s] + Counted("sem_give", s)

(* All users of a barrier have gone through it equally often, but while it   *)
(* opens those that have not been resumed yet once less than the others.     *)
Users(b) == {t \in Tasklets : \E k \in 1..Len(prog[t]) : prog[t][k].on = b}
Round(t, b) == EndedBy(t, "barrier_wait", b)
Opener(t, b) == pc[t] \in {"wake", "release"} /\ On(t) = b
Rounds ==
  \A b \in Barriers :
    /\ \A t \in Tasklets : Opener(t, b) =>
         \A u \in Users(b) :
           Round(u, b) = Round(t, b) + (IF u = t \/ Suspended(u, b) THEN 0 ELSE 1)
    /\ (\A t \in Tasklets : ~Opener(t, b)) => \A u, v \in Users(b) : Round(u, b) = Round(v, b)

PInv ==
  QInv /\ Chosen /\ Refusing /\ Emptied /\ Takers /\ MutexPlaces /\ Holding /\ MutexTotals
       /\ CellTotals /\ SemUnits /\ Rounds

-----------------------------------------------------------------------------
(* The call a tasklet is in. *)
LEMMA CurrentCall ==
  ASSUME IInv, NEW t \in Tasklets, done[t] < Len(prog[t]), NEW op, NEW on
  PROVE  IsCall(prog, t, op, on, done[t] + 1) <=> Op(t) = op /\ On(t) = on
<1>1. prog[t] \in Seq(Calls) /\ done[t] \in 0..Len(prog[t])
  BY SyncAssumption DEF IInv, TypeOK, ProgramOK
<1>2. prog[t][done[t] + 1] \in Calls
  BY <1>1
<1>3. QED
  BY <1>2 DEF IsCall, Calls, Op, On

LEMMA DoneTyped ==
  ASSUME IInv
  PROVE  done \in [Tasklets -> Nat]
BY DEF IInv, TypeOK

(* A call of x returns: it is counted, and no other. *)
LEMMA ReturnCounts ==
  ASSUME IInv, prog' = prog, NEW x \in Tasklets, done[x] < Len(prog[x]),
         done' = [done EXCEPT ![x] = @ + 1], NEW op, NEW on
  PROVE  /\ Ended(op, on)' = Ended(op, on) + (IF Op(x) = op /\ On(x) = on THEN 1 ELSE 0)
         /\ \A u \in Tasklets : EndedBy(u, op, on)' =
              EndedBy(u, op, on) + (IF u = x /\ Op(x) = op /\ On(x) = on THEN 1 ELSE 0)
         /\ Ended(op, on) \in Nat /\ \A u \in Tasklets : EndedBy(u, op, on) \in Nat
<1>1. /\ done \in [Tasklets -> Nat] /\ done' \in [Tasklets -> Nat]
      /\ done'[x] = done[x] + 1 /\ \A u \in Tasklets \ {x} : done'[u] = done[u]
  BY DoneTyped
<1>2. IsCall(prog, x, op, on, done'[x]) <=> Op(x) = op /\ On(x) = on
  BY <1>1, CurrentCall
<1>3. Number(prog, op, on, done') =
        Number(prog, op, on, done) + (IF IsCall(prog, x, op, on, done'[x]) THEN 1 ELSE 0)
  <2>1. \A u \in Tasklets \ {x} : done'[u] = done[u]
    BY <1>1
  <2>2. done \in [Tasklets -> Nat] /\ done' \in [Tasklets -> Nat] /\ done'[x] = done[x] + 1
    BY <1>1
  <2>3. PICK g : g = done'
    OBVIOUS
  <2>4. g \in [Tasklets -> Nat] /\ g[x] = done[x] + 1 /\ \A u \in Tasklets \ {x} : g[u] = done[u]
    BY <2>1, <2>2, <2>3
  <2>5. Number(prog, op, on, g) =
          Number(prog, op, on, done) + (IF IsCall(prog, x, op, on, g[x]) THEN 1 ELSE 0)
    BY <2>2, <2>4, NumberNext
  <2>6. QED
    BY <2>3, <2>5
<1>4. Number(prog, op, on, done) \in Nat
  BY <1>1, AllMadeFinite
<1>5. \A u \in Tasklets : Cardinality(Made(prog, u, op, on, done[u])) \in Nat
  BY <1>1, MadeFinite
<1>6. IsCall(prog, x, op, on, done'[x]) =>
        Cardinality(Made(prog, x, op, on, done'[x])) = Cardinality(Made(prog, x, op, on, done[x])) + 1
  <2>1. done[x] \in Nat /\ done'[x] = done[x] + 1
    BY <1>1
  <2>2. QED
    BY <2>1, MadeNext
<1>7. ~IsCall(prog, x, op, on, done'[x]) =>
        Made(prog, x, op, on, done'[x]) = Made(prog, x, op, on, done[x])
  <2>1. done[x] \in Nat /\ done'[x] = done[x] + 1
    BY <1>1
  <2>2. QED
    BY <2>1, MadeOther
<1>8. QED
  BY <1>1, <1>2, <1>3, <1>4, <1>5, <1>6, <1>7 DEF Ended, EndedBy

(* Which calls return in a step. *)
LEMMA Returning ==
  ASSUME QInv, NEW t \in Tasklets, Step(t)
  PROVE  \/ /\ done' = done /\ refused' = refused
            /\ ~Locked(t) /\ ~NotLocked(t) /\ ~Release(t) /\ ~Refuse(t) /\ pc[t] # "wake"
         \/ /\ Locked(t) \/ Release(t)
            /\ done' = [done EXCEPT ![t] = @ + 1] /\ refused' = refused
         \/ /\ pc[t] = "wake" /\ pc[walk[t]] = "stopped"
            /\ walk[t] \in Tasklets \ {t} /\ On(walk[t]) = On(t) /\ Inside(t)
            /\ done' = [done EXCEPT ![walk[t]] = @ + 1] /\ refused' = refused
         \/ /\ Refuse(t)
            /\ done' = [done EXCEPT ![t] = @ + 1]
         \/ /\ NotLocked(t)
            /\ done' = [done EXCEPT ![t] = @ + 2] /\ refused' = refused
<1>1. CASE Call(t) \/ Acquire(t) \/ Suspend(t) \/ Stop(t) \/ BarrierEnter(t) \/ BarrierOpen(t)
           \/ SemEnter(t) \/ SemTake(t) \/ SemGive(t) \/ HandshakeFirst(t) \/ HandshakeSecond(t)
           \/ HandshakeRefused(t)
  <2>1. done' = done /\ refused' = refused
    BY <1>1 DEF Call, Acquire, Suspend, Stop, BarrierEnter, Enter, BarrierOpen, SemEnter, SemTake,
      SemGive, HandshakeFirst, HandshakeSecond, HandshakeRefused
  <2>2. ~Release(t) /\ ~Refuse(t) /\ pc[t] # "wake"
    BY <1>1 DEF Call, Acquire, Suspend, Stop, BarrierEnter, Enter, BarrierOpen, SemEnter, SemTake,
      SemGive, HandshakeFirst, HandshakeSecond, HandshakeRefused, In, Release, Refuse
  <2>3. ~Locked(t) /\ ~NotLocked(t)
    BY <1>1 DEF Call, Acquire, Suspend, Stop, BarrierEnter, Enter, BarrierOpen, SemEnter, SemTake,
      SemGive, HandshakeFirst, HandshakeSecond, HandshakeRefused, In, Locked, NotLocked
  <2>4. QED
    BY <2>1, <2>2, <2>3
<1>2. CASE Locked(t) \/ Release(t)
  BY <1>2 DEF Locked, Release
<1>3. CASE WakeNext(t) \/ WakeLast(t) \/ WakeTaker(t) \/ WakePartner(t)
  <2>1. Resume(t) /\ refused' = refused
    BY <1>3 DEF WakeNext, WakeLast, WakeTaker, WakePartner
  <2>2. Inside(t) /\ Suspended(walk[t], On(t)) /\ walk[t] \in Tasklets
    BY <2>1, WakerInside DEF Resume
  <2>3. QED
    BY <2>1, <2>2 DEF Resume, Suspended
<1>4. CASE Refuse(t)
  BY <1>4 DEF Refuse
<1>5. CASE NotLocked(t)
  BY <1>5 DEF NotLocked
<1>6. QED
  BY <1>1, <1>2, <1>3, <1>4, <1>5 DEF Step

(* The call tried in vain and the one skipped are both counted. *)
LEMMA DeclineCounts ==
  ASSUME IInv, prog' = prog, NEW t \in Tasklets, In(t, "acquire", "mutex_trylock"),
         done' = [done EXCEPT ![t] = @ + 2], NEW op, NEW on
  PROVE  /\ Ended(op, on)' = Ended(op, on)
              + (IF op \in {"mutex_trylock", "mutex_unlock"} /\ On(t) = on THEN 1 ELSE 0)
         /\ \A u \in Tasklets : EndedBy(u, op, on)' = EndedBy(u, op, on)
              + (IF u = t /\ op \in {"mutex_trylock", "mutex_unlock"} /\ On(t) = on THEN 1 ELSE 0)
         /\ Ended(op, on) \in Nat /\ \A u \in Tasklets : EndedBy(u, op, on) \in Nat
<1> DEFINE k == done[t] + 1
           m == done[t] + 2
           half == [done EXCEPT ![t] = k]
<1>1. /\ done \in [Tasklets -> Nat] /\ done' \in [Tasklets -> Nat] /\ done[t] < Len(prog[t])
      /\ done[t] \in Nat /\ done'[t] = m /\ \A u \in Tasklets \ {t} : done'[u] = done[u]
  BY DoneTyped, CallMade DEF In
<1>2. half \in [Tasklets -> Nat] /\ half[t] = k /\ \A u \in Tasklets \ {t} : half[u] = done[u]
  BY <1>1
<1>3. k \in Nat /\ m = k + 1 /\ k = done[t] + 1 /\ done'[t] = half[t] + 1
  BY <1>1, <1>2
<1>4. IsCall(prog, t, op, on, k) <=> op = "mutex_trylock" /\ On(t) = on
  BY <1>1, CurrentCall DEF In
<1>5. IsCall(prog, t, op, on, m) <=> op = "mutex_unlock" /\ On(t) = on
  <2>1. ProgramOK(prog)
    BY SyncAssumption DEF IInv, TypeOK
  <2>2. k \in 1..Len(prog[t])
    BY <1>1, ProgramTyped DEF IInv, TypeOK
  <2>3. prog[t][k].op = "mutex_trylock" /\ prog[t][k].on = On(t)
    BY DEF In, Op, On
  <2>4. prog[t][k + 1] = [op |-> "mutex_unlock", on |-> On(t)]
    BY <2>1, <2>2, <2>3 DEF ProgramOK
  <2>5. QED
    BY <1>3, <2>4 DEF IsCall
<1> HIDE DEF k, m, half
<1>6. Number(prog, op, on, half) =
        Number(prog, op, on, done) + (IF IsCall(prog, t, op, on, half[t]) THEN 1 ELSE 0)
  BY <1>1, <1>2, <1>3, NumberNext
<1>7. Number(prog, op, on, done') =
        Number(prog, op, on, half) + (IF IsCall(prog, t, op, on, done'[t]) THEN 1 ELSE 0)
  <2>1. \A u \in Tasklets \ {t} : done'[u] = half[u]
    BY <1>1, <1>2
  <2>2. half \in [Tasklets -> Nat] /\ done' \in [Tasklets -> Nat] /\ done'[t] = half[t] + 1
    BY <1>1, <1>2, <1>3
  <2>3. PICK g : g = done'
    OBVIOUS
  <2>4. g \in [Tasklets -> Nat] /\ g[t] = half[t] + 1 /\ \A u \in Tasklets \ {t} : g[u] = half[u]
    BY <2>1, <2>2, <2>3
  <2>5. Number(prog, op, on, g) =
          Number(prog, op, on, half) + (IF IsCall(prog, t, op, on, g[t]) THEN 1 ELSE 0)
    BY <2>2, <2>4, NumberNext
  <2>6. QED
    BY <2>3, <2>5
<1>8. Number(prog, op, on, done) \in Nat
  BY <1>1, AllMadeFinite
<1>9. \A u \in Tasklets : Cardinality(Made(prog, u, op, on, done[u])) \in Nat
  BY <1>1, MadeFinite
<1>10. Cardinality(Made(prog, t, op, on, k)) = Cardinality(Made(prog, t, op, on, done[t]))
         + (IF IsCall(prog, t, op, on, k) THEN 1 ELSE 0)
  BY <1>1, <1>3, <1>9, MadeNext, MadeOther
<1>11. Cardinality(Made(prog, t, op, on, m)) = Cardinality(Made(prog, t, op, on, k))
         + (IF IsCall(prog, t, op, on, m) THEN 1 ELSE 0)
  <2>1. Cardinality(Made(prog, t, op, on, k)) \in Nat
    BY <1>3, MadeFinite
  <2>2. QED
    BY <1>3, <2>1, MadeNext, MadeOther
<1>12. QED
  BY <1>1, <1>2, <1>4, <1>5, <1>6, <1>7, <1>8, <1>9, <1>10, <1>11 DEF Ended, EndedBy

-----------------------------------------------------------------------------
(* Mutexes.                                                                  *)
(* Who is about to give a mutex back has got it once more than given it.     *)
LEMMA GivesItsOwn ==
  ASSUME IInv, NEW t \in Tasklets, done[t] < Len(prog[t]), NEW m \in Mutexes,
         Op(t) = "mutex_unlock", On(t) = m
  PROVE  EndedBy(t, "mutex_lock", m) + EndedBy(t, "mutex_trylock", m)
           > EndedBy(t, "mutex_unlock", m)
<1> DEFINE n == done[t]
           k == done[t] + 1
           L == Made(prog, t, "mutex_lock", m, n)
           T == Made(prog, t, "mutex_trylock", m, n)
           U == Made(prog, t, "mutex_unlock", m, n)
<1>1. prog[t] \in Seq(Calls) /\ n \in 0..Len(prog[t]) /\ n \in Nat /\ n < Len(prog[t]) /\ Len(prog[t]) \in Nat
  BY SyncAssumption, DoneTyped DEF IInv, TypeOK, ProgramOK
<1>2. k - 1 = n /\ k \in 1..Len(prog[t]) /\ 1..n \subseteq 1..Len(prog[t]) /\ DOMAIN prog[t] = 1..Len(prog[t])
  BY <1>1
<1>3. k \in Gives(prog[t], m)
  <2>1. IsCall(prog, t, "mutex_unlock", m, k)
    BY <1>1, CurrentCall
  <2>2. QED
    BY <1>2, <2>1 DEF Gives, IsCall
<1>4. Gives(prog[t], m) \cap 1..(k - 1) = U
  <2> HIDE DEF k, n
  <2>1. QED
    BY <1>2 DEF Gives, Made, IsCall
<1>5. Gets(prog[t], m) \cap 1..(k - 1) = L \cup T
  <2>1. \A i \in 1..Len(prog[t]) : prog[t][i] \in Calls
    BY <1>1
  <2>2. \A i \in 1..Len(prog[t]) :
          prog[t][i].op \in {"mutex_lock", "mutex_trylock"} /\ prog[t][i].on = m
            <=> \/ prog[t][i] = [op |-> "mutex_lock", on |-> m]
                \/ prog[t][i] = [op |-> "mutex_trylock", on |-> m]
    BY <2>1 DEF Calls
  <2> HIDE DEF k, n
  <2>3. QED
    BY <1>2, <2>2 DEF Gets, Made, IsCall
<1>6. L \cap T = {}
  <2>1. \A i : ~(IsCall(prog, t, "mutex_lock", m, i) /\ IsCall(prog, t, "mutex_trylock", m, i))
    <3>1. [op |-> "mutex_lock", on |-> m].op # [op |-> "mutex_trylock", on |-> m].op
      OBVIOUS
    <3>2. QED
      BY <3>1 DEF IsCall
  <2>2. QED
    BY <2>1 DEF Made
<1>7. IsFiniteSet(L) /\ IsFiniteSet(T) /\ Cardinality(L) \in Nat /\ Cardinality(T) \in Nat
      /\ Cardinality(U) \in Nat
  BY <1>1, MadeFinite
<1>8. Cardinality(Gets(prog[t], m) \cap 1..(k - 1)) > Cardinality(Gives(prog[t], m) \cap 1..(k - 1))
  BY <1>3, MutexAssumption DEF IInv, TypeOK
<1> HIDE DEF L, T, U, n, k
<1>9. Cardinality(L \cup T) > Cardinality(U)
  BY <1>4, <1>5, <1>8, Zenon
<1>10. Cardinality(L \cup T) = Cardinality(L) + Cardinality(T) - Cardinality(L \cap T)
  BY <1>7, FS_Union, Zenon
<1>11. Cardinality(L \cap T) = 0
  BY <1>6, FS_EmptySet, Zenon
<1>12. Cardinality(L) + Cardinality(T) > Cardinality(U)
  BY <1>7, <1>9, <1>10, <1>11
<1>13. QED
  BY <1>12 DEF EndedBy, L, T, U, n

(* The bit of a mutex is written by who locks or unlocks it. *)
LEMMA MutexMoves ==
  ASSUME PInv, NEW t \in Tasklets, Step(t), NEW m \in Mutexes
  PROVE  \/ Locked(t) /\ On(t) = m /\ lock[m] = Free /\ lock'[m] = t
         \/ /\ Release(t) /\ On(t) = m /\ Op(t) = "mutex_unlock"
            /\ lock[m] = t /\ lock'[m] = Free
         \/ /\ ~((Locked(t) \/ Release(t)) /\ On(t) = m)
            /\ lock'[m] = lock[m]
<1>1. IInv /\ TypeOK /\ MutexPlaces
  BY DEF PInv, QInv, IInv
<1>2. pc[t] # "caller" => (On(t) \in Mutexes <=> Op(t) \in {"mutex_lock", "mutex_trylock", "mutex_unlock"})
  BY <1>1, CallMade, CallKinds
<1>3. m \in Objects
  BY DEF Objects
<1>4. pc[t] # "caller" /\ On(t) = m => pc[t] \in {"acquire", "release"}
  BY <1>1 DEF MutexPlaces
<1>5. CASE On(t) = m /\ pc[t] # "caller"
  <2>1. Locked(t) \/ NotLocked(t) \/ Release(t)
    <3>1. pc[t] = "release" => Release(t)
      BY DEF Step, Call, Acquire, Locked, NotLocked, Suspend, Stop, BarrierEnter,
         BarrierOpen, SemEnter, SemTake, SemGive, HandshakeFirst, HandshakeSecond,
         HandshakeRefused, Refuse, WakeNext, WakeLast, WakeTaker, WakePartner, Resume, In
    <3>2. pc[t] = "acquire" => Acquire(t) \/ Locked(t) \/ NotLocked(t)
      BY DEF Step, Call, Release, Suspend, Stop, BarrierEnter,
         BarrierOpen, SemEnter, SemTake, SemGive, HandshakeFirst, HandshakeSecond,
         HandshakeRefused, Refuse, WakeNext, WakeLast, WakeTaker, WakePartner, Resume, In
    <3>3. ~Acquire(t)
      BY <1>1, <1>2, <1>5 DEF Acquire, MutexPlaces
    <3>4. QED
      BY <1>4, <1>5, <3>1, <3>2, <3>3
  <2>2. CASE Locked(t)
    BY <1>1, <1>3, <1>5, <2>2 DEF Locked, BitFree, TypeOK
  <2>3. CASE NotLocked(t)
    BY <1>5, <2>3 DEF NotLocked, Locked, Release, In
  <2>4. CASE Release(t)
    <3>1. Op(t) = "mutex_unlock" /\ lock[m] = t
      BY <1>1, <1>5, <2>4 DEF Release, MutexPlaces
    <3>2. QED
      BY <1>1, <1>3, <1>5, <2>4, <3>1 DEF Release, TypeOK
  <2>5. QED
    BY <2>1, <2>2, <2>3, <2>4
<1>6. CASE ~(On(t) = m /\ pc[t] # "caller")
  <2>1. ~((Locked(t) \/ Release(t)) /\ On(t) = m)
    BY <1>6 DEF Locked, Release
  <2>2. lock'[m] = lock[m]
    BY <1>1, <1>3, <1>6 DEF TypeOK, Step, Call, Acquire, Locked, NotLocked, Release, Suspend, Stop,
         BarrierEnter, Enter, BarrierOpen, SemEnter, SemTake, SemGive, HandshakeFirst,
         HandshakeSecond, HandshakeRefused, Refuse, WakeNext, WakeLast, WakeTaker, WakePartner, In
  <2>3. QED
    BY <2>1, <2>2
<1>7. QED
  BY <1>5, <1>6

LEMMA MutexPlacesStep ==
  ASSUME PInv, NEW t \in Tasklets, Step(t)
  PROVE  MutexPlaces'
<1>1. IInv /\ TypeOK /\ MutexPlaces /\ QInv
  BY DEF PInv, QInv, IInv
<1>2. SUFFICES ASSUME NEW u \in Tasklets, pc'[u] # "caller", On(u)' \in Mutexes
               PROVE  IF Op(u)' = "mutex_unlock" THEN pc'[u] = "release" /\ lock'[On(u)'] = u
                      ELSE pc'[u] = "acquire"
  BY DEF MutexPlaces, On
<1>3. On(u)' = On(u) /\ Op(u)' = Op(u) /\ (u # t => pc'[u] = pc[u])
  BY <1>1, <1>2, CallsStay
<1>4. PICK m \in Mutexes : m = On(u)
  BY <1>2, <1>3
<1>5. CASE u # t
  <2>1. IF Op(u) = "mutex_unlock" THEN pc[u] = "release" /\ lock[m] = u ELSE pc[u] = "acquire"
    BY <1>1, <1>2, <1>3, <1>4, <1>5 DEF MutexPlaces
  <2>2. lock[m] = u => lock'[m] = u
    BY <1>4, <1>5, MutexMoves, Numbers
  <2>3. QED
    BY <1>3, <1>4, <1>5, <2>1, <2>2
<1>6. CASE u = t
  <2>1. CASE Call(t)
    <3>1. pc'[t] = IF Op(t) = "mutex_unlock" THEN "release" ELSE "acquire"
      BY <1>1, <2>1 DEF Call, TypeOK
    <3>2. ASSUME Op(t) = "mutex_unlock" PROVE lock[m] = t
      <4>1. done[t] < Len(prog[t])
        BY <2>1 DEF Call
      <4>2. EndedBy(t, "mutex_lock", m) + EndedBy(t, "mutex_trylock", m) > EndedBy(t, "mutex_unlock", m)
        BY <1>1, <1>4, <1>6, <3>2, <4>1, GivesItsOwn
      <4>3. EndedBy(t, "mutex_lock", m) + EndedBy(t, "mutex_trylock", m)
              = EndedBy(t, "mutex_unlock", m) + (IF lock[m] = t THEN 1 ELSE 0)
        BY DEF PInv, Holding
      <4>4. EndedBy(t, "mutex_unlock", m) \in Nat
        BY <1>1, DoneTyped, MadeFinite DEF EndedBy
      <4>5. QED
        BY <4>2, <4>3, <4>4
    <3>3. lock' = lock
      BY <2>1 DEF Call
    <3>4. QED
      BY <1>3, <1>4, <1>6, <3>1, <3>2, <3>3
  <2>2. CASE ~Call(t)
    <3>1. pc[t] # "caller"
      BY <2>2 DEF Step, Acquire, Locked, NotLocked, Release, Suspend, Stop, BarrierEnter,
         BarrierOpen, SemEnter, SemTake, SemGive, HandshakeFirst, HandshakeSecond,
         HandshakeRefused, Refuse, WakeNext, WakeLast, WakeTaker, WakePartner, Resume, In
    <3>2. pc[t] \in {"release", "acquire"} /\ (pc[t] = "acquire" => Op(t) # "mutex_unlock")
      BY <1>1, <1>2, <1>3, <1>6, <3>1 DEF MutexPlaces
    <3>3. Op(t) \in {"mutex_lock", "mutex_trylock", "mutex_unlock"}
      BY <1>1, <1>2, <1>3, <1>6, <3>1, CallMade, CallKinds
    <3>4. Release(t) \/ Locked(t) \/ NotLocked(t)
      BY <2>2, <3>2, <3>3 DEF Step, Acquire, Suspend, Stop, BarrierEnter,
         BarrierOpen, SemEnter, SemTake, SemGive, HandshakeFirst, HandshakeSecond,
         HandshakeRefused, Refuse, WakeNext, WakeLast, WakeTaker, WakePartner, Resume, In
    <3>5. pc'[t] = "caller"
      BY <1>1, <3>4 DEF Release, Locked, NotLocked, TypeOK
    <3>6. QED
      BY <1>2, <1>6, <3>5
  <2>3. QED
    BY <2>1, <2>2
<1>7. QED
  BY <1>5, <1>6

(* The kinds of calls of which none returns unless t's own does. *)
LEMMA Uncounted ==
  ASSUME PInv, NEW t \in Tasklets, Step(t), NEW m \in Mutexes,
         NEW op \in {"mutex_lock", "mutex_trylock", "mutex_unlock"},
         ~((Locked(t) \/ NotLocked(t) \/ Release(t)) /\ On(t) = m)
  PROVE  Ended(op, m)' = Ended(op, m) /\ \A u \in Tasklets : EndedBy(u, op, m)' = EndedBy(u, op, m)
<1>1. IInv /\ TypeOK /\ QInv /\ Refusing
  BY DEF PInv, QInv, IInv
<1>2. prog' = prog
  BY <1>1, StepMoves
<1>3. CASE done' = done
  BY <1>2, <1>3 DEF Ended, EndedBy
<1>4. ASSUME NEW x \in Tasklets, done' = [done EXCEPT ![x] = @ + 1], pc[x] # "caller", On(x) # m
      PROVE  Ended(op, m)' = Ended(op, m) /\ \A u \in Tasklets : EndedBy(u, op, m)' = EndedBy(u, op, m)
  <2>1. done[x] < Len(prog[x])
    BY <1>1, <1>4, CallMade
  <2>2. /\ Ended(op, m)' = Ended(op, m) + (IF Op(x) = op /\ On(x) = m THEN 1 ELSE 0)
        /\ \A u \in Tasklets : EndedBy(u, op, m)' =
             EndedBy(u, op, m) + (IF u = x /\ Op(x) = op /\ On(x) = m THEN 1 ELSE 0)
        /\ Ended(op, m) \in Nat /\ \A u \in Tasklets : EndedBy(u, op, m) \in Nat
    BY <1>1, <1>2, <1>4, <2>1, ReturnCounts
  <2>3. QED
    BY <1>4, <2>2
<1>5. CASE Locked(t) \/ Release(t)
  <2>1. done' = [done EXCEPT ![t] = @ + 1] /\ pc[t] # "caller" /\ On(t) # m
    BY <1>5 DEF Locked, Release
  <2>2. QED
    BY <1>4, <2>1
<1>6. CASE pc[t] = "wake" /\ walk[t] \in Tasklets \ {t} /\ On(walk[t]) = On(t) /\ Inside(t)
           /\ pc[walk[t]] = "stopped" /\ done' = [done EXCEPT ![walk[t]] = @ + 1]
  BY <1>4, <1>6 DEF Inside
<1>7. CASE Refuse(t) /\ done' = [done EXCEPT ![t] = @ + 1]
  <2>1. pc[t] # "caller" /\ Op(t) = "handshake_wait_for"
    BY <1>1, <1>7 DEF Refuse, Refusing
  <2>2. On(t) \notin Mutexes
    BY <1>1, <2>1, CallMade, CallKinds
  <2>3. QED
    BY <1>4, <1>7, <2>1, <2>2
<1>8. CASE NotLocked(t) /\ done' = [done EXCEPT ![t] = @ + 2]
  <2>1. In(t, "acquire", "mutex_trylock") /\ On(t) # m
    BY <1>8 DEF NotLocked
  <2>2. /\ Ended(op, m)' = Ended(op, m)
              + (IF op \in {"mutex_trylock", "mutex_unlock"} /\ On(t) = m THEN 1 ELSE 0)
        /\ \A u \in Tasklets : EndedBy(u, op, m)' = EndedBy(u, op, m)
              + (IF u = t /\ op \in {"mutex_trylock", "mutex_unlock"} /\ On(t) = m THEN 1 ELSE 0)
        /\ Ended(op, m) \in Nat /\ \A u \in Tasklets : EndedBy(u, op, m) \in Nat
    BY <1>1, <1>2, <1>8, <2>1, DeclineCounts
  <2>3. QED
    BY <2>1, <2>2
<1>9. QED
  BY <1>1, <1>3, <1>5, <1>6, <1>7, <1>8, Returning

LEMMA MutexStep ==
  ASSUME PInv, NEW t \in Tasklets, Step(t)
  PROVE  Holding' /\ MutexTotals'
<1>1. IInv /\ TypeOK /\ QInv /\ MutexPlaces
  BY DEF PInv, QInv, IInv
<1>2. prog' = prog
  BY <1>1, StepMoves
<1>3. SUFFICES ASSUME NEW m \in Mutexes
      PROVE  /\ \A u \in Tasklets :
                  EndedBy(u, "mutex_lock", m)' + EndedBy(u, "mutex_trylock", m)'
                    = EndedBy(u, "mutex_unlock", m)' + (IF lock'[m] = u THEN 1 ELSE 0)
             /\ Ended("mutex_lock", m)' + Ended("mutex_trylock", m)'
                  = Ended("mutex_unlock", m)' + (IF lock'[m] = Free THEN 0 ELSE 1)
  BY DEF Holding, MutexTotals
<1>4. /\ \A u \in Tasklets :
           EndedBy(u, "mutex_lock", m) + EndedBy(u, "mutex_trylock", m)
             = EndedBy(u, "mutex_unlock", m) + (IF lock[m] = u THEN 1 ELSE 0)
      /\ Ended("mutex_lock", m) + Ended("mutex_trylock", m)
           = Ended("mutex_unlock", m) + (IF lock[m] = Free THEN 0 ELSE 1)
  BY DEF PInv, Holding, MutexTotals
<1>5. ASSUME NEW op
      PROVE  Ended(op, m) \in Nat /\ \A u \in Tasklets : EndedBy(u, op, m) \in Nat
  BY <1>1, DoneTyped, MadeFinite, AllMadeFinite DEF Ended, EndedBy
<1>6. CASE Locked(t) /\ On(t) = m
  <2>1. done' = [done EXCEPT ![t] = @ + 1] /\ done[t] < Len(prog[t])
        /\ Op(t) \in {"mutex_lock", "mutex_trylock"}
    BY <1>1, <1>6, CallMade DEF Locked
  <2>2. lock[m] = Free /\ lock'[m] = t
    BY <1>1, <1>6 DEF Locked, BitFree, TypeOK, Objects
  <2>3. ASSUME NEW op
        PROVE  /\ Ended(op, m)' = Ended(op, m) + (IF Op(t) = op THEN 1 ELSE 0)
               /\ \A u \in Tasklets : EndedBy(u, op, m)' =
                    EndedBy(u, op, m) + (IF u = t /\ Op(t) = op THEN 1 ELSE 0)
    <3>1. IInv /\ prog' = prog /\ done[t] < Len(prog[t]) /\ done' = [done EXCEPT ![t] = @ + 1]
      BY <1>1, <1>2, <2>1
    <3>2. /\ Ended(op, m)' = Ended(op, m) + (IF Op(t) = op /\ On(t) = m THEN 1 ELSE 0)
          /\ \A u \in Tasklets : EndedBy(u, op, m)' =
               EndedBy(u, op, m) + (IF u = t /\ Op(t) = op /\ On(t) = m THEN 1 ELSE 0)
          /\ Ended(op, m) \in Nat /\ \A u \in Tasklets : EndedBy(u, op, m) \in Nat
      BY <3>1, ReturnCounts
    <3>3. QED
      BY <1>6, <3>2
  <2>4. /\ Ended("mutex_lock", m)' + Ended("mutex_trylock", m)'
             = Ended("mutex_lock", m) + Ended("mutex_trylock", m) + 1
        /\ Ended("mutex_unlock", m)' = Ended("mutex_unlock", m)
    BY <1>5, <2>1, <2>3
  <2>5. SUFFICES ASSUME NEW u \in Tasklets
                 PROVE  EndedBy(u, "mutex_lock", m)' + EndedBy(u, "mutex_trylock", m)'
                          = EndedBy(u, "mutex_unlock", m)' + (IF lock'[m] = u THEN 1 ELSE 0)
    BY <1>4, <1>5, <2>2, <2>4, Numbers
  <2>6. /\ EndedBy(u, "mutex_lock", m)' = EndedBy(u, "mutex_lock", m)
             + (IF u = t /\ Op(t) = "mutex_lock" THEN 1 ELSE 0)
        /\ EndedBy(u, "mutex_trylock", m)' = EndedBy(u, "mutex_trylock", m)
             + (IF u = t /\ Op(t) = "mutex_trylock" THEN 1 ELSE 0)
        /\ EndedBy(u, "mutex_unlock", m)' = EndedBy(u, "mutex_unlock", m)
             + (IF u = t /\ Op(t) = "mutex_unlock" THEN 1 ELSE 0)
    BY <2>3
  <2>7. EndedBy(u, "mutex_lock", m) \in Nat /\ EndedBy(u, "mutex_trylock", m) \in Nat
        /\ EndedBy(u, "mutex_unlock", m) \in Nat
    BY <1>5
  <2>8. EndedBy(u, "mutex_lock", m) + EndedBy(u, "mutex_trylock", m) = EndedBy(u, "mutex_unlock", m)
    BY <1>4, <2>2, <2>7, Numbers
  <2>9. QED
    BY <2>1, <2>2, <2>6, <2>7, <2>8
<1>7. CASE Release(t) /\ On(t) = m
  <2>1. done' = [done EXCEPT ![t] = @ + 1] /\ done[t] < Len(prog[t])
    BY <1>1, <1>7, CallMade DEF Release
  <2>2. Op(t) = "mutex_unlock" /\ lock[m] = t /\ lock'[m] = Free
    BY <1>7, MutexMoves DEF Locked, Release
  <2>3. ASSUME NEW op
        PROVE  /\ Ended(op, m)' = Ended(op, m) + (IF Op(t) = op THEN 1 ELSE 0)
               /\ \A u \in Tasklets : EndedBy(u, op, m)' =
                    EndedBy(u, op, m) + (IF u = t /\ Op(t) = op THEN 1 ELSE 0)
    <3>1. IInv /\ prog' = prog /\ done[t] < Len(prog[t]) /\ done' = [done EXCEPT ![t] = @ + 1]
      BY <1>1, <1>2, <2>1
    <3>2. /\ Ended(op, m)' = Ended(op, m) + (IF Op(t) = op /\ On(t) = m THEN 1 ELSE 0)
          /\ \A u \in Tasklets : EndedBy(u, op, m)' =
               EndedBy(u, op, m) + (IF u = t /\ Op(t) = op /\ On(t) = m THEN 1 ELSE 0)
          /\ Ended(op, m) \in Nat /\ \A u \in Tasklets : EndedBy(u, op, m) \in Nat
      BY <3>1, ReturnCounts
    <3>3. QED
      BY <1>7, <3>2
  <2>4. /\ Ended("mutex_lock", m)' = Ended("mutex_lock", m)
        /\ Ended("mutex_trylock", m)' = Ended("mutex_trylock", m)
        /\ Ended("mutex_unlock", m)' = Ended("mutex_unlock", m) + 1
    BY <1>5, <2>2, <2>3
  <2>5. SUFFICES ASSUME NEW u \in Tasklets
                 PROVE  EndedBy(u, "mutex_lock", m)' + EndedBy(u, "mutex_trylock", m)'
                          = EndedBy(u, "mutex_unlock", m)' + (IF lock'[m] = u THEN 1 ELSE 0)
    BY <1>4, <1>5, <2>2, <2>4, Numbers
  <2>7. EndedBy(u, "mutex_lock", m) \in Nat /\ EndedBy(u, "mutex_trylock", m) \in Nat
        /\ EndedBy(u, "mutex_unlock", m) \in Nat
    BY <1>5
  <2>6. /\ EndedBy(u, "mutex_lock", m)' = EndedBy(u, "mutex_lock", m)
        /\ EndedBy(u, "mutex_trylock", m)' = EndedBy(u, "mutex_trylock", m)
        /\ EndedBy(u, "mutex_unlock", m)' = EndedBy(u, "mutex_unlock", m)
             + (IF u = t THEN 1 ELSE 0)
    <3>1. Op(t) = "mutex_unlock"
      BY <2>2
    <3>2. /\ EndedBy(u, "mutex_lock", m)' = EndedBy(u, "mutex_lock", m)
               + (IF u = t /\ Op(t) = "mutex_lock" THEN 1 ELSE 0)
          /\ EndedBy(u, "mutex_trylock", m)' = EndedBy(u, "mutex_trylock", m)
               + (IF u = t /\ Op(t) = "mutex_trylock" THEN 1 ELSE 0)
          /\ EndedBy(u, "mutex_unlock", m)' = EndedBy(u, "mutex_unlock", m)
               + (IF u = t /\ Op(t) = "mutex_unlock" THEN 1 ELSE 0)
      BY <2>3
    <3>3. QED
      BY <2>7, <3>1, <3>2
  <2>8. QED
    BY <1>4, <2>2, <2>6, <2>7, Numbers
<1>8. CASE NotLocked(t) /\ On(t) = m
  <2>1. In(t, "acquire", "mutex_trylock") /\ done' = [done EXCEPT ![t] = @ + 2] /\ lock' = lock
    BY <1>8 DEF NotLocked
  <2>3. ASSUME NEW op
        PROVE  /\ Ended(op, m)' = Ended(op, m)
                    + (IF op \in {"mutex_trylock", "mutex_unlock"} THEN 1 ELSE 0)
               /\ \A u \in Tasklets : EndedBy(u, op, m)' = EndedBy(u, op, m)
                    + (IF u = t /\ op \in {"mutex_trylock", "mutex_unlock"} THEN 1 ELSE 0)
    BY <1>1, <1>2, <1>8, <2>1, DeclineCounts
  <2>4. /\ Ended("mutex_lock", m)' = Ended("mutex_lock", m)
        /\ Ended("mutex_trylock", m)' = Ended("mutex_trylock", m) + 1
        /\ Ended("mutex_unlock", m)' = Ended("mutex_unlock", m) + 1
    BY <1>5, <2>3
  <2>5. SUFFICES ASSUME NEW u \in Tasklets
                 PROVE  EndedBy(u, "mutex_lock", m)' + EndedBy(u, "mutex_trylock", m)'
                          = EndedBy(u, "mutex_unlock", m)' + (IF lock'[m] = u THEN 1 ELSE 0)
    BY <1>4, <1>5, <2>1, <2>4
  <2>7. EndedBy(u, "mutex_lock", m) \in Nat /\ EndedBy(u, "mutex_trylock", m) \in Nat
        /\ EndedBy(u, "mutex_unlock", m) \in Nat
    BY <1>5
  <2>6. /\ EndedBy(u, "mutex_lock", m)' = EndedBy(u, "mutex_lock", m)
        /\ EndedBy(u, "mutex_trylock", m)' = EndedBy(u, "mutex_trylock", m)
             + (IF u = t THEN 1 ELSE 0)
        /\ EndedBy(u, "mutex_unlock", m)' = EndedBy(u, "mutex_unlock", m)
             + (IF u = t THEN 1 ELSE 0)
    BY <2>3, <2>7
  <2>8. QED
    BY <1>4, <2>1, <2>6, <2>7
<1>9. CASE ~((Locked(t) \/ NotLocked(t) \/ Release(t)) /\ On(t) = m)
  <2>1. lock'[m] = lock[m]
    BY <1>9, MutexMoves
  <2>2. \A op \in {"mutex_lock", "mutex_trylock", "mutex_unlock"} :
          Ended(op, m)' = Ended(op, m) /\ \A u \in Tasklets : EndedBy(u, op, m)' = EndedBy(u, op, m)
    BY <1>9, Uncounted
  <2>3. QED
    BY <1>4, <2>1, <2>2
<1>10. QED
  BY <1>6, <1>7, <1>8, <1>9

-----------------------------------------------------------------------------
(* Where a tasklet is, and what it does there. *)
LEMMA Doing ==
  ASSUME NEW t \in Tasklets, Step(t)
  PROVE  /\ pc[t] = "caller" => Call(t)
         /\ pc[t] = "acquire" => Acquire(t) \/ Locked(t) \/ NotLocked(t)
         /\ pc[t] = "release" => Release(t)
         /\ pc[t] = "refuse" => Refuse(t)
         /\ pc[t] = "suspend" => Suspend(t)
         /\ pc[t] = "stop" => Stop(t)
         /\ pc[t] # "stopped"
         /\ pc[t] = "wake" => WakeNext(t) \/ WakeLast(t) \/ WakeTaker(t) \/ WakePartner(t)
         /\ pc[t] = "section" =>
              \/ BarrierEnter(t) \/ BarrierOpen(t) \/ SemEnter(t) \/ SemTake(t) \/ SemGive(t)
              \/ HandshakeFirst(t) \/ HandshakeSecond(t) \/ HandshakeRefused(t)
BY DEF Step, Call, Acquire, Locked, NotLocked, Release, Suspend, Stop, BarrierEnter,
       BarrierOpen, SemEnter, SemTake, SemGive, HandshakeFirst, HandshakeSecond,
       HandshakeRefused, Refuse, WakeNext, WakeLast, WakeTaker, WakePartner, Resume, In

(* Only whoever is in the section of an object writes its queue. *)
LEMMA QueueWriter ==
  ASSUME QInv, NEW t \in Tasklets, Step(t), NEW o \in Queued, wait_queue'[o] # wait_queue[o]
  PROVE  On(t) = o /\ Inside(t)
<1>1. IInv /\ TypeOK
  BY DEF QInv, IInv
<1>2. On(t) = o
  BY DataStays
<1>3. pc[t] \in {"section", "wake"}
  BY <1>1, Doing DEF TypeOK, Places, Call, Acquire, Locked, NotLocked, Release, Suspend, Stop, Refuse
<1>4. On(t) \notin Mutexes
  BY <1>2, SyncAssumption DEF Queued
<1>5. QED
  BY <1>2, <1>3, <1>4 DEF Inside

LEMMA ChosenStep ==
  ASSUME PInv, NEW t \in Tasklets, Step(t)
  PROVE  Chosen'
<1>1. IInv /\ TypeOK /\ Chosen
  BY DEF PInv, QInv, IInv
<1>2. SUFFICES ASSUME NEW u \in Tasklets, pc'[u] = "wake", Op(u)' = "handshake_wait_for"
               PROVE  walk'[u] = On(u)'
  BY DEF Chosen
<1>3. Op(u)' = Op(u) /\ On(u)' = On(u) /\ (u # t => pc'[u] = pc[u])
  BY <1>1, <1>2, CallsStay
<1>4. CASE u # t
  <2>1. walk'[u] = walk[u]
    BY <1>1, <1>4, StepMoves
  <2>2. QED
    BY <1>1, <1>2, <1>3, <1>4, <2>1 DEF Chosen
<1>5. CASE u = t
  <2>1. HandshakeSecond(t)
    <3>1. pc[t] \notin {"caller", "acquire", "release", "refuse", "suspend", "stop", "stopped"}
      BY <1>1, <1>2, <1>5, Doing DEF TypeOK, Call, Acquire, Locked, NotLocked, Release, Suspend,
         Stop, Refuse
    <3>2. pc[t] # "wake"
      BY <1>1, <1>2, <1>3, <1>5, Doing DEF TypeOK, WakeNext, WakeLast, WakeTaker, WakePartner, Resume
    <3>3. pc[t] = "section"
      BY <1>1, <3>1, <3>2 DEF TypeOK, Places
    <3>4. QED
      BY <1>1, <1>2, <1>3, <1>5, <3>3, Doing DEF TypeOK, BarrierEnter, BarrierOpen, SemEnter,
         SemTake, SemGive, HandshakeFirst, HandshakeRefused, In
  <2>2. QED
    BY <1>1, <1>2, <1>3, <1>5, <2>1 DEF HandshakeSecond, In, TypeOK
<1>6. QED
  BY <1>4, <1>5

LEMMA RefusingStep ==
  ASSUME PInv, NEW t \in Tasklets, Step(t)
  PROVE  Refusing'
<1>1. IInv /\ TypeOK /\ Refusing /\ QInv
  BY DEF PInv, QInv, IInv
<1>2. SUFFICES ASSUME NEW u \in Tasklets, pc'[u] = "refuse"
               PROVE  Op(u)' = "handshake_wait_for" /\ shake'[On(u)'] \notin {Empty, On(u)'}
  BY DEF Refusing, On
<1>3. Op(u)' = Op(u) /\ On(u)' = On(u) /\ (u # t => pc'[u] = pc[u])
  BY <1>1, <1>2, CallsStay
<1>4. CASE u # t
  <2>1. pc[u] = "refuse" /\ Op(u) = "handshake_wait_for" /\ shake[On(u)] \notin {Empty, On(u)}
    BY <1>1, <1>2, <1>3, <1>4 DEF Refusing
  <2>2. On(u) \in Tasklets
    BY <1>1, <2>1, CallMade, CallKinds
  <2>3. shake'[On(u)] = shake[On(u)]
    <3>1. SUFFICES ASSUME shake'[On(u)] # shake[On(u)] PROVE FALSE
      OBVIOUS
    <3>2. On(u) = On(t) /\ Inside(t)
      BY <1>1, <2>2, <3>1, CellsStay
    <3>3. QED
      BY <1>1, <1>4, <2>1, <3>2, Alone
  <2>4. QED
    BY <1>3, <2>1, <2>3
<1>5. CASE u = t
  <2>1. HandshakeRefused(t)
    <3>1. pc[t] \notin {"caller", "acquire", "release", "refuse", "suspend", "stop", "stopped", "wake"}
      BY <1>1, <1>2, <1>5, Doing DEF TypeOK, Call, Acquire, Locked, NotLocked, Release, Suspend,
         Stop, Refuse, WakeNext, WakeLast, WakeTaker, WakePartner, Resume
    <3>2. pc[t] = "section"
      BY <1>1, <3>1 DEF TypeOK, Places
    <3>3. QED
      BY <1>1, <1>2, <1>5, <3>2, Doing DEF TypeOK, BarrierEnter, BarrierOpen, SemEnter, Enter,
         SemTake, SemGive, HandshakeFirst, HandshakeSecond
  <2>2. QED
    BY <1>3, <1>5, <2>1 DEF HandshakeRefused, In
<1>6. QED
  BY <1>4, <1>5

LEMMA EmptiedStep ==
  ASSUME PInv, NEW t \in Tasklets, Step(t)
  PROVE  Emptied'
<1>1. IInv /\ TypeOK /\ Emptied /\ QInv
  BY DEF PInv, QInv, IInv
<1>2. SUFFICES ASSUME NEW u \in Tasklets, pc'[u] = "release", Op(u)' = "barrier_wait"
               PROVE  wait_queue'[On(u)'] = Empty
  BY DEF Emptied, On
<1>3. Op(u)' = Op(u) /\ On(u)' = On(u) /\ (u # t => pc'[u] = pc[u])
  BY <1>1, <1>2, CallsStay
<1>4. CASE u # t
  <2>1. pc[u] = "release" /\ Op(u) = "barrier_wait" /\ wait_queue[On(u)] = Empty
    BY <1>1, <1>2, <1>3, <1>4 DEF Emptied
  <2>2. On(u) \in Queued
    BY <1>1, <2>1, CallMade, CallKinds DEF Queued
  <2>3. wait_queue'[On(u)] = wait_queue[On(u)]
    <3>1. SUFFICES ASSUME wait_queue'[On(u)] # wait_queue[On(u)] PROVE FALSE
      OBVIOUS
    <3>2. On(u) = On(t) /\ Inside(t)
      BY <1>1, <2>2, <3>1, QueueWriter
    <3>3. QED
      BY <1>1, <1>4, <2>1, <3>2, Alone
  <2>4. QED
    BY <1>3, <2>1, <2>3
<1>5. CASE u = t
  <2>1. BarrierOpen(t) \/ WakeLast(t)
    <3>1. pc[t] \notin {"caller", "acquire", "release", "refuse", "suspend", "stop", "stopped"}
      BY <1>1, <1>2, <1>3, <1>5, Doing DEF TypeOK, Call, Acquire, Locked, NotLocked, Release, Suspend,
         Stop, Refuse
    <3>2. pc[t] = "wake" => WakeLast(t)
      BY <1>1, <1>2, <1>3, <1>5, Doing DEF TypeOK, WakeNext, WakeTaker, WakePartner, Resume
    <3>3. pc[t] = "section" => BarrierOpen(t)
      BY <1>1, <1>2, <1>3, <1>5, Doing DEF TypeOK, BarrierEnter, SemEnter, Enter,
         SemTake, SemGive, HandshakeFirst, HandshakeSecond, HandshakeRefused, In
    <3>4. QED
      BY <1>1, <3>1, <3>2, <3>3 DEF TypeOK, Places
  <2>2. On(t) \in Queued
    BY <1>1, <1>3, <1>5, <1>2, <2>1, CallMade, CallKinds DEF BarrierOpen, WakeLast, Resume, In, Queued
  <2>3. QED
    BY <1>1, <1>2, <1>3, <1>5, <2>1, <2>2 DEF BarrierOpen, WakeLast, TypeOK
<1>6. QED
  BY <1>4, <1>5

-----------------------------------------------------------------------------
(* Handshakes.                                                               *)
LEMMA CellUncounted ==
  ASSUME PInv, NEW t \in Tasklets, Step(t), NEW n \in Tasklets,
         NEW op \in {"handshake_notify", "handshake_wait_for"},
         ~((Release(t) \/ WakePartner(t) \/ Refuse(t)) /\ On(t) = n)
  PROVE  Ended(op, n)' = Ended(op, n) /\ refused'[n] = refused[n]
<1>1. IInv /\ TypeOK /\ QInv /\ Refusing
  BY DEF PInv, QInv, IInv
<1>2. prog' = prog
  BY <1>1, StepMoves
<1>3. CASE done' = done /\ refused' = refused
  BY <1>2, <1>3 DEF Ended
<1>4. ASSUME NEW x \in Tasklets, done' = [done EXCEPT ![x] = @ + 1], pc[x] # "caller", On(x) # n
      PROVE  Ended(op, n)' = Ended(op, n)
  <2>1. done[x] < Len(prog[x])
    BY <1>1, <1>4, CallMade
  <2>2. /\ Ended(op, n)' = Ended(op, n) + (IF Op(x) = op /\ On(x) = n THEN 1 ELSE 0)
        /\ \A u \in Tasklets : EndedBy(u, op, n)' =
             EndedBy(u, op, n) + (IF u = x /\ Op(x) = op /\ On(x) = n THEN 1 ELSE 0)
        /\ Ended(op, n) \in Nat /\ \A u \in Tasklets : EndedBy(u, op, n) \in Nat
    BY <1>1, <1>2, <1>4, <2>1, ReturnCounts
  <2>3. QED
    BY <1>4, <2>2
<1>5. CASE (Locked(t) \/ Release(t)) /\ done' = [done EXCEPT ![t] = @ + 1] /\ refused' = refused
  <2>1. Locked(t) => On(t) \in Mutexes
    BY <1>1, CallMade, CallKinds DEF Locked
  <2>2. pc[t] # "caller" /\ On(t) # n
    BY <1>5, <2>1, SyncAssumption DEF Locked, Release
  <2>3. QED
    BY <1>4, <1>5, <2>2
<1>6. CASE pc[t] = "wake" /\ pc[walk[t]] = "stopped" /\ walk[t] \in Tasklets \ {t}
           /\ On(walk[t]) = On(t) /\ Inside(t)
           /\ done' = [done EXCEPT ![walk[t]] = @ + 1] /\ refused' = refused
  <2>1. On(t) # n
    <3>1. SUFFICES ASSUME On(t) = n PROVE FALSE
      OBVIOUS
    <3>2. Op(t) \in {"handshake_notify", "handshake_wait_for"}
      BY <1>1, <1>6, <3>1, CallMade, CallKinds
    <3>3. WakePartner(t)
      BY <1>6, <3>2, Doing DEF WakeNext, WakeLast, WakeTaker
    <3>4. QED
      BY <3>1, <3>3
  <2>2. QED
    BY <1>4, <1>6, <2>1
<1>7. CASE Refuse(t) /\ done' = [done EXCEPT ![t] = @ + 1]
  <2>1. pc[t] # "caller" /\ On(t) # n
    BY <1>7 DEF Refuse
  <2>2. refused'[n] = refused[n]
    BY <1>1, <1>7, <2>1 DEF Refuse, TypeOK
  <2>3. QED
    BY <1>4, <1>7, <2>1, <2>2
<1>8. CASE NotLocked(t) /\ done' = [done EXCEPT ![t] = @ + 2] /\ refused' = refused
  <2>1. In(t, "acquire", "mutex_trylock")
    BY <1>8 DEF NotLocked
  <2>2. /\ Ended(op, n)' = Ended(op, n)
              + (IF op \in {"mutex_trylock", "mutex_unlock"} /\ On(t) = n THEN 1 ELSE 0)
        /\ \A u \in Tasklets : EndedBy(u, op, n)' = EndedBy(u, op, n)
              + (IF u = t /\ op \in {"mutex_trylock", "mutex_unlock"} /\ On(t) = n THEN 1 ELSE 0)
        /\ Ended(op, n) \in Nat /\ \A u \in Tasklets : EndedBy(u, op, n) \in Nat
    BY <1>1, <1>2, <1>8, <2>1, DeclineCounts
  <2>3. op \notin {"mutex_trylock", "mutex_unlock"}
    OBVIOUS
  <2>4. QED
    BY <1>8, <2>2, <2>3
<1>9. QED
  BY <1>1, <1>3, <1>5, <1>6, <1>7, <1>8, Returning

(* Who begins and ends to release a handshake. *)
LEMMA ReleasingStep ==
  ASSUME PInv, NEW t \in Tasklets, Step(t), NEW n \in Tasklets
  PROVE  /\ \A x \in Tasklets \ {t} :
              /\ Releasing(x, n)' <=> Releasing(x, n)
              /\ Releasing(x, n) => Op(x)' = Op(x)
         /\ Releasing(t, n)' <=> WakePartner(t) /\ On(t) = n
         /\ Releasing(t, n) <=> Release(t) /\ On(t) = n
<1>1. IInv /\ TypeOK /\ QInv
  BY DEF PInv, QInv, IInv
<1>2. ASSUME NEW x \in Tasklets \ {t}
      PROVE  (Releasing(x, n)' <=> Releasing(x, n)) /\ (Releasing(x, n) => Op(x)' = Op(x))
  <2>1. pc[t] = "wake" => pc[walk[t]] = "stopped"
    BY <1>1, OthersMove
  <2>2. CASE pc[t] = "wake" /\ x = walk[t]
    <3>1. pc'[x] = "caller" /\ pc[x] = "stopped"
      BY <1>1, <2>1, <2>2, StepMoves
    <3>2. QED
      BY <3>1 DEF Releasing
  <2>3. CASE ~(pc[t] = "wake" /\ x = walk[t])
    <3>1. pc'[x] = pc[x] /\ done'[x] = done[x] /\ prog' = prog
      BY <1>1, <2>3, StepMoves
    <3>2. QED
      BY <3>1 DEF Releasing, On, Op
  <2>4. QED
    BY <2>2, <2>3
<1>3. Releasing(t, n)' <=> WakePartner(t) /\ On(t) = n
  <2>1. ASSUME WakePartner(t), On(t) = n PROVE Releasing(t, n)'
    <3>1. walk[t] \in Tasklets \ {t}
      BY <1>1, <2>1, WakerInside DEF WakePartner, Resume, Suspended
    <3>2. pc'[t] = "release"
      BY <1>1, <2>1, <3>1 DEF WakePartner, TypeOK
    <3>3. On(t)' = On(t)
      BY <1>1, <3>2, SelfMoves
    <3>4. QED
      BY <2>1, <3>2, <3>3 DEF Releasing
  <2>2. ASSUME Releasing(t, n)' PROVE WakePartner(t) /\ On(t) = n
    <3>1. pc'[t] = "release" /\ On(t)' = On(t) /\ Op(t)' = Op(t) /\ On(t) = n
      BY <1>1, <2>2, SelfMoves DEF Releasing
    <3>2. done[t] < Len(prog[t])
      <4>1. pc[t] = "caller" => done[t] < Len(prog[t])
        BY Doing DEF Call
      <4>2. QED
        BY <1>1, <4>1, CallMade
    <3>3. Op(t) \in {"handshake_notify", "handshake_wait_for"}
      BY <1>1, <3>1, <3>2, CallKinds
    <3>4. pc[t] \notin {"caller", "acquire", "release", "refuse", "suspend", "stop", "stopped"}
      BY <1>1, <3>1, <3>3, Doing DEF TypeOK, Call, Acquire, Locked, NotLocked, Release, Suspend,
         Stop, Refuse
    <3>5. pc[t] # "section"
      BY <1>1, <3>1, <3>3, Doing DEF TypeOK, BarrierEnter, BarrierOpen, SemEnter, Enter,
         SemTake, SemGive, HandshakeFirst, HandshakeSecond, HandshakeRefused, In
    <3>6. pc[t] = "wake"
      BY <1>1, <3>4, <3>5 DEF TypeOK, Places
    <3>7. QED
      BY <3>1, <3>3, <3>6, Doing DEF WakeNext, WakeLast, WakeTaker
  <2>3. QED
    BY <2>1, <2>2
<1>4. Releasing(t, n) <=> Release(t) /\ On(t) = n
  BY Doing DEF Releasing, Release
<1>5. QED
  BY <1>2, <1>3, <1>4

(* Whom a notifier resumes waits for it, and the other way round. *)
LEMMA Partners ==
  ASSUME PInv, NEW t \in Tasklets, pc[t] = "wake", On(t) \in Tasklets
  PROVE  /\ Op(t) \in {"handshake_notify", "handshake_wait_for"}
         /\ walk[t] \in Tasklets \ {t} /\ On(walk[t]) = On(t) /\ pc[walk[t]] # "caller"
         /\ Op(walk[t]) = IF Op(t) = "handshake_notify" THEN "handshake_wait_for"
                          ELSE "handshake_notify"
<1>1. IInv /\ TypeOK /\ QInv /\ Chosen
  BY DEF PInv, QInv, IInv
<1>2. Op(t) \in {"handshake_notify", "handshake_wait_for"}
  BY <1>1, CallMade, CallKinds
<1>3. walk[t] \in Tasklets \ {t} /\ On(walk[t]) = On(t) /\ pc[walk[t]] # "caller"
  BY <1>1 DEF QInv, Resumable, Suspended, TypeOK
<1>4. ASSUME NEW x \in Tasklets, pc[x] # "caller"
      PROVE  /\ Op(x) = "handshake_notify" => On(x) = x
             /\ Op(x) = "handshake_wait_for" => On(x) # x
  <2>1. done[x] < Len(prog[x]) /\ ProgramOK(prog)
    BY <1>1, <1>4, CallMade, SyncAssumption DEF TypeOK
  <2>2. done[x] + 1 \in 1..Len(prog[x])
    BY <1>1, <2>1, ProgramTyped DEF TypeOK
  <2>3. /\ prog[x][done[x] + 1].op = "handshake_notify" => prog[x][done[x] + 1].on = x
        /\ prog[x][done[x] + 1].op = "handshake_wait_for" => prog[x][done[x] + 1].on # x
    BY <2>1, <2>2 DEF ProgramOK
  <2>4. QED
    BY <2>3 DEF Op, On
<1>5. Op(walk[t]) \in {"handshake_notify", "handshake_wait_for"}
  BY <1>1, <1>3, CallMade, CallKinds
<1>6. CASE Op(t) = "handshake_notify"
  BY <1>3, <1>4, <1>5, <1>6
<1>7. CASE Op(t) = "handshake_wait_for"
  <2>1. walk[t] = On(t)
    BY <1>1, <1>7 DEF Chosen
  <2>2. QED
    BY <1>3, <1>4, <1>5, <1>7, <2>1
<1>8. QED
  BY <1>2, <1>3, <1>6, <1>7

LEMMA CellTotalsStep ==
  ASSUME PInv, NEW t \in Tasklets, Step(t)
  PROVE  CellTotals'
<1>1. IInv /\ TypeOK /\ QInv /\ Refusing /\ CellTotals
  BY DEF PInv, QInv, IInv
<1>2. prog' = prog
  BY <1>1, StepMoves
<1>3. SUFFICES ASSUME NEW n \in Tasklets
      PROVE  /\ \A x \in Tasklets : Releasing(x, n)' =>
                  IF Op(x)' = "handshake_notify"
                  THEN Ended("handshake_wait_for", n)' - refused'[n] = Ended("handshake_notify", n)' + 1
                  ELSE Ended("handshake_notify", n)' = Ended("handshake_wait_for", n)' - refused'[n] + 1
             /\ (\A x \in Tasklets : ~Releasing(x, n)') =>
                  Ended("handshake_notify", n)' = Ended("handshake_wait_for", n)' - refused'[n]
  BY DEF CellTotals
<1>4. /\ \A x \in Tasklets : Releasing(x, n) =>
           IF Op(x) = "handshake_notify"
           THEN Ended("handshake_wait_for", n) - refused[n] = Ended("handshake_notify", n) + 1
           ELSE Ended("handshake_notify", n) = Ended("handshake_wait_for", n) - refused[n] + 1
      /\ (\A x \in Tasklets : ~Releasing(x, n)) =>
           Ended("handshake_notify", n) = Ended("handshake_wait_for", n) - refused[n]
  BY <1>1 DEF CellTotals
<1>5. /\ Ended("handshake_notify", n) \in Nat /\ Ended("handshake_wait_for", n) \in Nat
      /\ refused[n] \in Nat
  BY <1>1, DoneTyped, AllMadeFinite DEF Ended, TypeOK
<1>6. /\ \A x \in Tasklets \ {t} :
           /\ Releasing(x, n)' <=> Releasing(x, n)
           /\ Releasing(x, n) => Op(x)' = Op(x)
      /\ Releasing(t, n)' <=> WakePartner(t) /\ On(t) = n
      /\ Releasing(t, n) <=> Release(t) /\ On(t) = n
  BY ReleasingStep
<1>7. ASSUME Inside(t), On(t) = n
      PROVE  \A x \in Tasklets \ {t} : ~Releasing(x, n)
  BY <1>1, <1>7, Alone DEF Releasing
<1>8. n \notin Mutexes
  BY SyncAssumption
<1>9. ASSUME NEW x \in Tasklets, done' = [done EXCEPT ![x] = @ + 1], pc[x] # "caller", On(x) = n
      PROVE  /\ Ended("handshake_notify", n)' = Ended("handshake_notify", n)
                  + (IF Op(x) = "handshake_notify" THEN 1 ELSE 0)
             /\ Ended("handshake_wait_for", n)' = Ended("handshake_wait_for", n)
                  + (IF Op(x) = "handshake_wait_for" THEN 1 ELSE 0)
  <2>1. done[x] < Len(prog[x])
    BY <1>1, <1>9, CallMade
  <2>2. ASSUME NEW op
        PROVE  /\ Ended(op, n)' = Ended(op, n) + (IF Op(x) = op /\ On(x) = n THEN 1 ELSE 0)
               /\ \A u \in Tasklets : EndedBy(u, op, n)' =
                    EndedBy(u, op, n) + (IF u = x /\ Op(x) = op /\ On(x) = n THEN 1 ELSE 0)
               /\ Ended(op, n) \in Nat /\ \A u \in Tasklets : EndedBy(u, op, n) \in Nat
    <3>1. IInv /\ prog' = prog /\ done' = [done EXCEPT ![x] = @ + 1]
      BY <1>1, <1>2, <1>9
    <3>2. QED
      BY <2>1, <3>1, ReturnCounts
  <2>3. QED
    BY <1>9, <2>2
<1>10. CASE Release(t) /\ On(t) = n
  <2>1. pc[t] = "release" /\ done' = [done EXCEPT ![t] = @ + 1] /\ refused' = refused
    BY <1>10 DEF Release
  <2>2. Inside(t) /\ Op(t) \in {"handshake_notify", "handshake_wait_for"}
    BY <1>1, <1>8, <1>10, <2>1, CallMade, CallKinds DEF Inside
  <2>3. \A x \in Tasklets : ~Releasing(x, n)'
    BY <1>6, <1>7, <1>10, <2>1, <2>2 DEF WakePartner, Resume
  <2>4. IF Op(t) = "handshake_notify"
        THEN Ended("handshake_wait_for", n) - refused[n] = Ended("handshake_notify", n) + 1
        ELSE Ended("handshake_notify", n) = Ended("handshake_wait_for", n) - refused[n] + 1
    BY <1>4, <1>6, <1>10
  <2>5. Ended("handshake_notify", n)' = Ended("handshake_wait_for", n)' - refused'[n]
    <3>1. /\ Ended("handshake_notify", n)' = Ended("handshake_notify", n)
               + (IF Op(t) = "handshake_notify" THEN 1 ELSE 0)
          /\ Ended("handshake_wait_for", n)' = Ended("handshake_wait_for", n)
               + (IF Op(t) = "handshake_wait_for" THEN 1 ELSE 0)
      <4>1. pc[t] # "caller" /\ On(t) = n
        BY <1>10, <2>1
      <4>2. QED
        BY <1>9, <2>1, <4>1
    <3>2. QED
      BY <1>5, <2>1, <2>2, <2>4, <3>1
  <2>6. QED
    BY <2>3, <2>5
<1>11. CASE WakePartner(t) /\ On(t) = n
  <2>1. pc[t] = "wake" /\ done' = [done EXCEPT ![walk[t]] = @ + 1] /\ refused' = refused
    BY <1>11 DEF WakePartner, Resume
  <2>2. Inside(t) /\ \A x \in Tasklets : ~Releasing(x, n)
    BY <1>7, <1>8, <1>11, <2>1 DEF Inside, Releasing
  <2>3. /\ Op(t) \in {"handshake_notify", "handshake_wait_for"}
        /\ walk[t] \in Tasklets \ {t} /\ On(walk[t]) = n /\ pc[walk[t]] # "caller"
        /\ Op(walk[t]) = IF Op(t) = "handshake_notify" THEN "handshake_wait_for"
                         ELSE "handshake_notify"
    BY <1>11, <2>1, Partners
  <2>4. Ended("handshake_notify", n) = Ended("handshake_wait_for", n) - refused[n]
    BY <1>4, <2>2
  <2>5. IF Op(t) = "handshake_notify"
        THEN Ended("handshake_wait_for", n)' - refused'[n] = Ended("handshake_notify", n)' + 1
        ELSE Ended("handshake_notify", n)' = Ended("handshake_wait_for", n)' - refused'[n] + 1
    <3>1. /\ Ended("handshake_notify", n)' = Ended("handshake_notify", n)
               + (IF Op(walk[t]) = "handshake_notify" THEN 1 ELSE 0)
          /\ Ended("handshake_wait_for", n)' = Ended("handshake_wait_for", n)
               + (IF Op(walk[t]) = "handshake_wait_for" THEN 1 ELSE 0)
      <4>1. PICK x \in Tasklets : x = walk[t]
        BY <2>3
      <4>2. done' = [done EXCEPT ![x] = @ + 1] /\ pc[x] # "caller" /\ On(x) = n
        BY <2>1, <2>3, <4>1
      <4>3. /\ Ended("handshake_notify", n)' = Ended("handshake_notify", n)
                 + (IF Op(x) = "handshake_notify" THEN 1 ELSE 0)
            /\ Ended("handshake_wait_for", n)' = Ended("handshake_wait_for", n)
                 + (IF Op(x) = "handshake_wait_for" THEN 1 ELSE 0)
        BY <1>9, <4>2
      <4>4. QED
        BY <4>1, <4>3
    <3>2. QED
      BY <1>5, <2>1, <2>3, <2>4, <3>1
  <2>6. Releasing(t, n)' /\ \A x \in Tasklets \ {t} : ~Releasing(x, n)'
    BY <1>6, <1>11, <2>2
  <2>7. Op(t)' = Op(t)
    BY <1>1, <2>6, SelfMoves DEF Releasing
  <2>8. QED
    BY <2>5, <2>6, <2>7
<1>12. CASE Refuse(t) /\ On(t) = n
  <2>1. pc[t] = "refuse" /\ done' = [done EXCEPT ![t] = @ + 1] /\ refused'[n] = refused[n] + 1
        /\ Op(t) = "handshake_wait_for"
    BY <1>1, <1>12 DEF Refuse, TypeOK, Refusing
  <2>2. Inside(t) /\ \A x \in Tasklets : ~Releasing(x, n)
    BY <1>7, <1>8, <1>12, <2>1 DEF Inside, Releasing
  <2>3. \A x \in Tasklets : ~Releasing(x, n)'
    BY <1>6, <2>1, <2>2 DEF WakePartner, Resume
  <2>4. Ended("handshake_notify", n)' = Ended("handshake_wait_for", n)' - refused'[n]
    <3>1. /\ Ended("handshake_notify", n)' = Ended("handshake_notify", n)
               + (IF Op(t) = "handshake_notify" THEN 1 ELSE 0)
          /\ Ended("handshake_wait_for", n)' = Ended("handshake_wait_for", n)
               + (IF Op(t) = "handshake_wait_for" THEN 1 ELSE 0)
      <4>1. pc[t] # "caller" /\ On(t) = n /\ done' = [done EXCEPT ![t] = @ + 1]
        BY <1>12, <2>1
      <4>2. QED
        BY <1>9, <4>1
    <3>2. QED
      BY <1>4, <1>5, <2>1, <2>2, <3>1
  <2>5. QED
    BY <2>3, <2>4
<1>13. CASE ~((Release(t) \/ WakePartner(t) \/ Refuse(t)) /\ On(t) = n)
  <2>1. /\ Ended("handshake_notify", n)' = Ended("handshake_notify", n)
        /\ Ended("handshake_wait_for", n)' = Ended("handshake_wait_for", n)
        /\ refused'[n] = refused[n]
    <3>1. "handshake_notify" \in {"handshake_notify", "handshake_wait_for"}
          /\ "handshake_wait_for" \in {"handshake_notify", "handshake_wait_for"}
      OBVIOUS
    <3>2. QED
      BY <1>13, <3>1, CellUncounted
  <2>2. \A x \in Tasklets : (Releasing(x, n)' <=> Releasing(x, n)) /\ (Releasing(x, n)' => Op(x)' = Op(x))
    BY <1>6, <1>13
  <2>3. QED
    BY <1>4, <2>1, <2>2
<1>14. QED
  BY <1>10, <1>11, <1>12, <1>13

-----------------------------------------------------------------------------
(* Semaphores.                                                               *)
LEMMA AppliedTyped ==
  ASSUME IInv
  PROVE  Applied \in [Tasklets -> Nat]
<1>1. \A t \in Tasklets : done[t] \in Nat
  BY DoneTyped
<1>2. QED
  BY <1>1 DEF Applied

(* What a step of t adds to the effects: that of its own call, if it is in   *)
(* a section or has to do with a mutex.                                      *)
LEMMA AppliedStep ==
  ASSUME PInv, NEW t \in Tasklets, Step(t)
  PROVE  /\ \A u \in Tasklets \ {t} : Applied'[u] = Applied[u]
         /\ pc[t] = "section" => Applied[t] = done[t] /\ Applied'[t] = done[t] + 1
         /\ pc[t] # "section" =>
              \/ Applied'[t] = Applied[t]
              \/ /\ Op(t) \in {"mutex_lock", "mutex_trylock", "mutex_unlock"}
                 /\ Applied[t] = done[t] /\ Applied'[t] = done[t] + 1
              \/ /\ In(t, "acquire", "mutex_trylock")
                 /\ Applied[t] = done[t] /\ Applied'[t] = done[t] + 2
<1>1. IInv /\ TypeOK /\ QInv
  BY DEF PInv, QInv, IInv
<1>2. \A u \in Tasklets : done[u] \in Nat
  BY <1>1, DoneTyped
<1>3. ASSUME NEW u \in Tasklets \ {t} PROVE Applied'[u] = Applied[u]
  <2>1. Applied'[u] = done'[u] + (IF Entered(u)' THEN 1 ELSE 0)
        /\ Applied[u] = done[u] + (IF Entered(u) THEN 1 ELSE 0)
    BY DEF Applied
  <2>2. CASE pc[t] = "wake" /\ u = walk[t]
    <3>1. pc'[u] = "caller" /\ pc[u] = "stopped"
      BY <1>1, <2>2, StepMoves, OthersMove
    <3>2. done' = [done EXCEPT ![u] = @ + 1]
      BY <1>1, <2>2, Doing DEF WakeNext, WakeLast, WakeTaker, WakePartner, Resume
    <3>3. Entered(u) /\ ~Entered(u)' /\ done'[u] = done[u] + 1 /\ done[u] \in Nat
      BY <1>1, <1>2, <3>1, <3>2, DoneTyped DEF Entered
    <3>4. QED
      BY <2>1, <3>3
  <2>3. CASE ~(pc[t] = "wake" /\ u = walk[t])
    <3>1. pc'[u] = pc[u] /\ done'[u] = done[u]
      BY <1>1, <2>3, StepMoves
    <3>2. QED
      BY <2>1, <3>1 DEF Entered
  <2>4. QED
    BY <2>2, <2>3
<1>4. Applied'[t] = done'[t] + (IF Entered(t)' THEN 1 ELSE 0)
      /\ Applied[t] = done[t] + (IF Entered(t) THEN 1 ELSE 0) /\ done[t] \in Nat
  BY <1>2 DEF Applied
<1>5. CASE pc[t] = "section"
  <2>1. pc'[t] \in {"suspend", "release", "wake", "refuse"} /\ done' = done
    BY <1>1, <1>5, Doing DEF TypeOK, BarrierEnter, BarrierOpen, SemEnter, Enter, SemTake, SemGive,
       HandshakeFirst, HandshakeSecond, HandshakeRefused
  <2>2. Entered(t)' /\ ~Entered(t)
    BY <1>5, <2>1 DEF Entered
  <2>3. QED
    BY <1>3, <1>4, <1>5, <2>1, <2>2
<1>6. CASE pc[t] \in {"release", "refuse"}
  <2>1. pc'[t] = "caller" /\ done'[t] = done[t] + 1
    BY <1>1, <1>6, Doing DEF TypeOK, Release, Refuse
  <2>2. Entered(t) /\ ~Entered(t)'
    BY <1>6, <2>1 DEF Entered
  <2>3. QED
    BY <1>3, <1>4, <1>6, <2>1, <2>2
<1>7. CASE pc[t] \in {"suspend", "stop", "wake"}
  <2>1. pc'[t] \in {"stop", "stopped", "wake", "release"}
    BY <1>1, <1>7, Doing, WakerInside DEF TypeOK, Suspend, Stop, WakeNext, WakeLast, WakeTaker,
       WakePartner, Suspended, Resume
  <2>2. done'[t] = done[t]
    BY <1>1, <2>1, StepMoves
  <2>3. Entered(t) /\ Entered(t)'
    BY <1>7, <2>1 DEF Entered
  <2>4. QED
    BY <1>3, <1>4, <1>7, <2>2, <2>3
<1>8. CASE pc[t] = "caller"
  <2>1. done' = done /\ pc'[t] = IF Op(t) = "mutex_unlock" THEN "release" ELSE "acquire"
    BY <1>1, <1>8, Doing DEF Call, TypeOK
  <2>2. ~Entered(t) /\ (Entered(t)' <=> Op(t) = "mutex_unlock")
    BY <1>8, <2>1 DEF Entered
  <2>3. QED
    BY <1>3, <1>4, <1>8, <2>1, <2>2
<1>9. CASE pc[t] = "acquire"
  <2>1. ~Entered(t)
    BY <1>9 DEF Entered
  <2>2. CASE Acquire(t)
    <3>1. done' = done /\ ~Entered(t)'
      BY <1>1, <2>2 DEF Acquire, TypeOK, Entered
    <3>2. QED
      BY <1>3, <1>4, <1>9, <2>1, <3>1
  <2>3. CASE Locked(t)
    <3>1. done'[t] = done[t] + 1 /\ ~Entered(t)' /\ Op(t) \in {"mutex_lock", "mutex_trylock"}
      BY <1>1, <2>3 DEF Locked, TypeOK, Entered
    <3>2. QED
      BY <1>3, <1>4, <1>9, <2>1, <3>1
  <2>4. CASE NotLocked(t)
    <3>1. done'[t] = done[t] + 2 /\ ~Entered(t)' /\ In(t, "acquire", "mutex_trylock")
      BY <1>1, <2>4 DEF NotLocked, TypeOK, Entered
    <3>2. QED
      BY <1>3, <1>4, <1>9, <2>1, <3>1
  <2>5. QED
    BY <1>9, <2>2, <2>3, <2>4, Doing
<1>10. QED
  BY <1>1, <1>5, <1>6, <1>7, <1>8, <1>9, Doing DEF TypeOK, Places

LEMMA CountedStep ==
  ASSUME PInv, NEW t \in Tasklets, Step(t), NEW s \in Sems, NEW op \in {"sem_take", "sem_give"}
  PROVE  /\ Counted(op, s)' = Counted(op, s)
              + (IF pc[t] = "section" /\ Op(t) = op /\ On(t) = s THEN 1 ELSE 0)
         /\ Counted(op, s) \in Nat
<1>1. IInv /\ TypeOK /\ QInv
  BY DEF PInv, QInv, IInv
<1>2. prog' = prog
  BY <1>1, StepMoves
<1>3. Applied \in [Tasklets -> Nat] /\ done[t] \in Nat
  BY <1>1, AppliedTyped, DoneTyped
<1>4. PICK g : g = Applied'
  OBVIOUS
<1>5. g \in [Tasklets -> Nat]
  <2>1. \A u \in Tasklets : done'[u] \in Nat
    BY <1>1, DoneStep
  <2>2. QED
    BY <1>4, <2>1 DEF Applied
<1>6. /\ \A u \in Tasklets \ {t} : g[u] = Applied[u]
      /\ pc[t] = "section" => Applied[t] = done[t] /\ g[t] = done[t] + 1
      /\ pc[t] # "section" =>
           \/ g[t] = Applied[t]
           \/ /\ Op(t) \in {"mutex_lock", "mutex_trylock", "mutex_unlock"}
              /\ Applied[t] = done[t] /\ g[t] = done[t] + 1
           \/ /\ In(t, "acquire", "mutex_trylock")
              /\ Applied[t] = done[t] /\ g[t] = done[t] + 2
  BY <1>4, AppliedStep
<1>7. Counted(op, s) = Number(prog, op, s, Applied) /\ Counted(op, s)' = Number(prog, op, s, g)
  BY <1>2, <1>4 DEF Counted
<1>8. Number(prog, op, s, Applied) \in Nat
  BY <1>3, AllMadeFinite
<1>9. done[t] < Len(prog[t])
  BY <1>1, Doing, CallMade DEF Call
<1>10. IsCall(prog, t, op, s, done[t] + 1) <=> Op(t) = op /\ On(t) = s
  BY <1>1, <1>9, CurrentCall
<1> HIDE <1>4
<1>11. CASE g[t] = Applied[t] /\ pc[t] # "section"
  <2>1. \A u \in Tasklets : g[u] = Applied[u]
    BY <1>6, <1>11
  <2>2. AllMade(prog, op, s, g) = AllMade(prog, op, s, Applied)
    BY <2>1 DEF AllMade
  <2>3. QED
    BY <1>7, <1>8, <1>11, <2>2 DEF Number
<1>12. CASE Applied[t] = done[t] /\ g[t] = done[t] + 1
  <2>1. g[t] = Applied[t] + 1 /\ \A u \in Tasklets \ {t} : g[u] = Applied[u]
    BY <1>6, <1>12
  <2>2. Number(prog, op, s, g) =
          Number(prog, op, s, Applied) + (IF IsCall(prog, t, op, s, g[t]) THEN 1 ELSE 0)
    BY <1>3, <1>5, <2>1, NumberNext
  <2>3. IsCall(prog, t, op, s, g[t]) <=> pc[t] = "section" /\ Op(t) = op /\ On(t) = s
    <3>1. CASE pc[t] = "section"
      BY <1>10, <1>12, <3>1
    <3>2. CASE pc[t] # "section"
      <4>1. Op(t) \notin {"sem_take", "sem_give"}
        BY <1>3, <1>6, <1>12, <3>2
      <4>2. QED
        BY <1>10, <1>12, <3>2, <4>1
    <3>3. QED
      BY <3>1, <3>2
  <2>4. QED
    BY <1>7, <1>8, <2>2, <2>3
<1>13. CASE In(t, "acquire", "mutex_trylock") /\ Applied[t] = done[t] /\ g[t] = done[t] + 2
  <2> DEFINE half == [Applied EXCEPT ![t] = done[t] + 1]
  <2>1. half \in [Tasklets -> Nat] /\ half[t] = Applied[t] + 1
        /\ \A u \in Tasklets \ {t} : half[u] = Applied[u]
    BY <1>3, <1>13
  <2>2. g[t] = half[t] + 1 /\ \A u \in Tasklets \ {t} : g[u] = half[u]
    BY <1>3, <1>6, <1>13
  <2>3. half[t] = done[t] + 1
    BY <1>3, <1>13
  <2> HIDE DEF half
  <2>4. Number(prog, op, s, half) =
          Number(prog, op, s, Applied) + (IF IsCall(prog, t, op, s, half[t]) THEN 1 ELSE 0)
    BY <1>3, <2>1, NumberNext
  <2>5. Number(prog, op, s, g) =
          Number(prog, op, s, half) + (IF IsCall(prog, t, op, s, g[t]) THEN 1 ELSE 0)
    BY <1>5, <2>1, <2>2, NumberNext
  <2>6. ~IsCall(prog, t, op, s, half[t])
    BY <1>10, <1>13, <2>3 DEF In
  <2>7. ~IsCall(prog, t, op, s, g[t])
    <3>1. ProgramOK(prog)
      BY <1>1, SyncAssumption DEF TypeOK
    <3>2. done[t] + 1 \in 1..Len(prog[t]) /\ done[t] + 2 = (done[t] + 1) + 1
      BY <1>1, <1>3, <1>9, ProgramTyped DEF TypeOK
    <3>3. prog[t][done[t] + 1].op = "mutex_trylock"
      BY <1>13 DEF In, Op
    <3>4. prog[t][done[t] + 2] = [op |-> "mutex_unlock", on |-> prog[t][done[t] + 1].on]
      BY <3>1, <3>2, <3>3 DEF ProgramOK
    <3>5. prog[t][done[t] + 2].op = "mutex_unlock"
      BY <3>4
    <3>6. [op |-> op, on |-> s].op \in {"sem_take", "sem_give"}
      OBVIOUS
    <3>7. QED
      BY <1>13, <3>5, <3>6 DEF IsCall
  <2>8. QED
    BY <1>7, <1>8, <1>13, <2>4, <2>5, <2>6, <2>7 DEF In
<1>14. QED
  BY <1>6, <1>11, <1>12, <1>13

LEMMA SemUnitsStep ==
  ASSUME PInv, NEW t \in Tasklets, Step(t)
  PROVE  SemUnits'
<1>1. IInv /\ TypeOK /\ QInv
  BY DEF PInv, QInv, IInv
<1>2. SUFFICES ASSUME NEW s \in Sems
      PROVE  count'[s] + Counted("sem_take", s)' = Initial[s] + Counted("sem_give", s)'
  BY DEF SemUnits
<1>3. count[s] + Counted("sem_take", s) = Initial[s] + Counted("sem_give", s)
  BY DEF PInv, SemUnits
<1>4. count[s] \in Int /\ Initial[s] \in Int /\ s \in Queued
  <2>1. s \in Queued
    BY DEF Queued
  <2>2. count[s] \in Int
    BY <1>1, <2>1 DEF TypeOK
  <2>3. Initial[s] \in 0..127
    BY SyncAssumption
  <2>4. QED
    BY <2>1, <2>2, <2>3
<1>5. /\ Counted("sem_take", s)' = Counted("sem_take", s)
            + (IF pc[t] = "section" /\ Op(t) = "sem_take" /\ On(t) = s THEN 1 ELSE 0)
      /\ Counted("sem_give", s)' = Counted("sem_give", s)
            + (IF pc[t] = "section" /\ Op(t) = "sem_give" /\ On(t) = s THEN 1 ELSE 0)
      /\ Counted("sem_take", s) \in Nat /\ Counted("sem_give", s) \in Nat
  BY CountedStep
<1>6. CASE pc[t] = "section" /\ On(t) = s
  <2>1. Op(t) \in {"sem_take", "sem_give"}
    BY <1>1, <1>6, CallMade, CallKinds
  <2>2. IF Op(t) = "sem_take" THEN SemEnter(t) \/ SemTake(t) ELSE SemGive(t)
    BY <1>6, <2>1, Doing DEF BarrierEnter, BarrierOpen, SemEnter, SemTake, SemGive, HandshakeFirst,
       HandshakeSecond, HandshakeRefused, In
  <2>3. count'[s] = IF Op(t) = "sem_take" THEN count[s] - 1 ELSE count[s] + 1
    BY <1>1, <1>4, <1>6, <2>2 DEF SemEnter, Enter, SemTake, SemGive, TypeOK
  <2>4. CASE Op(t) = "sem_take"
    BY <1>3, <1>4, <1>5, <1>6, <2>3, <2>4
  <2>5. CASE Op(t) = "sem_give"
    BY <1>3, <1>4, <1>5, <1>6, <2>3, <2>5
  <2>6. QED
    BY <2>1, <2>4, <2>5
<1>7. CASE ~(pc[t] = "section" /\ On(t) = s)
  <2>1. count'[s] = count[s]
    <3>1. CASE On(t) # s
      BY <1>4, <3>1, <1>1, DataStays
    <3>2. CASE On(t) = s /\ pc[t] # "section"
      <4>1. ~WakeLast(t)
        <5>1. SUFFICES ASSUME WakeLast(t) PROVE FALSE
          OBVIOUS
        <5>2. On(t) \in Barriers
          BY <1>1, <5>1, CallMade, CallKinds DEF WakeLast, Resume
        <5>3. QED
          BY <3>2, <5>2, SyncAssumption
      <4>2. count' = count
        BY <1>1, <3>2, <4>1, Doing DEF TypeOK, Places, Call, Acquire, Locked, NotLocked, Release,
           Suspend, Stop, Refuse, WakeNext, WakeTaker, WakePartner
      <4>3. QED
        BY <4>2
    <3>3. QED
      BY <1>7, <3>1, <3>2
  <2>2. QED
    BY <1>3, <1>4, <1>5, <1>7, <2>1
<1>8. QED
  BY <1>6, <1>7

-----------------------------------------------------------------------------
(* Barriers.                                                                 *)
LEMMA RoundUncounted ==
  ASSUME PInv, NEW t \in Tasklets, Step(t), NEW b \in Barriers,
         ~((Release(t) \/ WakeNext(t) \/ WakeLast(t)) /\ On(t) = b)
  PROVE  \A u \in Tasklets : Round(u, b)' = Round(u, b)
<1>1. IInv /\ TypeOK /\ QInv /\ Refusing
  BY DEF PInv, QInv, IInv
<1>2. prog' = prog
  BY <1>1, StepMoves
<1>3. CASE done' = done
  BY <1>2, <1>3 DEF Round, EndedBy
<1>4. ASSUME NEW x \in Tasklets, done' = [done EXCEPT ![x] = @ + 1], pc[x] # "caller", On(x) # b
      PROVE  \A u \in Tasklets : Round(u, b)' = Round(u, b)
  <2> DEFINE op == "barrier_wait"
  <2>1. done[x] < Len(prog[x])
    BY <1>1, <1>4, CallMade
  <2>2. /\ Ended(op, b)' = Ended(op, b) + (IF Op(x) = op /\ On(x) = b THEN 1 ELSE 0)
        /\ \A u \in Tasklets : EndedBy(u, op, b)' =
             EndedBy(u, op, b) + (IF u = x /\ Op(x) = op /\ On(x) = b THEN 1 ELSE 0)
        /\ Ended(op, b) \in Nat /\ \A u \in Tasklets : EndedBy(u, op, b) \in Nat
    BY <1>1, <1>2, <1>4, <2>1, ReturnCounts
  <2>3. QED
    BY <1>4, <2>2 DEF Round
<1>5. CASE (Locked(t) \/ Release(t)) /\ done' = [done EXCEPT ![t] = @ + 1]
  <2>1. Locked(t) => On(t) \in Mutexes
    BY <1>1, CallMade, CallKinds DEF Locked
  <2>2. pc[t] # "caller" /\ On(t) # b
    BY <1>5, <2>1, SyncAssumption DEF Locked, Release, Queued
  <2>3. QED
    BY <1>4, <1>5, <2>2
<1>6. CASE pc[t] = "wake" /\ pc[walk[t]] = "stopped" /\ walk[t] \in Tasklets \ {t}
           /\ On(walk[t]) = On(t) /\ done' = [done EXCEPT ![walk[t]] = @ + 1]
  <2>1. On(t) # b
    <3>1. SUFFICES ASSUME On(t) = b PROVE FALSE
      OBVIOUS
    <3>2. Op(t) = "barrier_wait"
      BY <1>1, <1>6, <3>1, CallMade, CallKinds
    <3>3. WakeNext(t) \/ WakeLast(t)
      BY <1>6, <3>2, Doing DEF WakeTaker, WakePartner
    <3>4. QED
      BY <3>1, <3>3
  <2>2. QED
    BY <1>4, <1>6, <2>1
<1>7. CASE Refuse(t) /\ done' = [done EXCEPT ![t] = @ + 1]
  <2>1. pc[t] # "caller" /\ Op(t) = "handshake_wait_for"
    BY <1>1, <1>7 DEF Refuse, Refusing
  <2>2. On(t) # b
    BY <1>1, <2>1, CallMade, CallKinds
  <2>3. QED
    BY <1>4, <1>7, <2>1, <2>2
<1>8. CASE NotLocked(t) /\ done' = [done EXCEPT ![t] = @ + 2]
  <2> DEFINE op == "barrier_wait"
  <2>1. In(t, "acquire", "mutex_trylock")
    BY <1>8 DEF NotLocked
  <2>2. /\ Ended(op, b)' = Ended(op, b)
              + (IF op \in {"mutex_trylock", "mutex_unlock"} /\ On(t) = b THEN 1 ELSE 0)
        /\ \A u \in Tasklets : EndedBy(u, op, b)' = EndedBy(u, op, b)
              + (IF u = t /\ op \in {"mutex_trylock", "mutex_unlock"} /\ On(t) = b THEN 1 ELSE 0)
        /\ Ended(op, b) \in Nat /\ \A u \in Tasklets : EndedBy(u, op, b) \in Nat
    BY <1>1, <1>2, <1>8, <2>1, DeclineCounts
  <2>3. QED
    BY <2>2 DEF Round
<1>9. QED
  BY <1>1, <1>3, <1>5, <1>6, <1>7, <1>8, Returning

LEMMA OpenerStep ==
  ASSUME PInv, NEW t \in Tasklets, Step(t), NEW b \in Barriers
  PROVE  /\ \A x \in Tasklets \ {t} : Opener(x, b)' <=> Opener(x, b)
         /\ Opener(t, b)' <=> On(t) = b /\ (BarrierOpen(t) \/ WakeNext(t) \/ WakeLast(t))
         /\ Opener(t, b) <=> On(t) = b /\ (Release(t) \/ WakeNext(t) \/ WakeLast(t))
<1>1. IInv /\ TypeOK /\ QInv
  BY DEF PInv, QInv, IInv
<1>2. ASSUME NEW x \in Tasklets \ {t} PROVE Opener(x, b)' <=> Opener(x, b)
  <2>1. pc[t] = "wake" => pc[walk[t]] = "stopped"
    BY <1>1, OthersMove
  <2>2. CASE pc[t] = "wake" /\ x = walk[t]
    <3>1. pc'[x] = "caller" /\ pc[x] = "stopped"
      BY <1>1, <2>1, <2>2, StepMoves
    <3>2. QED
      BY <3>1 DEF Opener
  <2>3. CASE ~(pc[t] = "wake" /\ x = walk[t])
    <3>1. pc'[x] = pc[x] /\ done'[x] = done[x] /\ prog' = prog
      BY <1>1, <2>3, StepMoves
    <3>2. QED
      BY <3>1 DEF Opener, On
  <2>4. QED
    BY <2>2, <2>3
<1>3. On(t) = b => done[t] < Len(prog[t]) /\ Op(t) = "barrier_wait"
  <2>1. done[t] < Len(prog[t])
    BY <1>1, Doing, CallMade DEF Call
  <2>2. QED
    BY <1>1, <2>1, CallKinds
<1>4. ASSUME On(t) = b, BarrierOpen(t) \/ WakeNext(t) \/ WakeLast(t)
      PROVE  Opener(t, b)'
  <2>1. pc[t] = "wake" => walk[t] \in Tasklets \ {t}
    BY <1>1, WakerInside DEF Suspended
  <2>2. pc'[t] \in {"wake", "release"}
    BY <1>1, <1>4, <2>1 DEF BarrierOpen, WakeNext, WakeLast, Resume, TypeOK
  <2>3. On(t)' = On(t)
    BY <1>1, <2>2, SelfMoves
  <2>4. QED
    BY <1>4, <2>2, <2>3 DEF Opener
<1>5. ASSUME Opener(t, b)'
      PROVE  On(t) = b /\ (BarrierOpen(t) \/ WakeNext(t) \/ WakeLast(t))
  <2>1. pc'[t] \in {"wake", "release"} /\ On(t) = b /\ Op(t) = "barrier_wait"
    BY <1>1, <1>3, <1>5, SelfMoves DEF Opener
  <2>2. pc[t] \notin {"caller", "acquire", "release", "refuse", "suspend", "stop", "stopped"}
    BY <1>1, <2>1, Doing DEF TypeOK, Call, Acquire, Locked, NotLocked, Release, Suspend,
       Stop, Refuse
  <2>3. pc[t] = "section" => BarrierOpen(t)
    BY <1>1, <2>1, Doing DEF TypeOK, BarrierEnter, SemEnter, Enter,
       SemTake, SemGive, HandshakeFirst, HandshakeSecond, HandshakeRefused, In
  <2>4. pc[t] = "wake" => WakeNext(t) \/ WakeLast(t)
    BY <2>1, Doing DEF WakeTaker, WakePartner
  <2>5. QED
    BY <1>1, <2>1, <2>2, <2>3, <2>4 DEF TypeOK, Places
<1>6. Opener(t, b) <=> On(t) = b /\ (Release(t) \/ WakeNext(t) \/ WakeLast(t))
  BY <1>3, Doing DEF Opener, Release, WakeNext, WakeLast, WakeTaker, WakePartner, Resume
<1>7. QED
  BY <1>2, <1>4, <1>5, <1>6

(* The one that opens a barrier and those suspended in it are all its users. *)
LEMMA RoundComplete ==
  ASSUME PInv, NEW t \in Tasklets, BarrierOpen(t), NEW b \in Barriers, On(t) = b
  PROVE  \A u \in Users(b) : u = t \/ Suspended(u, b)
<1>1. IInv /\ TypeOK /\ QInv
  BY DEF PInv, QInv, IInv
<1>2. pc[t] = "section" /\ count[b] = 1 /\ Op(t) = "barrier_wait"
  BY DEF BarrierOpen, In, LastOne
<1>3. b \in Queued
  BY DEF Queued
<1>4. PICK n \in Nat : \E q : QueueIs(b, n, q)
  BY <1>1, <1>3 DEF QInv, Queues
<1>5. PICK q : QueueIs(b, n, q)
  BY <1>4
<1>6. /\ ~Opening(b) /\ Members(b) = {u \in Tasklets : Suspended(u, b)} /\ t \notin Members(b)
  BY <1>1, <1>2, <1>3, AtRest
<1>7. 1 + n = Size[b]
  BY <1>2, <1>5, <1>6 DEF QueueIs
<1>8. IsFiniteSet(Members(b)) /\ Cardinality(Members(b)) = n
  <2>1. Members(b) = {q[k] : k \in 1..n} /\ q \in [1..n -> Tasklets]
        /\ \A j, k \in 1..n : q[j] = q[k] => j = k
    BY <1>5 DEF QueueIs
  <2>2. Cardinality({q[k] : k \in 1..n}) = n
    BY <2>1, QueueCounted
  <2>3. Members(b) \in SUBSET Tasklets
    BY DEF Members
  <2>4. IsFiniteSet(Members(b))
    BY <2>3, TaskletsFinite, FS_Subset
  <2>5. QED
    BY <2>1, <2>2, <2>4
<1> DEFINE All == Members(b) \cup {t}
<1>9. IsFiniteSet(All) /\ Cardinality(All) = n + 1
  BY <1>6, <1>8, FS_AddElement
<1>10. \A u \in Tasklets : pc[u] # "caller" /\ On(u) = b => u \in Users(b)
  <2>1. SUFFICES ASSUME NEW u \in Tasklets, pc[u] # "caller", On(u) = b PROVE u \in Users(b)
    OBVIOUS
  <2>2. done[u] + 1 \in 1..Len(prog[u])
    BY <1>1, <2>1, CallMade, ProgramTyped DEF TypeOK
  <2>3. prog[u][done[u] + 1].on = b
    BY <2>1 DEF On
  <2>4. QED
    BY <2>2, <2>3 DEF Users
<1>11. All \subseteq Users(b)
  BY <1>2, <1>6, <1>10 DEF Suspended
<1>12. Cardinality(Users(b)) = Size[b]
  <2>1. ProgramOK(prog)
    BY <1>1, SyncAssumption DEF TypeOK
  <2>2. Users(b) # {}
    BY <1>11
  <2>3. QED
    BY <2>1, <2>2 DEF ProgramOK, Users
<1>13. IsFiniteSet(Users(b))
  BY TaskletsFinite, FS_Subset DEF Users
<1> HIDE DEF All
<1>14. All = Users(b)
  <2>1. Cardinality(All) = Cardinality(Users(b))
    BY <1>7, <1>9, <1>12
  <2>2. QED
    BY <1>11, <1>13, <2>1, FS_Subset
<1>15. QED
  BY <1>6, <1>14 DEF All

(* A barrier of which one releases the lock has nobody in its queue. *)
LEMMA NobodyLeft ==
  ASSUME PInv, NEW t \in Tasklets, pc[t] = "release", NEW b \in Barriers, On(t) = b
  PROVE  \A u \in Tasklets : ~Suspended(u, b)
<1>1. IInv /\ TypeOK /\ QInv /\ Emptied
  BY DEF PInv, QInv, IInv
<1>2. Op(t) = "barrier_wait"
  BY <1>1, CallMade, CallKinds
<1>3. wait_queue[b] = Empty /\ b \in Queued
  BY <1>1, <1>2 DEF Emptied, Queued
<1>4. PICK n \in Nat : \E q : QueueIs(b, n, q)
  BY <1>1, <1>3 DEF QInv, Queues
<1>5. PICK q : QueueIs(b, n, q)
  BY <1>4
<1>6. n = 0
  <2>1. SUFFICES ASSUME n # 0 PROVE FALSE
    OBVIOUS
  <2>2. n \in 1..n
    BY <2>1
  <2>3. q[n] \in Tasklets /\ wait_queue[b] = q[n]
    BY <1>5, <2>1, <2>2 DEF QueueIs
  <2>4. QED
    BY <1>3, <2>3, Numbers
<1>7. Members(b) = {}
  BY <1>5, <1>6 DEF QueueIs
<1>8. Leaving(b) = {}
  <2>1. \A v \in Tasklets : ~Waking(v, "sem_give", b)
    BY <1>1, CallMade, CallKinds DEF Waking
  <2>2. QED
    BY <2>1 DEF Leaving
<1>9. QED
  BY <1>7, <1>8 DEF Members

LEMMA RoundsStep ==
  ASSUME PInv, NEW t \in Tasklets, Step(t)
  PROVE  Rounds'
<1>1. IInv /\ TypeOK /\ QInv
  BY DEF PInv, QInv, IInv
<1>2. prog' = prog
  BY <1>1, StepMoves
<1>3. SUFFICES ASSUME NEW b \in Barriers
      PROVE  /\ \A x \in Tasklets : Opener(x, b)' =>
                  \A u \in Users(b) :
                    Round(u, b)' = Round(x, b)' + (IF u = x \/ Suspended(u, b)' THEN 0 ELSE 1)
             /\ (\A x \in Tasklets : ~Opener(x, b)') =>
                  \A u, v \in Users(b) : Round(u, b)' = Round(v, b)'
  <2>1. \A b \in Barriers : Users(b)' = Users(b)
    BY <1>2 DEF Users
  <2>2. QED
    BY <1>3, <2>1 DEF Rounds
<1>4. /\ \A x \in Tasklets : Opener(x, b) =>
           \A u \in Users(b) :
             Round(u, b) = Round(x, b) + (IF u = x \/ Suspended(u, b) THEN 0 ELSE 1)
      /\ (\A x \in Tasklets : ~Opener(x, b)) => \A u, v \in Users(b) : Round(u, b) = Round(v, b)
  BY DEF PInv, Rounds
<1>5. /\ \A x \in Tasklets \ {t} : Opener(x, b)' <=> Opener(x, b)
      /\ Opener(t, b)' <=> On(t) = b /\ (BarrierOpen(t) \/ WakeNext(t) \/ WakeLast(t))
      /\ Opener(t, b) <=> On(t) = b /\ (Release(t) \/ WakeNext(t) \/ WakeLast(t))
  BY OpenerStep
<1>6. Users(b) \subseteq Tasklets /\ b \in Queued /\ b \notin Mutexes
  BY SyncAssumption DEF Users, Queued
<1>7. \A u \in Tasklets : Round(u, b) \in Nat
  BY <1>1, DoneTyped, MadeFinite DEF Round, EndedBy
<1>8. ASSUME Inside(t), On(t) = b
      PROVE  \A x \in Tasklets \ {t} : ~Opener(x, b) /\ ~Opener(x, b)'
  BY <1>1, <1>5, <1>8, Alone DEF Opener
<1>9. ASSUME NEW x \in Tasklets, done' = [done EXCEPT ![x] = @ + 1], pc[x] # "caller", On(x) = b
      PROVE  \A u \in Tasklets : Round(u, b)' = Round(u, b) + (IF u = x THEN 1 ELSE 0)
  <2> DEFINE op == "barrier_wait"
  <2>1. done[x] < Len(prog[x]) /\ Op(x) = op
    BY <1>1, <1>9, CallMade, CallKinds
  <2>2. IInv /\ prog' = prog /\ done' = [done EXCEPT ![x] = @ + 1]
    BY <1>1, <1>2, <1>9
  <2>3. /\ Ended(op, b)' = Ended(op, b) + (IF Op(x) = op /\ On(x) = b THEN 1 ELSE 0)
        /\ \A u \in Tasklets : EndedBy(u, op, b)' =
             EndedBy(u, op, b) + (IF u = x /\ Op(x) = op /\ On(x) = b THEN 1 ELSE 0)
        /\ Ended(op, b) \in Nat /\ \A u \in Tasklets : EndedBy(u, op, b) \in Nat
    BY <2>1, <2>2, ReturnCounts
  <2>4. QED
    BY <1>9, <2>1, <2>3 DEF Round
<1>10. CASE On(t) = b /\ BarrierOpen(t)
  <2>1. pc[t] = "section" /\ done' = done
    BY <1>10 DEF BarrierOpen, In
  <2>2. Inside(t) /\ ~Opener(t, b)
    BY <1>6, <1>10, <2>1 DEF Inside, Opener
  <2>3. \A u \in Tasklets : Round(u, b)' = Round(u, b)
    BY <1>2, <2>1 DEF Round, EndedBy
  <2>4. \A u \in Users(b) \ {t} : Suspended(u, b)'
    BY <1>1, <1>6, <1>10, <2>1, RoundComplete, OthersMove
  <2>5. t \in Users(b)
    <3>1. done[t] + 1 \in 1..Len(prog[t])
      <4>1. done[t] < Len(prog[t]) /\ done[t] \in Nat /\ Len(prog[t]) \in Nat
        BY <1>1, <2>1, CallMade, ProgramTyped, DoneTyped DEF TypeOK
      <4>2. QED
        BY <4>1
    <3>2. prog[t][done[t] + 1].on = b
      BY <1>10 DEF On
    <3>3. QED
      BY <3>1, <3>2 DEF Users
  <2>6. \A u, v \in Users(b) : Round(u, b) = Round(v, b)
    BY <1>4, <1>8, <1>10, <2>2
  <2>7. \A u \in Users(b) : Round(u, b)' = Round(t, b)' + (IF u = t \/ Suspended(u, b)' THEN 0 ELSE 1)
    BY <1>6, <1>7, <2>3, <2>4, <2>5, <2>6
  <2>8. QED
    BY <1>5, <1>8, <1>10, <2>2, <2>7
<1>11. CASE On(t) = b /\ (WakeNext(t) \/ WakeLast(t))
  <2>1. pc[t] = "wake" /\ done' = [done EXCEPT ![walk[t]] = @ + 1]
    BY <1>11 DEF WakeNext, WakeLast, Resume
  <2>2. Inside(t)
    BY <1>6, <1>11, <2>1 DEF Inside
  <2>3. /\ \A u \in Tasklets : Suspended(u, b)' <=> Suspended(u, b) /\ u # walk[t]
        /\ walk[t] \in Tasklets \ {t} /\ Suspended(walk[t], b)
    BY <1>1, <1>6, <1>11, <2>1, WakesAlone
  <2>4. \A u \in Tasklets : Round(u, b)' = Round(u, b) + (IF u = walk[t] THEN 1 ELSE 0)
    <3>1. PICK x \in Tasklets : x = walk[t]
      BY <2>3
    <3>2. done' = [done EXCEPT ![x] = @ + 1] /\ pc[x] # "caller" /\ On(x) = b
      BY <2>1, <2>3, <3>1 DEF Suspended
    <3>3. \A u \in Tasklets : Round(u, b)' = Round(u, b) + (IF u = x THEN 1 ELSE 0)
      BY <1>9, <3>2
    <3>4. QED
      BY <3>1, <3>3
  <2>5. \A u \in Users(b) : Round(u, b) = Round(t, b) + (IF u = t \/ Suspended(u, b) THEN 0 ELSE 1)
    BY <1>4, <1>5, <1>11
  <2>6. \A u \in Users(b) : Round(u, b)' = Round(t, b)' + (IF u = t \/ Suspended(u, b)' THEN 0 ELSE 1)
    <3>1. SUFFICES ASSUME NEW u \in Users(b)
          PROVE  Round(u, b)' = Round(t, b)' + (IF u = t \/ Suspended(u, b)' THEN 0 ELSE 1)
      OBVIOUS
    <3>2. u \in Tasklets
      BY <1>6
    <3>3. Round(u, b) = Round(t, b) + (IF u = t \/ Suspended(u, b) THEN 0 ELSE 1)
      BY <2>5
    <3>4. Round(u, b)' = Round(u, b) + (IF u = walk[t] THEN 1 ELSE 0)
          /\ Round(t, b)' = Round(t, b) + (IF t = walk[t] THEN 1 ELSE 0)
      BY <2>4, <3>2
    <3>5. Suspended(u, b)' <=> Suspended(u, b) /\ u # walk[t]
      BY <2>3, <3>2
    <3>6. QED
      BY <1>7, <2>3, <3>2, <3>3, <3>4, <3>5
  <2>7. QED
    BY <1>5, <1>8, <1>11, <2>2, <2>6
<1>12. CASE On(t) = b /\ Release(t)
  <2>1. pc[t] = "release" /\ done' = [done EXCEPT ![t] = @ + 1]
    BY <1>12 DEF Release
  <2>2. Inside(t) /\ Opener(t, b)
    BY <1>6, <1>12, <2>1 DEF Inside, Opener
  <2>3. \A u \in Tasklets : ~Suspended(u, b)
    BY <1>12, <2>1, NobodyLeft
  <2>4. \A u \in Users(b) : Round(u, b) = Round(t, b) + (IF u = t THEN 0 ELSE 1)
    BY <1>4, <1>6, <2>2, <2>3
  <2>5. \A u \in Tasklets : Round(u, b)' = Round(u, b) + (IF u = t THEN 1 ELSE 0)
    BY <1>9, <1>12, <2>1
  <2>6. \A u \in Users(b) : Round(u, b)' = Round(t, b) + 1
    BY <1>6, <1>7, <2>4, <2>5
  <2>7. ~Opener(t, b)'
    BY <1>5, <2>1 DEF BarrierOpen, WakeNext, WakeLast, Resume, In
  <2>8. QED
    BY <1>8, <1>12, <2>2, <2>6, <2>7
<1>13. CASE ~(On(t) = b /\ (BarrierOpen(t) \/ WakeNext(t) \/ WakeLast(t) \/ Release(t)))
  <2>1. \A u \in Tasklets : Round(u, b)' = Round(u, b)
    BY <1>13, RoundUncounted
  <2>2. \A x \in Tasklets : Opener(x, b)' <=> Opener(x, b)
    BY <1>5, <1>13
  <2>3. ASSUME NEW x \in Tasklets, Opener(x, b)
        PROVE  \A u \in Tasklets \ {x} : Suspended(u, b)' <=> Suspended(u, b)
    <3>1. SUFFICES ASSUME NEW u \in Tasklets \ {x} PROVE Suspended(u, b)' <=> Suspended(u, b)
      OBVIOUS
    <3>2. CASE u # t
      <4>1. ~(pc[t] = "wake" /\ u = walk[t] /\ Suspended(u, b))
        <5>1. SUFFICES ASSUME pc[t] = "wake", u = walk[t], Suspended(u, b) PROVE FALSE
          OBVIOUS
        <5>2. On(t) = b
          BY <1>1, <5>1, WakerInside DEF Suspended
        <5>3. Op(t) = "barrier_wait"
          BY <1>1, <5>1, <5>2, CallMade, CallKinds
        <5>4. WakeNext(t) \/ WakeLast(t)
          BY <5>1, <5>3, Doing DEF WakeTaker, WakePartner
        <5>5. QED
          BY <1>13, <5>2, <5>4
      <4>2. QED
        BY <1>1, <3>2, <4>1, OthersMove
    <3>3. CASE u = t
      <4>1. CASE On(t) # b
        BY <1>1, <3>3, <4>1, SelfMoves DEF Suspended
      <4>2. CASE On(t) = b
        <5>1. ~Inside(t)
          BY <1>8, <2>3, <3>1, <3>3, <4>2
        <5>2. pc[t] \in {"caller", "acquire", "stop", "stopped"}
          BY <1>1, <1>6, <4>2, <5>1 DEF Inside, TypeOK, Places
        <5>3. pc[t] = "stop" \/ (pc[t] # "stop" /\ pc'[t] \in {"acquire", "release", "section", "caller"})
          BY <1>1, <5>2, Doing DEF TypeOK, Call, Acquire, Locked, NotLocked
        <5>4. pc[t] = "stop" => pc'[t] = "stopped"
          BY <1>1, Doing DEF Stop, TypeOK
        <5>5. QED
          BY <1>1, <3>3, <4>2, <5>2, <5>3, <5>4, SelfMoves, Doing DEF Suspended
      <4>3. QED
        BY <4>1, <4>2
    <3>4. QED
      BY <3>2, <3>3
  <2>4. QED
    BY <1>4, <1>6, <2>1, <2>2, <2>3
<1>14. QED
  BY <1>10, <1>11, <1>12, <1>13

LEMMA TakersStep ==
  ASSUME PInv, NEW t \in Tasklets, Step(t)
  PROVE  Takers'
<1>1. IInv /\ TypeOK /\ Takers
  BY DEF PInv, QInv, IInv
<1>2. SUFFICES ASSUME NEW u \in Tasklets, pc'[u] \in {"suspend", "stop", "stopped"}, On(u)' \in Sems
               PROVE  Op(u)' = "sem_take"
  BY DEF Takers, On
<1>3. Op(u)' = Op(u) /\ On(u)' = On(u) /\ (u # t => pc'[u] = pc[u])
  BY <1>1, <1>2, CallsStay
<1>4. CASE u # t
  BY <1>1, <1>2, <1>3, <1>4 DEF Takers
<1>5. CASE u = t
  <2>1. done[t] < Len(prog[t])
    BY <1>1, Doing, CallMade DEF Call
  <2>2. Op(t) \in {"sem_take", "sem_give"}
    BY <1>1, <1>2, <1>3, <1>5, <2>1, CallKinds
  <2>3. pc[t] \in {"suspend", "stop"} \/ SemEnter(t)
    <3>1. pc[t] \notin {"caller", "acquire", "release", "refuse", "stopped"}
      BY <1>1, <1>2, <1>5, Doing DEF TypeOK, Call, Acquire, Locked, NotLocked, Release, Refuse
    <3>2. pc[t] # "wake"
      <4>1. SUFFICES ASSUME pc[t] = "wake" PROVE FALSE
        OBVIOUS
      <4>2. WakeTaker(t)
        BY <2>2, <4>1, Doing DEF WakeNext, WakeLast, WakePartner
      <4>3. pc'[t] \in {"release", "caller"}
        BY <1>1, <4>2 DEF WakeTaker, TypeOK
      <4>4. QED
        BY <1>2, <1>5, <4>3
    <3>3. pc[t] = "section" => SemEnter(t)
      BY <1>1, <1>2, <1>5, <2>2, Doing DEF TypeOK, BarrierEnter, BarrierOpen, SemTake, SemGive,
         HandshakeFirst, HandshakeSecond, HandshakeRefused, In
    <3>4. QED
      BY <1>1, <3>1, <3>2, <3>3 DEF TypeOK, Places
  <2>4. QED
    BY <1>1, <1>2, <1>3, <1>5, <2>3 DEF Takers, SemEnter, In
<1>6. QED
  BY <1>4, <1>5

-----------------------------------------------------------------------------
(* All of it, from the start on.                                             *)
LEMMA NoneMade ==
  ASSUME NEW p, NEW op, NEW on, NEW f, \A t \in Tasklets : f[t] = 0
  PROVE  /\ Number(p, op, on, f) = 0
         /\ \A t \in Tasklets : Cardinality(Made(p, t, op, on, f[t])) = 0
<1>1. 1..0 = {}
  OBVIOUS
<1>2. \A t \in Tasklets : Made(p, t, op, on, f[t]) = {}
  BY <1>1 DEF Made
<1>3. AllMade(p, op, on, f) = {}
  BY <1>2 DEF AllMade
<1>4. Cardinality({}) = 0
  BY FS_EmptySet
<1>5. QED
  BY <1>2, <1>3, <1>4, Zenon DEF Number

LEMMA InitCounts == Init => PInv
<1> SUFFICES ASSUME Init PROVE PInv
  OBVIOUS
<1>1. QInv
  BY InitQueues
<1>2. \A t \in Tasklets : done[t] = 0 /\ pc[t] = "caller" /\ Applied[t] = 0 /\ refused[t] = 0
  BY DEF Init, Applied, Entered
<1>3. \A op, on : /\ Ended(op, on) = 0 /\ Counted(op, on) = 0
                  /\ \A t \in Tasklets : EndedBy(t, op, on) = 0
  BY <1>2, NoneMade DEF Ended, Counted, EndedBy
<1>4. Chosen /\ Refusing /\ Emptied /\ Takers /\ MutexPlaces
  BY <1>2 DEF Chosen, Refusing, Emptied, Takers, MutexPlaces
<1>5. Holding
  BY <1>3, Numbers DEF Holding, Init, Objects
<1>6. MutexTotals
  BY <1>3 DEF MutexTotals, Init, Objects
<1>7. CellTotals
  BY <1>2, <1>3 DEF CellTotals, Releasing
<1>8. SemUnits
  <2>1. SUFFICES ASSUME NEW s \in Sems
        PROVE count[s] + Counted("sem_take", s) = Initial[s] + Counted("sem_give", s)
    BY DEF SemUnits
  <2>2. count[s] = Initial[s]
    BY SyncAssumption DEF Init, Queued
  <2>3. Counted("sem_take", s) = 0 /\ Counted("sem_give", s) = 0
    BY <1>3
  <2>4. Initial[s] \in 0..127
    BY SyncAssumption
  <2>5. QED
    BY <2>2, <2>3, <2>4
<1>9. Rounds
  <2>1. \A b \in Barriers, t \in Tasklets : Round(t, b) = 0 /\ ~Opener(t, b)
    BY <1>2, <1>3 DEF Round, Opener
  <2>2. QED
    BY <2>1 DEF Rounds, Users
<1>10. QED
  BY <1>1, <1>4, <1>5, <1>6, <1>7, <1>8, <1>9 DEF PInv

LEMMA InductiveCounts == PInv /\ [Next]_vars => PInv'
<1> SUFFICES ASSUME PInv, [Next]_vars PROVE PInv'
  OBVIOUS
<1>1. QInv'
  BY InductiveQueues DEF PInv
<1>2. CASE UNCHANGED vars
  BY <1>1, <1>2 DEF vars, PInv, Chosen, Refusing, Emptied, Takers, MutexPlaces, Holding, MutexTotals,
     CellTotals, SemUnits, Rounds, Op, On, Ended, EndedBy, Counted, Applied, Entered, Releasing,
     Users, Round, Opener, Suspended
<1>3. ASSUME NEW t \in Tasklets, Step(t) PROVE PInv'
  <2>1. Chosen' /\ Refusing' /\ Emptied' /\ Takers' /\ MutexPlaces' /\ Holding' /\ MutexTotals'
    BY <1>3, ChosenStep, RefusingStep, EmptiedStep, TakersStep, MutexPlacesStep, MutexStep
  <2>2. CellTotals' /\ SemUnits' /\ Rounds'
    BY <1>3, CellTotalsStep, SemUnitsStep, RoundsStep
  <2>3. QED
    BY <1>1, <2>1, <2>2 DEF PInv
<1>4. QED
  BY <1>2, <1>3 DEF Next, Halted

LEMMA AlwaysPInv == Spec => []PInv
BY InitCounts, InductiveCounts, PTL DEF Spec

-----------------------------------------------------------------------------
(* Which calls have been made.                                               *)
Begun == [t \in Tasklets |-> done[t] + (IF pc[t] = "caller" THEN 0 ELSE 1)]

LEMMA BegunTyped ==
  ASSUME IInv
  PROVE  /\ Begun \in [Tasklets -> Nat]
         /\ \A t \in Tasklets : Begun[t] = done[t] + (IF pc[t] = "caller" THEN 0 ELSE 1)
         /\ \A t \in Tasklets : done[t] <= Begun[t] /\ done[t] <= Applied[t] /\ Applied[t] <= Begun[t]
<1>1. \A t \in Tasklets : done[t] \in Nat
  BY DoneTyped
<1>2. QED
  BY <1>1 DEF Begun, Applied, Entered

(* A step begins a call by Call only, or skips one with NotLocked. *)
LEMMA BegunStep ==
  ASSUME PInv, NEW t \in Tasklets, Step(t)
  PROVE  /\ \A u \in Tasklets \ {t} : Begun'[u] = Begun[u]
         /\ Begun'[t] = IF Call(t) \/ NotLocked(t) THEN Begun[t] + 1 ELSE Begun[t]
<1>1. IInv /\ TypeOK /\ QInv
  BY DEF PInv, QInv, IInv
<1>2. \A u \in Tasklets :
        /\ done[u] \in Nat
        /\ Begun'[u] = done'[u] + (IF pc'[u] = "caller" THEN 0 ELSE 1)
        /\ Begun[u] = done[u] + (IF pc[u] = "caller" THEN 0 ELSE 1)
  BY <1>1, DoneTyped DEF Begun
<1>3. ASSUME NEW u \in Tasklets \ {t} PROVE Begun'[u] = Begun[u]
  <2>1. CASE pc[t] = "wake" /\ u = walk[t]
    <3>1. pc'[u] = "caller" /\ pc[u] = "stopped"
      BY <1>1, <2>1, StepMoves, OthersMove
    <3>2. done' = [done EXCEPT ![u] = @ + 1]
      BY <1>1, <2>1, Doing DEF WakeNext, WakeLast, WakeTaker, WakePartner, Resume
    <3>3. done'[u] = done[u] + 1
      BY <1>1, <3>2, DoneTyped
    <3>4. QED
      BY <1>2, <3>1, <3>3
  <2>2. CASE ~(pc[t] = "wake" /\ u = walk[t])
    <3>1. pc'[u] = pc[u] /\ done'[u] = done[u]
      BY <1>1, <2>2, StepMoves
    <3>2. QED
      BY <1>2, <3>1
  <2>3. QED
    BY <2>1, <2>2
<1>4. CASE Call(t)
  <2>1. pc[t] = "caller" /\ pc'[t] # "caller" /\ done' = done
    BY <1>1, <1>4 DEF Call, TypeOK
  <2>2. QED
    BY <1>2, <1>3, <1>4, <2>1
<1>5. CASE NotLocked(t)
  <2>1. pc[t] = "acquire" /\ pc'[t] = "caller" /\ done'[t] = done[t] + 2
    BY <1>1, <1>5 DEF NotLocked, In, TypeOK
  <2>2. QED
    BY <1>2, <1>3, <1>5, <2>1
<1>6. CASE Locked(t) \/ Release(t) \/ Refuse(t)
  <2>1. pc[t] # "caller" /\ pc'[t] = "caller" /\ done'[t] = done[t] + 1
    BY <1>1, <1>6 DEF Locked, Release, Refuse, TypeOK
  <2>2. ~Call(t) /\ ~NotLocked(t)
    <3>1. ~Call(t)
      BY <2>1 DEF Call
    <3>2. NotLocked(t) => done'[t] = done[t] + 2
      BY <1>1 DEF NotLocked, TypeOK
    <3>3. QED
      BY <1>2, <2>1, <3>1, <3>2
  <2>3. QED
    BY <1>2, <1>3, <2>1, <2>2
<1>7. CASE ~(Call(t) \/ NotLocked(t) \/ Locked(t) \/ Release(t) \/ Refuse(t))
  <2>1. pc[t] # "caller"
    BY <1>7, Doing
  <2>2. pc'[t] # "caller"
    <3>1. pc[t] = "wake" => pc'[t] \in {"wake", "release"}
      BY <1>1, Doing, WakerInside DEF TypeOK, WakeNext, WakeLast, WakeTaker,
         WakePartner, Suspended, Resume
    <3>2. pc[t] \in {"acquire", "suspend", "stop"} => pc'[t] \in {"section", "stop", "stopped"}
      BY <1>1, <1>7, Doing DEF TypeOK, Acquire, Suspend, Stop
    <3>3. pc[t] = "section" => pc'[t] \in {"suspend", "release", "wake", "refuse"}
      BY <1>1, Doing DEF TypeOK, BarrierEnter, BarrierOpen, SemEnter, Enter, SemTake, SemGive,
         HandshakeFirst, HandshakeSecond, HandshakeRefused
    <3>4. pc[t] \notin {"release", "refuse", "stopped"}
      BY <1>7, Doing
    <3>5. QED
      BY <1>1, <2>1, <3>1, <3>2, <3>3, <3>4 DEF TypeOK, Places
  <2>3. done'[t] = done[t]
    BY <1>1, <2>2, StepMoves
  <2>4. QED
    BY <1>2, <1>3, <1>7, <2>1, <2>2, <2>3
<1>8. QED
  BY <1>4, <1>5, <1>6, <1>7

(* The calls made by one tasklet are those that have returned and the one    *)
(* it is in.                                                                 *)
LEMMA BegunBy ==
  ASSUME IInv, NEW u \in Tasklets, NEW op, NEW on
  PROVE  Cardinality(Made(prog, u, op, on, Begun[u])) = EndedBy(u, op, on)
           + (IF pc[u] # "caller" /\ Op(u) = op /\ On(u) = on THEN 1 ELSE 0)
<1>1. done[u] \in Nat /\ Begun[u] = done[u] + (IF pc[u] = "caller" THEN 0 ELSE 1)
  BY DoneTyped, BegunTyped
<1>2. Cardinality(Made(prog, u, op, on, done[u])) \in Nat
  BY <1>1, MadeFinite
<1>3. CASE pc[u] = "caller"
  BY <1>1, <1>2, <1>3 DEF EndedBy
<1>4. CASE pc[u] # "caller"
  <2>1. IsCall(prog, u, op, on, done[u] + 1) <=> Op(u) = op /\ On(u) = on
    BY <1>4, CallMade, CurrentCall
  <2>2. Begun[u] = done[u] + 1
    BY <1>1, <1>4
  <2>3. PICK m : m = Begun[u]
    OBVIOUS
  <2>4. m = done[u] + 1
    BY <2>2, <2>3
  <2>5. CASE Op(u) = op /\ On(u) = on
    <3>1. IsCall(prog, u, op, on, m)
      BY <2>1, <2>4, <2>5
    <3>2. Cardinality(Made(prog, u, op, on, m)) = Cardinality(Made(prog, u, op, on, done[u])) + 1
      BY <1>1, <2>4, <3>1, MadeNext
    <3>3. QED
      BY <1>4, <2>3, <2>5, <3>2 DEF EndedBy
  <2>6. CASE ~(Op(u) = op /\ On(u) = on)
    <3>1. ~IsCall(prog, u, op, on, m)
      BY <2>1, <2>4, <2>6
    <3>2. Made(prog, u, op, on, m) = Made(prog, u, op, on, done[u])
      BY <1>1, <2>4, <3>1, MadeOther
    <3>3. QED
      BY <1>2, <1>4, <2>3, <2>6, <3>2 DEF EndedBy
  <2>7. QED
    BY <2>5, <2>6
<1>5. QED
  BY <1>3, <1>4

(* In all at least as many have been made as have returned, more by the      *)
(* tasklets that are in such a call.                                         *)
LEMMA BegunAtLeast ==
  ASSUME IInv, NEW op, NEW on
  PROVE  /\ Ended(op, on) \in Nat /\ Number(prog, op, on, Begun) \in Nat
         /\ Number(prog, op, on, Begun) >= Ended(op, on)
         /\ \A t \in Tasklets : pc[t] # "caller" /\ Op(t) = op /\ On(t) = on =>
              Number(prog, op, on, Begun) >= Ended(op, on) + 1
<1>1. /\ done \in [Tasklets -> Nat] /\ Begun \in [Tasklets -> Nat]
      /\ \A t \in Tasklets : done[t] <= Begun[t]
      /\ \A t \in Tasklets : Begun[t] = done[t] + (IF pc[t] = "caller" THEN 0 ELSE 1)
  BY DoneTyped, BegunTyped
<1>2. Ended(op, on) \in Nat /\ Number(prog, op, on, Begun) \in Nat
  BY <1>1, AllMadeFinite DEF Ended
<1>3. ASSUME NEW D \in SUBSET Tasklets, \A u \in D : pc[u] # "caller" /\ Op(u) = op /\ On(u) = on
      PROVE  /\ Cardinality(D) \in Nat
             /\ Number(prog, op, on, Begun) >= Number(prog, op, on, done) + Cardinality(D)
  <2>1. \A u \in D : done[u] < Begun[u] /\ IsCall(prog, u, op, on, done[u] + 1)
    <3>1. SUFFICES ASSUME NEW u \in D
          PROVE  done[u] < Begun[u] /\ IsCall(prog, u, op, on, done[u] + 1)
      OBVIOUS
    <3>2. done[u] < Begun[u]
      BY <1>1, <1>3
    <3>3. IsCall(prog, u, op, on, done[u] + 1)
      BY <1>3, CallMade, CurrentCall
    <3>4. QED
      BY <3>2, <3>3
  <2>2. QED
    BY <1>1, <2>1, NumberMore
<1>4. Number(prog, op, on, Begun) >= Ended(op, on)
  <2>1. Number(prog, op, on, Begun) >= Number(prog, op, on, done) + Cardinality({})
    BY <1>3
  <2>2. Cardinality({}) = 0
    BY FS_EmptySet
  <2>3. QED
    BY <1>2, <2>1, <2>2 DEF Ended
<1>5. ASSUME NEW t \in Tasklets, pc[t] # "caller", Op(t) = op, On(t) = on
      PROVE  Number(prog, op, on, Begun) >= Ended(op, on) + 1
  <2>1. Number(prog, op, on, Begun) >= Number(prog, op, on, done) + Cardinality({t})
    BY <1>3, <1>5
  <2>2. Cardinality({t}) = 1
    BY FS_Singleton
  <2>3. QED
    BY <1>2, <2>1, <2>2 DEF Ended
<1>6. QED
  BY <1>2, <1>4, <1>5

-----------------------------------------------------------------------------
(* Why a call may return.                                                    *)
(* A barrier that opens has been entered by all its users once more than the *)
(* one that returns has gone through it.                                     *)
LEMMA BarrierMayReturn ==
  ASSUME PInv, NEW t \in Tasklets, NEW b \in Barriers, Opener(t, b),
         NEW x \in Tasklets, pc[x] # "caller", On(x) = b, x = t \/ Suspended(x, b)
  PROVE  Number(prog, "barrier_wait", b, Begun) >= Size[b] * (Round(x, b) + 1)
<1>1. IInv /\ TypeOK /\ QInv
  BY DEF PInv, QInv, IInv
<1>2. \A u \in Tasklets : Round(u, b) \in Nat
  BY <1>1, DoneTyped, MadeFinite DEF Round, EndedBy
<1>3. Users(b) \in SUBSET Tasklets
  BY DEF Users
<1>4. \A u \in Users(b) : Round(u, b) = Round(t, b) + (IF u = t \/ Suspended(u, b) THEN 0 ELSE 1)
  BY DEF PInv, Rounds
<1>5. x \in Users(b)
  <2>1. done[x] < Len(prog[x]) /\ done[x] \in Nat /\ Len(prog[x]) \in Nat
    BY <1>1, CallMade, ProgramTyped, DoneTyped DEF TypeOK
  <2>2. done[x] + 1 \in 1..Len(prog[x])
    BY <2>1
  <2>3. prog[x][done[x] + 1].on = b
    BY DEF On
  <2>4. QED
    BY <2>2, <2>3 DEF Users
<1>6. Round(x, b) = Round(t, b)
  BY <1>2, <1>4, <1>5
<1>7. ASSUME NEW u \in Users(b)
      PROVE  Cardinality(Made(prog, u, "barrier_wait", b, Begun[u])) >= Round(x, b) + 1
  <2>1. u \in Tasklets
    BY <1>3
  <2>2. Cardinality(Made(prog, u, "barrier_wait", b, Begun[u])) = EndedBy(u, "barrier_wait", b)
          + (IF pc[u] # "caller" /\ Op(u) = "barrier_wait" /\ On(u) = b THEN 1 ELSE 0)
    BY <1>1, <2>1, BegunBy
  <2>3. u = t \/ Suspended(u, b) => pc[u] # "caller" /\ On(u) = b
    BY DEF Opener, Suspended
  <2>4. u = t \/ Suspended(u, b) => Op(u) = "barrier_wait"
    BY <1>1, <2>1, <2>3, CallMade, CallKinds
  <2>5. Round(u, b) = Round(t, b) + (IF u = t \/ Suspended(u, b) THEN 0 ELSE 1)
    BY <1>4
  <2>6. Round(u, b) \in Nat /\ Round(t, b) \in Nat
    BY <1>2, <2>1
  <2>7. QED
    BY <1>6, <2>2, <2>3, <2>4, <2>5, <2>6 DEF Round
<1>8. Begun \in [Tasklets -> Nat] /\ Round(x, b) + 1 \in Nat
  BY <1>1, <1>2, BegunTyped
<1>9. Number(prog, "barrier_wait", b, Begun) >= Cardinality(Users(b)) * (Round(x, b) + 1)
  <2>1. PICK m \in Nat : m = Round(x, b) + 1
    BY <1>8
  <2>2. \A u \in Users(b) : Cardinality(Made(prog, u, "barrier_wait", b, Begun[u])) >= m
    BY <1>7, <2>1
  <2>3. Number(prog, "barrier_wait", b, Begun) >= Cardinality(Users(b)) * m
    BY <1>3, <1>8, <2>2, NumberAtLeast
  <2>4. QED
    BY <2>1, <2>3
<1>10. Cardinality(Users(b)) = Size[b]
  <2>1. ProgramOK(prog)
    BY <1>1, SyncAssumption DEF TypeOK
  <2>2. Users(b) # {}
    BY <1>5
  <2>3. QED
    BY <2>1, <2>2 DEF ProgramOK, Users
<1>11. QED
  BY <1>9, <1>10

(* The units taken are those of the takes that have returned, of the ones    *)
(* suspended, and of the one that returns.                                   *)
LEMMA TakeMayReturn ==
  ASSUME PInv, NEW s \in Sems, NEW x \in Tasklets, Op(x) = "sem_take", On(x) = s,
         pc[x] = "release" \/ (pc[x] = "stopped" /\ x \in Leaving(s))
  PROVE  Ended("sem_take", s) < Initial[s] + Number(prog, "sem_give", s, Begun)
<1>1. IInv /\ TypeOK /\ QInv /\ Takers
  BY DEF PInv, QInv, IInv
<1>2. s \in Queued
  BY DEF Queued
<1>3. PICK n \in Nat : \E q : QueueIs(s, n, q)
  BY <1>1, <1>2 DEF QInv, Queues
<1>4. PICK q : QueueIs(s, n, q)
  BY <1>3
<1>5. IsFiniteSet(Members(s)) /\ Cardinality(Members(s)) = n
  <2>1. Members(s) = {q[k] : k \in 1..n} /\ q \in [1..n -> Tasklets]
        /\ \A j, k \in 1..n : q[j] = q[k] => j = k
    BY <1>4 DEF QueueIs
  <2>2. Cardinality({q[k] : k \in 1..n}) = n
    BY <2>1, QueueCounted
  <2>3. Members(s) \in SUBSET Tasklets
    BY DEF Members
  <2>4. IsFiniteSet(Members(s))
    BY <2>3, TaskletsFinite, FS_Subset
  <2>5. QED
    BY <2>1, <2>2, <2>4
<1>6. x \notin Members(s)
  BY DEF Members, Suspended
<1> DEFINE D == Members(s) \cup {x}
<1>7. Cardinality(D) = n + 1
  BY <1>5, <1>6, FS_AddElement
<1>8. \A u \in D : Entered(u) /\ pc[u] # "caller" /\ Op(u) = "sem_take" /\ On(u) = s
  BY <1>1 DEF Members, Suspended, Takers, Entered
<1>9. D \in SUBSET Tasklets
  BY DEF Members
<1>10. /\ done \in [Tasklets -> Nat] /\ Applied \in [Tasklets -> Nat] /\ Begun \in [Tasklets -> Nat]
       /\ \A u \in Tasklets : done[u] <= Applied[u] /\ Applied[u] <= Begun[u]
       /\ \A u \in Tasklets : Applied[u] = done[u] + (IF Entered(u) THEN 1 ELSE 0)
  BY <1>1, DoneTyped, AppliedTyped, BegunTyped DEF Applied
<1>11. \A u \in D : done[u] < Applied[u] /\ IsCall(prog, u, "sem_take", s, done[u] + 1)
  <2>1. SUFFICES ASSUME NEW u \in D
        PROVE  done[u] < Applied[u] /\ IsCall(prog, u, "sem_take", s, done[u] + 1)
    OBVIOUS
  <2>2. u \in Tasklets
    BY <1>9
  <2>3. done[u] < Applied[u]
    BY <1>8, <1>10, <2>2
  <2>4. IsCall(prog, u, "sem_take", s, done[u] + 1)
    BY <1>1, <1>8, <2>2, CallMade, CurrentCall
  <2>5. QED
    BY <2>3, <2>4
<1> HIDE DEF D
<1>12. Counted("sem_take", s) >= Ended("sem_take", s) + (n + 1)
  <2>1. Number(prog, "sem_take", s, Applied) >= Number(prog, "sem_take", s, done) + Cardinality(D)
    BY <1>9, <1>10, <1>11, NumberMore
  <2>2. QED
    BY <1>7, <2>1 DEF Counted, Ended
<1>13. Number(prog, "sem_give", s, Begun) >= Counted("sem_give", s)
  <2>1. Number(prog, "sem_give", s, Begun) >= Number(prog, "sem_give", s, Applied) + Cardinality({})
    BY <1>10, NumberMore
  <2>2. Cardinality({}) = 0 /\ Number(prog, "sem_give", s, Applied) \in Nat
        /\ Number(prog, "sem_give", s, Begun) \in Nat
    BY <1>10, FS_EmptySet, AllMadeFinite
  <2>3. QED
    BY <2>1, <2>2 DEF Counted
<1>14. count[s] + Counted("sem_take", s) = Initial[s] + Counted("sem_give", s)
  BY DEF PInv, SemUnits
<1>15. n = IF count[s] < 0 THEN -count[s] ELSE 0
  BY <1>4 DEF QueueIs
<1>16. /\ Counted("sem_take", s) \in Nat /\ Counted("sem_give", s) \in Nat
       /\ Ended("sem_take", s) \in Nat /\ Number(prog, "sem_give", s, Begun) \in Nat
  BY <1>10, AllMadeFinite DEF Counted, Ended
<1>17. count[s] \in Int /\ Initial[s] \in Int
  <2>1. count[s] \in Int
    BY <1>1, <1>2 DEF TypeOK
  <2>2. Initial[s] \in 0..127
    BY SyncAssumption
  <2>3. QED
    BY <2>1, <2>2
<1>18. n + count[s] >= 0
  BY <1>15, <1>17
<1>19. QED
  BY <1>12, <1>13, <1>14, <1>16, <1>17, <1>18

(* A notification and a wait return after each other. *)
LEMMA HandshakeMayReturn ==
  ASSUME PInv, NEW t \in Tasklets, NEW n \in Tasklets, On(t) = n,
         NEW x \in Tasklets, \/ pc[t] = "release" /\ x = t
                             \/ pc[t] = "wake" /\ x = walk[t]
  PROVE  /\ Op(x) = "handshake_notify" =>
              Ended("handshake_notify", n) < Number(prog, "handshake_wait_for", n, Begun) - refused[n]
         /\ Op(x) = "handshake_wait_for" =>
              Ended("handshake_wait_for", n) - refused[n] < Number(prog, "handshake_notify", n, Begun)
<1>1. IInv /\ TypeOK /\ QInv
  BY DEF PInv, QInv, IInv
<1>2. /\ \A y \in Tasklets : Releasing(y, n) =>
           IF Op(y) = "handshake_notify"
           THEN Ended("handshake_wait_for", n) - refused[n] = Ended("handshake_notify", n) + 1
           ELSE Ended("handshake_notify", n) = Ended("handshake_wait_for", n) - refused[n] + 1
      /\ (\A y \in Tasklets : ~Releasing(y, n)) =>
           Ended("handshake_notify", n) = Ended("handshake_wait_for", n) - refused[n]
  BY DEF PInv, CellTotals
<1>3. refused[n] \in Nat
  BY <1>1 DEF TypeOK
<1>4. ASSUME NEW op
      PROVE  /\ Ended(op, n) \in Nat /\ Number(prog, op, n, Begun) \in Nat
             /\ Number(prog, op, n, Begun) >= Ended(op, n)
             /\ \A y \in Tasklets : pc[y] # "caller" /\ Op(y) = op /\ On(y) = n =>
                  Number(prog, op, n, Begun) >= Ended(op, n) + 1
  BY <1>1, BegunAtLeast
<1>5. CASE pc[t] = "release" /\ x = t
  <2>1. Releasing(t, n)
    BY <1>5 DEF Releasing
  <2>2. IF Op(t) = "handshake_notify"
        THEN Ended("handshake_wait_for", n) - refused[n] = Ended("handshake_notify", n) + 1
        ELSE Ended("handshake_notify", n) = Ended("handshake_wait_for", n) - refused[n] + 1
    BY <1>2, <2>1
  <2>3. /\ Ended("handshake_notify", n) \in Nat /\ Ended("handshake_wait_for", n) \in Nat
        /\ Number(prog, "handshake_notify", n, Begun) \in Nat
        /\ Number(prog, "handshake_wait_for", n, Begun) \in Nat
        /\ Number(prog, "handshake_notify", n, Begun) >= Ended("handshake_notify", n)
        /\ Number(prog, "handshake_wait_for", n, Begun) >= Ended("handshake_wait_for", n)
    BY <1>4
  <2>4. QED
    BY <1>3, <1>5, <2>2, <2>3
<1>6. CASE pc[t] = "wake" /\ x = walk[t]
  <2>1. Inside(t)
    BY <1>6, SyncAssumption DEF Inside
  <2>2. \A y \in Tasklets : ~Releasing(y, n)
    BY <1>1, <1>6, <2>1, Alone DEF Releasing
  <2>3. Ended("handshake_notify", n) = Ended("handshake_wait_for", n) - refused[n]
    BY <1>2, <2>2
  <2>4. /\ Op(t) \in {"handshake_notify", "handshake_wait_for"}
        /\ Op(x) = IF Op(t) = "handshake_notify" THEN "handshake_wait_for" ELSE "handshake_notify"
    BY <1>6, Partners
  <2>5. /\ Ended("handshake_notify", n) \in Nat /\ Ended("handshake_wait_for", n) \in Nat
        /\ Number(prog, "handshake_notify", n, Begun) \in Nat
        /\ Number(prog, "handshake_wait_for", n, Begun) \in Nat
        /\ Op(t) = "handshake_notify" =>
             Number(prog, "handshake_notify", n, Begun) >= Ended("handshake_notify", n) + 1
        /\ Op(t) = "handshake_wait_for" =>
             Number(prog, "handshake_wait_for", n, Begun) >= Ended("handshake_wait_for", n) + 1
    <3>1. pc[t] # "caller"
      BY <1>6
    <3>2. QED
      BY <1>4, <3>1
  <2>6. QED
    BY <1>3, <2>3, <2>4, <2>5
<1>7. QED
  BY <1>5, <1>6

(* Nobody has a mutex that is locked next, or is about to give it back. *)
LEMMA LockMayReturn ==
  ASSUME PInv, NEW m \in Mutexes, lock[m] = Free
  PROVE  Ended("mutex_lock", m) + Ended("mutex_trylock", m) = Number(prog, "mutex_unlock", m, Begun)
<1>1. IInv /\ TypeOK /\ QInv /\ MutexPlaces
  BY DEF PInv, QInv, IInv
<1>2. Ended("mutex_lock", m) + Ended("mutex_trylock", m) = Ended("mutex_unlock", m) + 0
  BY DEF PInv, MutexTotals
<1>3. ASSUME NEW u \in Tasklets
      PROVE  Made(prog, u, "mutex_unlock", m, Begun[u]) = Made(prog, u, "mutex_unlock", m, done[u])
  <2>1. done[u] \in Nat /\ Begun[u] = done[u] + (IF pc[u] = "caller" THEN 0 ELSE 1)
    BY <1>1, DoneTyped, BegunTyped
  <2>2. CASE pc[u] = "caller"
    <3>1. Begun[u] = done[u]
      BY <2>1, <2>2
    <3>2. QED
      BY <3>1
  <2>3. CASE pc[u] # "caller"
    <3>1. ~(Op(u) = "mutex_unlock" /\ On(u) = m)
      BY <1>1, <2>3, Numbers DEF MutexPlaces
    <3>2. Begun[u] = done[u] + 1
      BY <2>1, <2>3
    <3>3. ~IsCall(prog, u, "mutex_unlock", m, Begun[u])
      BY <1>1, <2>3, <3>1, <3>2, CallMade, CurrentCall
    <3>4. QED
      BY <2>1, <3>2, <3>3, MadeOther
  <2>4. QED
    BY <2>2, <2>3
<1>4. AllMade(prog, "mutex_unlock", m, Begun) = AllMade(prog, "mutex_unlock", m, done)
  BY <1>3 DEF AllMade
<1>5. Ended("mutex_unlock", m) = Number(prog, "mutex_unlock", m, Begun)
      /\ Ended("mutex_unlock", m) \in Nat
  BY <1>1, <1>4, DoneTyped, AllMadeFinite DEF Ended, Number
<1>6. QED
  BY <1>2, <1>5

-----------------------------------------------------------------------------
(* Each step is one of the promised ones, or none that shows.                *)
PromiseNext == [Promise!Next]_(Promise!vars)

LEMMA SameCardinality == \A S : Promise!Cardinality(S) = Cardinality(S)
BY DEF Promise!Cardinality, Cardinality

LEMMA SameNumbers ==
  ASSUME NEW op, NEW on
  PROVE  /\ Promise!Number(op, on, done) = Ended(op, on)
         /\ \A f : Promise!Number(op, on, f) = Number(prog, op, on, f)
         /\ \A t, f : Promise!Of(t, op, on, f) = Made(prog, t, op, on, f[t])
<1>1. \A t, f : Promise!Of(t, op, on, f) = Made(prog, t, op, on, f[t])
  BY DEF Promise!Of, Made, IsCall
<1>2. \A f : Promise!Number(op, on, f) = Number(prog, op, on, f)
  <2>1. SUFFICES ASSUME NEW f PROVE Promise!Number(op, on, f) = Number(prog, op, on, f)
    OBVIOUS
  <2>2. \A t : {t} \X Promise!Of(t, op, on, f) = {t} \X Made(prog, t, op, on, f[t])
    BY <1>1
  <2>3. UNION {{t} \X Promise!Of(t, op, on, f) : t \in Tasklets} = AllMade(prog, op, on, f)
    BY <2>2 DEF AllMade
  <2>4. Promise!Number(op, on, f) = Promise!Cardinality(AllMade(prog, op, on, f))
    BY <2>3 DEF Promise!Number
  <2>5. QED
    BY <2>4, SameCardinality DEF Number
<1>3. QED
  BY <1>1, <1>2 DEF Ended

LEMMA SameCall ==
  ASSUME IInv, NEW t \in Tasklets, pc[t] # "caller"
  PROVE  /\ Promise!Calling(t)
         /\ Promise!Op(t).op = Op(t) /\ Promise!Op(t).on = On(t)
         /\ Promise!Op(t) = prog[t][done[t] + 1]
<1>1. Begun[t] = done[t] + 1
  BY DoneTyped, BegunTyped
<1>2. Promise!Calling(t)
  BY <1>1 DEF Promise!Calling, Begun
<1>3. Promise!Op(t) = prog[t][done[t] + 1]
  BY <1>1 DEF Promise!Op, Begun
<1>4. QED
  BY <1>2, <1>3 DEF Op, On

(* A call of x that may return does. *)
LEMMA ShowsReturn ==
  ASSUME PInv, NEW t \in Tasklets, Step(t), ~Call(t), ~NotLocked(t),
         NEW x \in Tasklets, pc[x] # "caller", Promise!MayReturn(x),
         done' = [done EXCEPT ![x] = @ + 1], refused' = refused
  PROVE  Promise!Next
<1>1. IInv /\ TypeOK
  BY DEF PInv, QInv, IInv
<1>2. \A u \in Tasklets : Begun'[u] = Begun[u]
  BY BegunStep
<1>3. Begun' = Begun
  BY <1>2 DEF Begun
<1>4. Promise!Calling(x)
  BY <1>1, SameCall
<1>5. prog' = prog
  BY <1>1, StepMoves
<1>6. Promise!Return(x)
  BY <1>3, <1>4, <1>5 DEF Promise!Return, Begun
<1>7. QED
  BY <1>6 DEF Promise!Next

LEMMA ShowsNoCall ==
  ASSUME PInv, NEW t \in Tasklets, Step(t), ~Call(t), ~NotLocked(t),
         done' = done, refused' = refused
  PROVE  UNCHANGED Promise!vars
<1>1. IInv
  BY DEF PInv, QInv
<1>2. \A u \in Tasklets : Begun'[u] = Begun[u]
  BY BegunStep
<1>3. Begun' = Begun
  BY <1>2 DEF Begun
<1>4. prog' = prog
  BY <1>1, StepMoves
<1>5. QED
  BY <1>3, <1>4 DEF Promise!vars, Begun

LEMMA ShowsCall ==
  ASSUME PInv, NEW t \in Tasklets, Step(t), Call(t)
  PROVE  Promise!Next
<1>1. IInv /\ TypeOK
  BY DEF PInv, QInv, IInv
<1>2. /\ Begun \in [Tasklets -> Nat] /\ Begun[t] = done[t]
  BY <1>1, DoneTyped, BegunTyped DEF Call
<1>3. \A u \in Tasklets : Begun'[u] = IF u = t THEN Begun[u] + 1 ELSE Begun[u]
  BY BegunStep
<1>4. Begun' = [Begun EXCEPT ![t] = @ + 1]
  <2>1. Begun' = [u \in Tasklets |-> Begun'[u]]
    BY DEF Begun
  <2>2. QED
    BY <1>2, <1>3, <2>1
<1>5. Begun[t] < Len(prog[t]) /\ UNCHANGED << prog, done, refused >>
  BY <1>2 DEF Call
<1>6. Promise!Begin(t)
  BY <1>2, <1>4, <1>5 DEF Promise!Begin, Begun
<1>7. QED
  BY <1>6 DEF Promise!Next

LEMMA ShowsDecline ==
  ASSUME PInv, NEW t \in Tasklets, Step(t), NotLocked(t)
  PROVE  Promise!Next
<1>1. IInv /\ TypeOK /\ QInv
  BY DEF PInv, QInv, IInv
<1>2. pc[t] = "acquire" /\ Op(t) = "mutex_trylock" /\ lock[On(t)] # Free
      /\ done' = [done EXCEPT ![t] = @ + 2] /\ UNCHANGED << prog, refused >>
  BY DEF NotLocked, In, BitFree
<1>3. PICK m \in Mutexes : m = On(t)
  BY <1>1, <1>2, CallMade, CallKinds
<1>4. Ended("mutex_lock", m) + Ended("mutex_trylock", m) > Ended("mutex_unlock", m)
  <2>1. Ended("mutex_lock", m) + Ended("mutex_trylock", m) = Ended("mutex_unlock", m) + 1
    BY <1>2, <1>3 DEF PInv, MutexTotals
  <2>2. Ended("mutex_unlock", m) \in Nat
    BY <1>1, DoneTyped, AllMadeFinite DEF Ended
  <2>3. QED
    BY <2>1, <2>2
<1>5. Promise!Calling(t) /\ Promise!Op(t).op = "mutex_trylock" /\ Promise!Op(t).on = m
  BY <1>1, <1>2, <1>3, SameCall
<1>6. Promise!Got(m, done) > Promise!Number("mutex_unlock", m, done)
  BY <1>4, SameNumbers DEF Promise!Got
<1>7. Begun \in [Tasklets -> Nat]
  BY <1>1, BegunTyped
<1>8. Begun' = [Begun EXCEPT ![t] = @ + 1]
  <2>1. Begun' = [u \in Tasklets |-> Begun'[u]]
    BY DEF Begun
  <2>2. \A u \in Tasklets : Begun'[u] = IF u = t THEN Begun[u] + 1 ELSE Begun[u]
    BY BegunStep
  <2>3. QED
    BY <1>7, <2>1, <2>2
<1>9. Promise!Decline(t)
  BY <1>2, <1>5, <1>6, <1>8 DEF Promise!Decline, Begun
<1>10. QED
  BY <1>9 DEF Promise!Next

LEMMA ShowsRefuse ==
  ASSUME PInv, NEW t \in Tasklets, Step(t), Refuse(t)
  PROVE  Promise!Next
<1>1. IInv /\ TypeOK /\ QInv /\ Refusing
  BY DEF PInv, QInv, IInv
<1>2. /\ pc[t] = "refuse" /\ Op(t) = "handshake_wait_for" /\ shake[On(t)] \notin {Empty, On(t)}
      /\ done' = [done EXCEPT ![t] = @ + 1] /\ refused' = [refused EXCEPT ![On(t)] = @ + 1]
      /\ prog' = prog
  BY <1>1 DEF Refuse, Refusing
<1>3. PICK n \in Tasklets : n = On(t)
  BY <1>1, <1>2, CallMade, CallKinds
<1>4. PICK s \in Tasklets : s = shake[n] /\ s # n
  BY <1>1, <1>2, <1>3 DEF TypeOK
<1>5. Suspended(s, n) /\ s # t
  BY <1>1, <1>2, <1>4 DEF QInv, Shaken, Suspended
<1>6. pc[s] # "caller" /\ On(s) = n
  BY <1>5 DEF Suspended
<1>7. Op(s) = "handshake_wait_for"
  <2>1. done[s] < Len(prog[s]) /\ ProgramOK(prog) /\ Op(s) \in {"handshake_notify", "handshake_wait_for"}
    BY <1>1, <1>6, CallMade, CallKinds, SyncAssumption DEF TypeOK
  <2>2. done[s] \in Nat /\ Len(prog[s]) \in Nat
    BY <1>1, DoneTyped, ProgramTyped DEF TypeOK
  <2>3. done[s] + 1 \in 1..Len(prog[s])
    BY <2>1, <2>2
  <2>4. prog[s][done[s] + 1].op = "handshake_notify" => prog[s][done[s] + 1].on = s
    BY <2>1, <2>3 DEF ProgramOK
  <2>5. Op(s) = "handshake_notify" => On(s) = s
    BY <2>4 DEF Op, On
  <2>6. QED
    BY <1>4, <1>6, <2>1, <2>5
<1>8. prog[s][done[s] + 1] = prog[t][done[t] + 1]
  <2>1. IsCall(prog, s, "handshake_wait_for", n, done[s] + 1)
    BY <1>1, <1>6, <1>7, CallMade, CurrentCall
  <2>2. IsCall(prog, t, "handshake_wait_for", n, done[t] + 1)
    BY <1>1, <1>2, <1>3, CallMade, CurrentCall
  <2>3. QED
    BY <2>1, <2>2 DEF IsCall
<1>9. /\ Promise!Calling(t) /\ Promise!Op(t).op = "handshake_wait_for" /\ Promise!Op(t).on = n
      /\ Promise!Calling(s) /\ Promise!Op(s) = Promise!Op(t)
  BY <1>1, <1>2, <1>3, <1>6, <1>8, SameCall
<1>10. Begun' = Begun
  <2>1. pc[t] # "caller" /\ pc[t] # "acquire"
    BY <1>2
  <2>2. ~Call(t) /\ ~NotLocked(t)
    BY <2>1 DEF Call, NotLocked, In
  <2>3. \A u \in Tasklets : Begun'[u] = Begun[u]
    BY <2>2, BegunStep
  <2>4. QED
    BY <2>3 DEF Begun
<1>11. Promise!Refuse(t)
  BY <1>2, <1>3, <1>5, <1>9, <1>10 DEF Promise!Refuse, Begun
<1>12. QED
  BY <1>11 DEF Promise!Next

(* A call may return for the reasons above. *)
LEMMA Reasons ==
  ASSUME IInv, NEW x \in Tasklets, pc[x] # "caller", NEW o, o = On(x),
         Op(x) = "barrier_wait" =>
           Number(prog, "barrier_wait", o, Begun) >= Size[o] * (Round(x, o) + 1),
         Op(x) = "sem_take" =>
           Ended("sem_take", o) < Initial[o] + Number(prog, "sem_give", o, Begun),
         Op(x) = "handshake_notify" =>
           Ended("handshake_notify", o) < Number(prog, "handshake_wait_for", o, Begun) - refused[o],
         Op(x) = "handshake_wait_for" =>
           Ended("handshake_wait_for", o) - refused[o] < Number(prog, "handshake_notify", o, Begun),
         Op(x) \in {"mutex_lock", "mutex_trylock"} =>
           Ended("mutex_lock", o) + Ended("mutex_trylock", o) = Number(prog, "mutex_unlock", o, Begun)
  PROVE  Promise!MayReturn(x)
<1>1. Promise!Op(x).op = Op(x) /\ Promise!Op(x).on = o
  BY SameCall
<1>2. \A op, on : /\ Promise!Number(op, on, done) = Ended(op, on)
                  /\ Promise!Number(op, on, Begun) = Number(prog, op, on, Begun)
                  /\ Promise!Of(x, op, on, done) = Made(prog, x, op, on, done[x])
  BY SameNumbers
<1>3. Promise!Cardinality(Promise!Of(x, "barrier_wait", o, done)) = Round(x, o)
  BY <1>2, SameCardinality DEF Round, EndedBy
<1>4. Promise!Got(o, done) = Ended("mutex_lock", o) + Ended("mutex_trylock", o)
  BY <1>2 DEF Promise!Got
<1> DEFINE begun == [u \in Tasklets |-> done[u] + (IF pc[u] = "caller" THEN 0 ELSE 1)]
<1>5. begun = Begun
  BY DEF Begun
<1> USE DEF Promise!MayReturn
<1>6. CASE Op(x) = "barrier_wait"
  BY <1>1, <1>2, <1>3, <1>5, <1>6
<1>7. CASE Op(x) = "sem_take"
  BY <1>1, <1>2, <1>5, <1>7
<1>8. CASE Op(x) = "handshake_notify"
  BY <1>1, <1>2, <1>5, <1>8
<1>9. CASE Op(x) = "handshake_wait_for"
  BY <1>1, <1>2, <1>5, <1>9
<1>10. CASE Op(x) \in {"mutex_lock", "mutex_trylock"}
  BY <1>1, <1>2, <1>4, <1>5, <1>10
<1>11. CASE Op(x) \notin {"barrier_wait", "sem_take", "handshake_notify", "handshake_wait_for",
                          "mutex_lock", "mutex_trylock"}
  BY <1>1, <1>11
<1>12. QED
  BY <1>6, <1>7, <1>8, <1>9, <1>10, <1>11

LEMMA ReleaseMayReturn ==
  ASSUME PInv, NEW t \in Tasklets, pc[t] = "release"
  PROVE  Promise!MayReturn(t)
<1>1. IInv /\ TypeOK /\ QInv /\ MutexPlaces
  BY DEF PInv, QInv, IInv
<1>2. PICK o : o = On(t)
  OBVIOUS
<1>3. done[t] < Len(prog[t])
  BY <1>1, CallMade
<1>4. Op(t) = "barrier_wait" => Number(prog, "barrier_wait", o, Begun) >= Size[o] * (Round(t, o) + 1)
  <2>1. SUFFICES ASSUME Op(t) = "barrier_wait"
        PROVE Number(prog, "barrier_wait", o, Begun) >= Size[o] * (Round(t, o) + 1)
    OBVIOUS
  <2>2. o \in Barriers
    BY <1>1, <1>2, <1>3, <2>1, CallKinds
  <2>3. Opener(t, o)
    BY <1>2 DEF Opener
  <2>4. pc[t] # "caller" /\ On(t) = o
    BY <1>2
  <2>5. QED
    BY <2>2, <2>3, <2>4, BarrierMayReturn
<1>5. Op(t) = "sem_take" => Ended("sem_take", o) < Initial[o] + Number(prog, "sem_give", o, Begun)
  BY <1>1, <1>2, <1>3, CallKinds, TakeMayReturn
<1>6. On(t) \in Tasklets =>
        /\ Op(t) = "handshake_notify" =>
             Ended("handshake_notify", o) < Number(prog, "handshake_wait_for", o, Begun) - refused[o]
        /\ Op(t) = "handshake_wait_for" =>
             Ended("handshake_wait_for", o) - refused[o] < Number(prog, "handshake_notify", o, Begun)
  BY <1>2, HandshakeMayReturn
<1>7. Op(t) \notin {"mutex_lock", "mutex_trylock"}
  BY <1>1, <1>3, CallKinds DEF MutexPlaces
<1>8. Op(t) \in {"handshake_notify", "handshake_wait_for"} => On(t) \in Tasklets
  BY <1>1, <1>3, CallKinds
<1>9. QED
  BY <1>1, <1>2, <1>4, <1>5, <1>6, <1>7, <1>8, Reasons

LEMMA LockedMayReturn ==
  ASSUME PInv, NEW t \in Tasklets, Locked(t)
  PROVE  Promise!MayReturn(t)
<1>1. IInv /\ TypeOK /\ QInv
  BY DEF PInv, QInv, IInv
<1>2. pc[t] = "acquire" /\ Op(t) \in {"mutex_lock", "mutex_trylock"} /\ lock[On(t)] = Free
  BY DEF Locked, BitFree
<1>3. PICK m \in Mutexes : m = On(t)
  BY <1>1, <1>2, CallMade, CallKinds
<1>4. Ended("mutex_lock", m) + Ended("mutex_trylock", m) = Number(prog, "mutex_unlock", m, Begun)
  BY <1>2, <1>3, LockMayReturn
<1>5. QED
  BY <1>1, <1>2, <1>3, <1>4, Reasons

LEMMA WokenMayReturn ==
  ASSUME PInv, NEW t \in Tasklets, Step(t), pc[t] = "wake", NEW x \in Tasklets, x = walk[t],
         pc[x] = "stopped", On(x) = On(t)
  PROVE  Promise!MayReturn(x)
<1>1. IInv /\ TypeOK /\ QInv /\ Takers
  BY DEF PInv, QInv, IInv
<1>2. PICK o : o = On(t)
  OBVIOUS
<1>3. done[t] < Len(prog[t]) /\ done[x] < Len(prog[x]) /\ pc[x] # "caller"
  BY <1>1, CallMade
<1>4. Op(x) = "barrier_wait" => Number(prog, "barrier_wait", o, Begun) >= Size[o] * (Round(x, o) + 1)
  <2>1. SUFFICES ASSUME Op(x) = "barrier_wait"
        PROVE Number(prog, "barrier_wait", o, Begun) >= Size[o] * (Round(x, o) + 1)
    OBVIOUS
  <2>2. o \in Barriers
    BY <1>1, <1>2, <1>3, <2>1, CallKinds
  <2>3. Opener(t, o) /\ Suspended(x, o) /\ On(x) = o
    BY <1>2 DEF Opener, Suspended
  <2>4. QED
    BY <1>3, <2>2, <2>3, BarrierMayReturn
<1>5. Op(x) = "sem_take" => Ended("sem_take", o) < Initial[o] + Number(prog, "sem_give", o, Begun)
  <2>1. SUFFICES ASSUME Op(x) = "sem_take"
        PROVE Ended("sem_take", o) < Initial[o] + Number(prog, "sem_give", o, Begun)
    OBVIOUS
  <2>2. o \in Sems /\ On(x) = o
    BY <1>1, <1>2, <1>3, <2>1, CallKinds
  <2>3. Op(t) \in {"sem_take", "sem_give"}
    BY <1>1, <1>2, <1>3, <2>2, CallKinds
  <2>4. WakeTaker(t)
    BY <2>3, Doing DEF WakeNext, WakeLast, WakePartner
  <2>5. x \in Leaving(o)
    BY <1>2, <2>4 DEF Leaving, Waking, WakeTaker
  <2>6. QED
    BY <2>1, <2>2, <2>5, TakeMayReturn
<1>6. On(t) \in Tasklets =>
        /\ Op(x) = "handshake_notify" =>
             Ended("handshake_notify", o) < Number(prog, "handshake_wait_for", o, Begun) - refused[o]
        /\ Op(x) = "handshake_wait_for" =>
             Ended("handshake_wait_for", o) - refused[o] < Number(prog, "handshake_notify", o, Begun)
  BY <1>2, HandshakeMayReturn
<1>7. Op(x) \notin {"mutex_lock", "mutex_trylock"}
  <2>1. Inside(t)
    BY <1>1, WakerInside
  <2>2. On(x) \notin Mutexes
    BY <2>1 DEF Inside
  <2>3. QED
    BY <1>1, <1>3, <2>2, CallKinds
<1>8. Op(x) \in {"handshake_notify", "handshake_wait_for"} => On(t) \in Tasklets
  BY <1>1, <1>3, CallKinds
<1>9. QED
  BY <1>1, <1>2, <1>3, <1>4, <1>5, <1>6, <1>7, <1>8, Reasons

LEMMA ShowsStep ==
  ASSUME PInv, NEW t \in Tasklets, Step(t)
  PROVE  PromiseNext
<1>1. IInv /\ TypeOK /\ QInv
  BY DEF PInv, QInv, IInv
<1> USE DEF PromiseNext
<1>2. CASE Call(t)
  BY <1>2, ShowsCall
<1>3. CASE NotLocked(t)
  BY <1>3, ShowsDecline
<1>4. CASE Refuse(t)
  BY <1>4, ShowsRefuse
<1>5. CASE ~Call(t) /\ ~NotLocked(t) /\ done' = done /\ refused' = refused
  BY <1>5, ShowsNoCall
<1>6. CASE /\ Locked(t) \/ Release(t)
           /\ done' = [done EXCEPT ![t] = @ + 1] /\ refused' = refused /\ ~NotLocked(t)
  <2>1. pc[t] # "caller" /\ ~Call(t)
    BY <1>6 DEF Locked, Release, Call
  <2>2. Promise!MayReturn(t)
    BY <1>6, LockedMayReturn, ReleaseMayReturn DEF Release
  <2>3. QED
    BY <1>6, <2>1, <2>2, ShowsReturn
<1>7. CASE /\ pc[t] = "wake" /\ pc[walk[t]] = "stopped"
           /\ walk[t] \in Tasklets \ {t} /\ On(walk[t]) = On(t)
           /\ done' = [done EXCEPT ![walk[t]] = @ + 1] /\ refused' = refused
  <2>1. ~Call(t) /\ ~NotLocked(t)
    BY <1>7 DEF Call, NotLocked, In
  <2>2. PICK x \in Tasklets : x = walk[t]
    BY <1>7
  <2>3. Promise!MayReturn(x) /\ pc[x] # "caller" /\ done' = [done EXCEPT ![x] = @ + 1]
    BY <1>7, <2>2, WokenMayReturn
  <2>4. QED
    BY <1>7, <2>1, <2>3, ShowsReturn
<1>8. QED
  BY <1>1, <1>2, <1>3, <1>4, <1>5, <1>6, <1>7, Returning

(* Whatever the programs, and however their tasklets interleave down to the  *)
(* instructions of the library: barrier_wait, sem_take, handshake_notify,    *)
(* handshake_wait_for and mutex_lock return only when TaskletPromise says    *)
(* they may, EALREADY and a failed mutex_trylock have their reason, and each *)
(* call returns once.                                                        *)
THEOREM ReturnsInTime == Spec => NeverEarly
<1>1. Init => Promise!Init
  <2>1. SUFFICES ASSUME Init PROVE Promise!Init
    OBVIOUS
  <2>2. [t \in Tasklets |-> done[t] + (IF pc[t] = "caller" THEN 0 ELSE 1)] = [t \in Tasklets |-> 0]
    BY <2>1 DEF Init
  <2>3. QED
    BY <2>1, <2>2 DEF Init, Promise!Init
<1>2. PInv /\ [Next]_vars => PromiseNext
  <2>1. SUFFICES ASSUME PInv, [Next]_vars PROVE PromiseNext
    OBVIOUS
  <2>2. CASE \E t \in Tasklets : Step(t)
    BY <2>1, <2>2, ShowsStep
  <2>3. CASE UNCHANGED vars
    BY <2>3 DEF vars, PromiseNext, Promise!vars
  <2>4. QED
    BY <2>1, <2>2, <2>3 DEF Next, Halted
<1>3. QED
  BY <1>1, <1>2, AlwaysPInv, PTL DEF Spec, NeverEarly, PromiseNext

=============================================================================
