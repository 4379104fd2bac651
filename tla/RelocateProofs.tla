---------------------------- MODULE RelocateProofs ----------------------------
(***************************************************************************)
(* Invariance proofs for Relocate: for every set of launches that fits the  *)
(* MRAM, and every number of chunks, the tasklets never leave the positions *)
(* the kernel has, the halves of a loop stay apart, and (when no launch     *)
(* races) blocks are moved without losing one.                              *)
(***************************************************************************)
EXTENDS Relocate, RelocateKernelsProofs, FiniteSetTheorems

-----------------------------------------------------------------------------
(* The inductive invariant, part by part.                                   *)

Active(a) == a.pc \in {"alloc", "read", "sync1", "write", "sync2"}
InBody(a) == a.pc \in {"read", "sync1", "write", "sync2"}

(* Where tasklet t can be: only a worker of the pass is in its loop, and    *)
(* only as long as it has copies to make.                                   *)
PosOf(t, a) ==
  /\ a.pc = "reset" => t = 0 /\ a.step = 0
  /\ a.pc \in {"reset", "entry"} =>
       /\ a.step < Len(Entry(launch))
       /\ t < Entry(launch)[a.step + 1]
  /\ a.pc \in {"reset", "entry", "alloc"} => a.pass = 1
  /\ Active(a) => a.pass <= Len(P) /\ t < P[a.pass].workers
  /\ a.pc \in {"read", "sync1", "write"} => a.step < Steps(P[a.pass], t)
  /\ a.pc = "sync2" => 1 <= a.step /\ a.step <= Steps(P[a.pass], t)
  /\ a.pc \in {"sync1", "sync2"} => P[a.pass].barrier # 0

(* A tasklet that has returned has made all its copies. *)
EndOf(t, a) ==
  a.pc = "done" /\ a.pass <= Len(P) =>
    /\ t < P[a.pass].workers => a.step = Steps(P[a.pass], t)
    /\ a.pass < Len(P) /\ t < P[a.pass + 1].workers =>
         Steps(P[a.pass + 1], t) = 0

Positions == \A t \in Tasklets : PosOf(t, at[t]) /\ EndOf(t, at[t])

(* A tasklet stopped in a barrier stands in front of that barrier. *)
StandsAt(t, b) ==
  \/ at[t].pc = "entry" /\ Entry(launch)[at[t].step + 1] = b
  \/ at[t].pc \in {"sync1", "sync2"} /\ P[at[t].pass].barrier = b

WaitingStand == \A b \in BarrierSizes : \A t \in waiting[b] : StandsAt(t, b)

(* No tasklet has passed an entry barrier that another one is still to      *)
(* reach.                                                                   *)
EntryTogether ==
  \A t, u \in Tasklets :
    /\ at[t].pc \in {"reset", "entry"}
    /\ u < Entry(launch)[at[t].step + 1]
    => at[u].pc \in {"reset", "entry"} /\ at[u].step = at[t].step

(* Half rounds made: between two loop barriers all workers agree on it. *)
Half(a) ==
  CASE a.pc = "write" -> 2 * a.step + 1
    [] a.pc = "sync2" -> 2 * a.step - 1
    [] a.pc = "alloc" -> 0
    [] OTHER          -> 2 * a.step

Lockstep ==
  \A t, u \in Tasklets :
    Active(at[t]) /\ P[at[t].pass].barrier # 0 /\ u < P[at[t].pass].workers =>
      Active(at[u]) /\ at[u].pass = at[t].pass /\ Half(at[u]) = Half(at[t])

CacheFull ==
  \A t \in Tasklets : at[t].pc \in {"sync1", "write"} => cache[t] \in Mram

Control ==
  /\ TypeOK
  /\ Positions
  /\ WaitingStand
  /\ EntryTogether
  /\ Lockstep
  /\ CacheFull
  /\ CacheAllocated

-----------------------------------------------------------------------------
(* What the launch gives: the shape of its passes and of its entry          *)
(* barriers.                                                                *)
LEMMA LaunchFacts ==
  ASSUME TypeOK
  PROVE  /\ launch \in LaunchType
         /\ P \in Seq(PassType) /\ Len(P) \in 0..2
         /\ \A i \in 1..Len(P) : P[i] \in PassType /\ PassFits(P[i])
<1>1. launch \in LaunchType /\ \A i \in DOMAIN P : PassFits(P[i])
  BY RelocateAssumption DEF TypeOK, P
<1>2. P \in Seq(PassType) /\ Len(P) \in 0..2
  BY <1>1, PassesType DEF P
<1>3. \A i \in 1..Len(P) : P[i] \in PassType /\ i \in DOMAIN P
  BY <1>2
<1>4. QED
  BY <1>1, <1>2, <1>3

LEMMA PassFacts ==
  ASSUME TypeOK, NEW i \in 1..Len(P)
  PROVE  /\ P[i].workers \in {1, 2, 4, 8}
         /\ P[i].barrier # 0 =>
              P[i].barrier = P[i].workers /\ P[i].barrier \in BarrierSizes
         /\ P[i].barrier \in {0, 2, 4, 8}
         /\ \A t \in Tasklets : Steps(P[i], t) \in Nat
         /\ P[i].barrier # 0 =>
              \A t, u \in 0..(P[i].workers - 1) : Steps(P[i], t) = Steps(P[i], u)
<1>1. P[i] \in PassType /\ PassFits(P[i])
  BY LaunchFacts
<1>2. P[i].workers \in {1, 2, 4, 8} /\ P[i].barrier \in {0, 2, 4, 8}
  BY <1>1 DEF PassType
<1>3. P[i].barrier # 0 =>
        P[i].barrier = P[i].workers /\ P[i].barrier \in BarrierSizes
  BY <1>1, <1>2 DEF PassFits, BarrierSizes
<1>4. \A t \in Tasklets : Steps(P[i], t) \in Nat
  BY <1>1, StepsNat DEF Tasklets
<1>5. P[i].barrier # 0 =>
        \A t, u \in 0..(P[i].workers - 1) : Steps(P[i], t) = Steps(P[i], u)
  BY <1>1, StepsEqual DEF PassFits
<1>6. QED
  BY <1>2, <1>3, <1>4, <1>5

LEMMA EntryFacts ==
  ASSUME TypeOK
  PROVE  /\ Len(Entry(launch)) \in 1..3
         /\ Entry(launch)[1] = 8
         /\ \A i \in 1..Len(Entry(launch)) : Entry(launch)[i] \in BarrierSizes
         /\ \A i, j \in 1..Len(Entry(launch)) :
              i <= j => Entry(launch)[j] <= Entry(launch)[i]
         /\ P # << >> =>
              /\ 1 <= Len(P)
              /\ \A j \in 1..Len(Entry(launch)) : P[1].workers <= Entry(launch)[j]
<1>1. launch \in LaunchType /\ P \in Seq(PassType)
  BY LaunchFacts
<1>2. /\ Entry(launch) \in Seq({2, 4, 8}) /\ Len(Entry(launch)) \in 1..3
      /\ Entry(launch)[1] = 8
      /\ \A i, j \in 1..Len(Entry(launch)) :
           i <= j => Entry(launch)[j] <= Entry(launch)[i]
      /\ P # << >> =>
           \A j \in 1..Len(Entry(launch)) : P[1].workers <= Entry(launch)[j]
  BY <1>1, EntryShape DEF P
<1>3. \A i \in 1..Len(Entry(launch)) : Entry(launch)[i] \in BarrierSizes
  BY <1>2 DEF BarrierSizes
<1>4. P # << >> => 1 <= Len(P)
  BY <1>1
<1>5. QED
  BY <1>2, <1>3, <1>4

LEMMA TwoPassFacts ==
  ASSUME TypeOK, Len(P) = 2
  PROVE  P[1].barrier # 0 /\ P[2].workers <= P[1].workers
BY LaunchFacts, TwoPasses DEF P

(* A first pass with barriers always has something to move. *)
LEMMA FirstPassMoves ==
  ASSUME TypeOK, 1 <= Len(P), P[1].barrier # 0
  PROVE  \A t \in 0..(P[1].workers - 1) : 0 < Steps(P[1], t)
<1>1. /\ P[1] \in PassType /\ PassFits(P[1]) /\ launch \in LaunchType
      /\ 1 \in 1..Len(P)
  BY LaunchFacts
<1>2. P[1].blocks = launch.n /\ launch.n \in Nat \ {0}
  BY <1>1, FirstPassBlocks DEF P, LaunchType
<1>3. P[1].workers \in {1, 2, 4, 8} /\ P[1].iter \in Nat \ {0}
  BY <1>1 DEF PassType
<1>4. P[1].blocks % P[1].workers = 0
  BY <1>1 DEF PassFits
<1>5. Steps(P[1], 0) > 0
  <2> DEFINE n == P[1].blocks
             w == P[1].workers
  <2>1. Rounds(P[1], 0) \in Nat \ {0}
    <3>1. n \in Nat \ {0} /\ w \in Nat \ {0}
      BY <1>2, <1>3
    <3>2. Rounds(P[1], 0) = IF 0 < n THEN ((n - 1 - 0) \div w) + 1 ELSE 0
      BY DEF Rounds
    <3> HIDE DEF n, w
    <3>3. n - 1 - 0 \in Nat
      BY <3>1, SMT
    <3>4. (n - 1 - 0) \div w \in Nat
      BY <3>1, <3>3, DivMod
    <3>5. QED
      BY <3>1, <3>2, <3>4
  <2>2. Rounds(P[1], 0) * P[1].iter > 0
    BY <1>3, <2>1, SMT
  <2>3. QED
    BY <2>2 DEF Steps
<1>6. \A t \in 0..(P[1].workers - 1) : Steps(P[1], t) = Steps(P[1], 0)
  BY <1>1, <1>3, <1>4, StepsEqual
<1>7. QED
  BY <1>5, <1>6

LEMMA FromInMram ==
  ASSUME TypeOK, NEW i \in 1..Len(P), NEW t \in Tasklets, NEW s \in Nat,
         s < Steps(P[i], t)
  PROVE  From(P[i], t, s) \in Mram
<1>1. P[i] \in PassType /\ PassFits(P[i]) /\ t \in Nat
  BY LaunchFacts DEF Tasklets
<1>2. From(P[i], t, s) \in P[i].src..(P[i].src + (P[i].iter * P[i].blocks) - 1)
  BY <1>1, FromInRegion
<1>3. P[i].src \in Nat /\ P[i].iter \in Nat /\ P[i].blocks \in Nat /\ MramSize \in Nat
  BY <1>1, RelocateAssumption DEF PassType
<1>4. P[i].src + (P[i].iter * P[i].blocks) <= MramSize
  BY <1>1 DEF PassFits
<1>5. P[i].iter * P[i].blocks \in Nat
  BY <1>3, SMT
<1>6. QED
  BY <1>2, <1>3, <1>4, <1>5 DEF Mram

-----------------------------------------------------------------------------
(* The two functions that give a tasklet its next position keep it where    *)
(* the kernel allows it to be.                                              *)
Place == [pc : PCs, pass : {1, 2}, step : Nat]

LEMMA EntryAtPosition ==
  ASSUME TypeOK, NEW t \in Tasklets, NEW s \in 0..Len(Entry(launch))
  PROVE  /\ EntryAt(t, s) \in Place
         /\ PosOf(t, EntryAt(t, s)) /\ EndOf(t, EntryAt(t, s))
         /\ EntryAt(t, s).pc \in {"entry", "alloc", "done"}
         /\ EntryAt(t, s).pc = "entry" <=>
              s < Len(Entry(launch)) /\ t < Entry(launch)[s + 1]
         /\ EntryAt(t, s).pc = "entry" => EntryAt(t, s).step = s
         /\ EntryAt(t, s).pc = "alloc" <=>
              s = Len(Entry(launch)) /\ P # << >> /\ t < P[1].workers
<1> DEFINE a == EntryAt(t, s)
<1>1. /\ Len(Entry(launch)) \in 1..3
      /\ P # << >> => 1 <= Len(P) /\ P[1].workers \in {1, 2, 4, 8}
      /\ P \in Seq(PassType) /\ Len(P) \in 0..2
  BY EntryFacts, LaunchFacts, PassFacts
<1>2. CASE s < Len(Entry(launch)) /\ t < Entry(launch)[s + 1]
  <2>1. a = [pc |-> "entry", pass |-> 1, step |-> s]
    BY <1>2 DEF EntryAt, Here
  <2>2. a.pc = "entry" /\ a.pass = 1 /\ a.step = s
    BY <2>1
  <2>3. a \in Place
    BY <2>1 DEF Place, PCs
  <2> HIDE DEF a
  <2>4. PosOf(t, a) /\ EndOf(t, a)
    BY <1>2, <2>2 DEF PosOf, EndOf, Active
  <2>5. QED
    BY <1>1, <1>2, <2>2, <2>3, <2>4 DEF a
<1>3. CASE s = Len(Entry(launch)) /\ P # << >> /\ t < P[1].workers
  <2>1. a = [pc |-> "alloc", pass |-> 1, step |-> 0]
    BY <1>3 DEF EntryAt, Here
  <2>2. a.pc = "alloc" /\ a.pass = 1 /\ a.step = 0
    BY <2>1
  <2>3. a \in Place
    BY <2>1 DEF Place, PCs
  <2> HIDE DEF a
  <2>4. PosOf(t, a) /\ EndOf(t, a)
    BY <1>1, <1>3, <2>2 DEF PosOf, EndOf, Active
  <2>5. QED
    BY <1>1, <1>3, <2>2, <2>3, <2>4 DEF a
<1>4. CASE /\ ~(s < Len(Entry(launch)) /\ t < Entry(launch)[s + 1])
           /\ ~(s = Len(Entry(launch)) /\ P # << >> /\ t < P[1].workers)
  <2>1. a = [pc |-> "done", pass |-> 1, step |-> 0]
    BY <1>4 DEF EntryAt, Here
  <2>2. a.pc = "done" /\ a.pass = 1 /\ a.step = 0
    BY <2>1
  <2>3. a \in Place
    BY <2>1 DEF Place, PCs
  <2> HIDE DEF a
  <2>4. 1 <= Len(P) => ~(t < P[1].workers)
    <3>1. SUFFICES ASSUME 1 <= Len(P), t < P[1].workers  PROVE FALSE
      OBVIOUS
    <3>2. P # << >>
      BY <1>1, <3>1
    <3>3. s < Len(Entry(launch)) /\ ~(t < Entry(launch)[s + 1])
      BY <1>1, <1>4, <3>1, <3>2
    <3>4. /\ P[1].workers <= Entry(launch)[s + 1]
          /\ Entry(launch)[s + 1] \in BarrierSizes
      BY <1>1, <3>2, <3>3, EntryFacts
    <3>5. QED
      BY <1>1, <3>1, <3>2, <3>3, <3>4 DEF Tasklets, BarrierSizes
  <2>5. Len(P) = 2 => P[2].workers <= P[1].workers /\ P[2].workers \in {1, 2, 4, 8}
    BY TwoPassFacts, PassFacts
  <2>6. PosOf(t, a)
    BY <2>2 DEF PosOf, Active
  <2>7. EndOf(t, a)
    BY <1>1, <2>2, <2>4, <2>5 DEF EndOf, Tasklets
  <2>8. QED
    BY <1>4, <2>2, <2>3, <2>6, <2>7 DEF a
<1>5. QED
  BY <1>2, <1>3, <1>4

LEMMA LoopAtPosition ==
  ASSUME TypeOK, NEW t \in Tasklets, NEW i \in 1..Len(P), NEW s \in Nat,
         t < P[i].workers, s <= Steps(P[i], t)
  PROVE  /\ LoopAt(t, i, s) \in Place
         /\ PosOf(t, LoopAt(t, i, s)) /\ EndOf(t, LoopAt(t, i, s))
         /\ LoopAt(t, i, s).pc \in {"read", "done"}
         /\ s < Steps(P[i], t) => LoopAt(t, i, s) = Here("read", i, s)
         /\ s = Steps(P[i], t) =>
              \/ LoopAt(t, i, s) = Here("done", i, s)
              \/ i = 1 /\ Len(P) = 2 /\ LoopAt(t, i, s) = Here("read", 2, 0)
         /\ s = Steps(P[i], t) /\ i = 1 /\ Len(P) = 2 /\ t < P[2].workers
              /\ Steps(P[2], t) > 0 => LoopAt(t, i, s) = Here("read", 2, 0)
<1> DEFINE a == LoopAt(t, i, s)
<1>1. /\ Len(P) \in 0..2
      /\ \A j \in 1..Len(P) : Steps(P[j], t) \in Nat
  BY LaunchFacts, PassFacts
<1>2. CASE s < Steps(P[i], t)
  <2>1. a = [pc |-> "read", pass |-> i, step |-> s]
    BY <1>2 DEF LoopAt, Here
  <2>2. a.pc = "read" /\ a.pass = i /\ a.step = s
    BY <2>1
  <2>3. a \in Place
    BY <1>1, <2>1 DEF Place, PCs
  <2> HIDE DEF a
  <2>4. PosOf(t, a) /\ EndOf(t, a)
    BY <1>1, <1>2, <2>2 DEF PosOf, EndOf, Active
  <2>5. QED
    BY <1>1, <1>2, <2>1, <2>2, <2>3, <2>4 DEF a, Here
<1>3. CASE s = Steps(P[i], t) /\ i < Len(P) /\ t < P[i + 1].workers
           /\ Steps(P[i + 1], t) > 0
  <2>1. a = [pc |-> "read", pass |-> i + 1, step |-> 0]
    BY <1>1, <1>3 DEF LoopAt, Here
  <2>2. a.pc = "read" /\ a.pass = i + 1 /\ a.step = 0
    BY <2>1
  <2>3. i = 1 /\ Len(P) = 2
    BY <1>1, <1>3
  <2>4. a \in Place
    BY <2>1, <2>3 DEF Place, PCs
  <2> HIDE DEF a
  <2>5. PosOf(t, a) /\ EndOf(t, a)
    BY <1>1, <1>3, <2>2, <2>3 DEF PosOf, EndOf, Active
  <2>6. QED
    BY <1>1, <1>3, <2>1, <2>2, <2>3, <2>4, <2>5 DEF a, Here
<1>4. CASE s = Steps(P[i], t) /\ ~(i < Len(P) /\ t < P[i + 1].workers
           /\ Steps(P[i + 1], t) > 0)
  <2>1. a = [pc |-> "done", pass |-> i, step |-> s]
    BY <1>1, <1>4 DEF LoopAt, Here
  <2>2. a.pc = "done" /\ a.pass = i /\ a.step = s
    BY <2>1
  <2>3. a \in Place
    BY <1>1, <2>1 DEF Place, PCs
  <2> HIDE DEF a
  <2>4. i < Len(P) => Steps(P[i + 1], t) \in Nat
    BY <1>1
  <2>5. PosOf(t, a)
    BY <2>2 DEF PosOf, Active
  <2>6. EndOf(t, a)
    BY <1>4, <2>2, <2>4 DEF EndOf
  <2>7. QED
    BY <1>1, <1>4, <2>1, <2>2, <2>3, <2>5, <2>6 DEF a, Here
<1>5. QED
  BY <1>1, <1>2, <1>3, <1>4

-----------------------------------------------------------------------------
(* When the last tasklet arrives at a barrier of size b, the tasklets there *)
(* are 0..b-1, and they are all at the same place of the kernel.            *)
LEMMA BarrierOpens ==
  ASSUME Control, NEW t \in Tasklets, NEW b \in BarrierSizes,
         StandsAt(t, b), t \notin waiting[b], IsLast(b)
  PROVE  /\ waiting[b] \cup {t} = 0..(b - 1)
         /\ \/ /\ at[t].pc = "entry" /\ Entry(launch)[at[t].step + 1] = b
               /\ at[t].step + 1 \in 1..Len(Entry(launch))
               /\ \A u \in 0..(b - 1) :
                    at[u].pc = "entry" /\ at[u].step = at[t].step
            \/ /\ at[t].pc \in {"sync1", "sync2"}
               /\ at[t].pass \in 1..Len(P)
               /\ P[at[t].pass].barrier = b /\ P[at[t].pass].workers = b
               /\ \A u \in 0..(b - 1) :
                    /\ at[u].pc = at[t].pc /\ at[u].pass = at[t].pass
                    /\ at[u].step = at[t].step
<1> DEFINE Team == waiting[b] \cup {t}
<1>1. TypeOK /\ Positions /\ WaitingStand /\ EntryTogether /\ Lockstep
  BY DEF Control
<1>2. /\ at \in [Tasklets -> Place] /\ waiting[b] \subseteq Tasklets
      /\ b \in {2, 4, 8}
  BY <1>1 DEF TypeOK, Place, BarrierSizes
<1>3. \A u \in Team : u \in Tasklets /\ StandsAt(u, b)
  BY <1>1, <1>2 DEF WaitingStand
<1>4. \A u \in Tasklets : at[u].pc \in {"sync1", "sync2"} =>
        at[u].pass \in 1..Len(P) /\ u < P[at[u].pass].workers
  <2> TAKE u \in Tasklets
  <2>1. at[u] \in Place /\ PosOf(u, at[u])
    BY <1>1, <1>2 DEF Positions
  <2>2. at[u].pass \in {1, 2} /\ Len(P) \in 0..2
    BY <1>1, <2>1, LaunchFacts DEF Place
  <2>3. QED
    BY <2>1, <2>2 DEF PosOf, Active
<1>5. \A u \in Team : u < b
  <2> TAKE u \in Team
  <2>1. u \in Tasklets /\ StandsAt(u, b)
    BY <1>3
  <2>2. CASE at[u].pc = "entry" /\ Entry(launch)[at[u].step + 1] = b
    BY <1>1, <2>1, <2>2 DEF Positions, PosOf
  <2>3. CASE at[u].pc \in {"sync1", "sync2"} /\ P[at[u].pass].barrier = b
    <3>1. at[u].pass \in 1..Len(P) /\ u < P[at[u].pass].workers
      BY <1>4, <2>1, <2>3
    <3>2. P[at[u].pass].barrier # 0 =>
            P[at[u].pass].barrier = P[at[u].pass].workers
      BY <1>1, <3>1, PassFacts
    <3>3. QED
      BY <1>2, <2>3, <3>1, <3>2
  <2>4. QED
    BY <2>1, <2>2, <2>3 DEF StandsAt
<1>6. Team = 0..(b - 1)
  <2>1. Team \in SUBSET (0..(b - 1))
    BY <1>2, <1>3, <1>5 DEF Tasklets
  <2>2. IsFiniteSet(0..(b - 1)) /\ Cardinality(0..(b - 1)) = b
    BY <1>2, FS_Interval
  <2>3. waiting[b] \in SUBSET (0..(b - 1))
    BY <2>1
  <2>4. IsFiniteSet(waiting[b])
    BY <2>2, <2>3, FS_Subset
  <2>5. Cardinality(Team) = Cardinality(waiting[b]) + 1
    BY <2>4, FS_AddElement
  <2>6. Cardinality(Team) = Cardinality(0..(b - 1))
    BY <2>2, <2>5 DEF IsLast
  <2>7. QED
    BY <2>1, <2>2, <2>6, FS_Subset
<1>7. CASE at[t].pc = "entry" /\ Entry(launch)[at[t].step + 1] = b
  <2>1. at[t].step + 1 \in 1..Len(Entry(launch))
    BY <1>1, <1>2, <1>7, EntryFacts DEF Positions, PosOf, Place
  <2>2. ASSUME NEW u \in 0..(b - 1)
        PROVE  at[u].pc = "entry" /\ at[u].step = at[t].step
    <3>1. u \in Tasklets /\ u < b /\ StandsAt(u, b)
      BY <1>2, <1>3, <1>6
    <3>2. at[u].pc \in {"reset", "entry"} /\ at[u].step = at[t].step
      BY <1>1, <1>7, <3>1 DEF EntryTogether
    <3>3. QED
      BY <3>1, <3>2 DEF StandsAt
  <2>3. QED
    BY <1>6, <1>7, <2>1, <2>2
<1>8. CASE at[t].pc \in {"sync1", "sync2"} /\ P[at[t].pass].barrier = b
  <2>1. at[t].pass \in 1..Len(P)
    BY <1>4, <1>8
  <2>2. P[at[t].pass].workers = b
    <3>1. P[at[t].pass].barrier # 0 =>
            P[at[t].pass].barrier = P[at[t].pass].workers
      BY <1>1, <2>1, PassFacts
    <3>2. QED
      BY <1>2, <1>8, <3>1
  <2>3. ASSUME NEW u \in 0..(b - 1)
        PROVE  /\ at[u].pc = at[t].pc /\ at[u].pass = at[t].pass
               /\ at[u].step = at[t].step
    <3>1. u \in Tasklets /\ u < b /\ StandsAt(u, b)
      BY <1>2, <1>3, <1>6
    <3>2. Active(at[t]) /\ P[at[t].pass].barrier # 0
      BY <1>2, <1>8 DEF Active
    <3>3. Active(at[u]) /\ at[u].pass = at[t].pass /\ Half(at[u]) = Half(at[t])
      BY <1>1, <2>2, <3>1, <3>2 DEF Lockstep
    <3>4. at[u].pc \in {"sync1", "sync2"}
      BY <3>1, <3>3 DEF StandsAt, Active
    <3>5. at[u].step \in Nat /\ at[t].step \in Nat
      BY <1>2, <3>1 DEF Place
    <3>6. QED
      BY <1>8, <3>3, <3>4, <3>5 DEF Half
  <2>4. QED
    BY <1>6, <1>8, <2>1, <2>2, <2>3
<1>9. QED
  BY <1>7, <1>8 DEF StandsAt

-----------------------------------------------------------------------------
(* Steps of a single tasklet: what it takes for one to move on its own.     *)
Places ==
  Positions /\ WaitingStand /\ EntryTogether /\ Lockstep

LEMMA OneMoves ==
  ASSUME Control, NEW t \in Tasklets, NEW a \in Place,
         at' = [at EXCEPT ![t] = a], UNCHANGED << launch, waiting >>,
         PosOf(t, a), EndOf(t, a),
         at[t].pc \notin {"entry", "sync1", "sync2"},
         IF at[t].pc = "reset" THEN a.pc = "entry" /\ a.step = at[t].step
         ELSE a.pc \notin {"reset", "entry"},
         Active(a) => Active(at[t]) /\ a.pass = at[t].pass,
         Active(at[t]) /\ P[at[t].pass].barrier # 0 =>
           Active(a) /\ Half(a) = Half(at[t])
  PROVE  at' \in [Tasklets -> Place] /\ Places'
<1>1. TypeOK /\ Positions /\ WaitingStand /\ EntryTogether /\ Lockstep
  BY DEF Control
<1>2. at \in [Tasklets -> Place] /\ waiting \in [BarrierSizes -> SUBSET Tasklets]
  BY <1>1 DEF TypeOK, Place
<1>3. /\ at' \in [Tasklets -> Place] /\ at'[t] = a
      /\ \A u \in Tasklets : u # t => at'[u] = at[u]
  BY <1>2
<1>4. launch' = launch /\ waiting' = waiting /\ P' = P
  BY DEF P
<1>5. Positions'
  <2>1. \A u \in Tasklets : PosOf(u, at'[u]) /\ EndOf(u, at'[u])
    BY <1>1, <1>3 DEF Positions
  <2>2. QED
    BY <1>4, <2>1 DEF Positions, PosOf, EndOf
<1>6. WaitingStand'
  <2>1. \A b \in BarrierSizes : \A u \in waiting[b] : u # t /\ StandsAt(u, b)
    BY <1>1 DEF WaitingStand, StandsAt
  <2>2. \A b \in BarrierSizes : \A u \in waiting[b] : at'[u] = at[u]
    BY <1>2, <1>3, <2>1
  <2>3. QED
    BY <1>4, <2>1, <2>2 DEF WaitingStand, StandsAt
<1>7. EntryTogether'
  <2> SUFFICES ASSUME NEW v \in Tasklets, NEW u \in Tasklets,
                      at'[v].pc \in {"reset", "entry"},
                      u < Entry(launch)[at'[v].step + 1]
               PROVE  at'[u].pc \in {"reset", "entry"} /\ at'[u].step = at'[v].step
    BY <1>4 DEF EntryTogether
  <2>1. \A w \in Tasklets :
          /\ at'[w].pc \in {"reset", "entry"} <=> at[w].pc \in {"reset", "entry"}
          /\ at'[w].pc \in {"reset", "entry"} => at'[w].step = at[w].step
    BY <1>3
  <2>2. at[u].pc \in {"reset", "entry"} /\ at[u].step = at[v].step
    BY <1>1, <2>1 DEF EntryTogether
  <2>3. QED
    BY <2>1, <2>2
<1>8. Lockstep'
  <2> SUFFICES ASSUME NEW v \in Tasklets, NEW u \in Tasklets,
                      Active(at'[v]), P[at'[v].pass].barrier # 0,
                      u < P[at'[v].pass].workers
               PROVE  /\ Active(at'[u]) /\ at'[u].pass = at'[v].pass
                      /\ Half(at'[u]) = Half(at'[v])
    BY <1>4 DEF Lockstep
  <2>1. \A w \in Tasklets :
          Active(at'[w]) => Active(at[w]) /\ at'[w].pass = at[w].pass
    BY <1>3
  <2>2. \A w \in Tasklets : Active(at[w]) /\ P[at[w].pass].barrier # 0 =>
          Active(at'[w]) /\ Half(at'[w]) = Half(at[w])
    BY <1>3
  <2>3. Active(at[u]) /\ at[u].pass = at[v].pass /\ Half(at[u]) = Half(at[v])
    BY <1>1, <2>1 DEF Lockstep
  <2>4. QED
    BY <2>1, <2>2, <2>3
<1>9. QED
  BY <1>3, <1>5, <1>6, <1>7, <1>8 DEF Places

(* A tasklet that stops in a barrier disturbs nothing. *)
LEMMA BarrierStops ==
  ASSUME Control, NEW t \in Tasklets, NEW b \in BarrierSizes,
         StandsAt(t, b), BarrierWait(t, b), ~IsLast(b)
  PROVE  /\ at' \in [Tasklets -> Place] /\ Places'
         /\ waiting' \in [BarrierSizes -> SUBSET Tasklets]
         /\ CacheFull' /\ CacheAllocated'
<1>1. /\ TypeOK /\ Positions /\ WaitingStand /\ EntryTogether /\ Lockstep
      /\ CacheFull /\ CacheAllocated
  BY DEF Control
<1>2. at \in [Tasklets -> Place] /\ waiting \in [BarrierSizes -> SUBSET Tasklets]
  BY <1>1 DEF TypeOK, Place
<1>3. /\ at' = at /\ launch' = launch /\ heap' = heap /\ cache' = cache
      /\ waiting' = [waiting EXCEPT ![b] = @ \cup {t}]
  BY DEF BarrierWait
<1>4. P' = P
  BY <1>3 DEF P
<1>5. waiting' \in [BarrierSizes -> SUBSET Tasklets]
  BY <1>2, <1>3
<1>6. WaitingStand'
  <2>1. \A c \in BarrierSizes : \A u \in waiting'[c] :
          u \in waiting[c] \/ (u = t /\ c = b)
    BY <1>2, <1>3
  <2>2. \A c \in BarrierSizes : \A u \in waiting'[c] : StandsAt(u, c)
    BY <1>1, <2>1 DEF WaitingStand
  <2>3. QED
    BY <1>3, <1>4, <2>2 DEF WaitingStand, StandsAt
<1>7. Positions' /\ EntryTogether' /\ Lockstep'
  <2>1. Positions'
    BY <1>1, <1>3, <1>4 DEF Positions, PosOf, EndOf
  <2>2. EntryTogether'
    BY <1>1, <1>3 DEF EntryTogether
  <2>3. Lockstep'
    BY <1>1, <1>3, <1>4 DEF Lockstep
  <2>4. QED
    BY <2>1, <2>2, <2>3
<1>8. CacheFull' /\ CacheAllocated'
  BY <1>1, <1>3 DEF CacheFull, CacheAllocated, InLoop
<1>9. QED
  BY <1>2, <1>3, <1>5, <1>6, <1>7, <1>8 DEF Places

(* The last tasklet opens the barrier, in front of the loops ...            *)
LEMMA EntryOpens ==
  ASSUME Control, NEW t \in Tasklets, NEW b \in BarrierSizes,
         at[t].pc = "entry", StandsAt(t, b), BarrierWait(t, b), IsLast(b)
  PROVE  /\ at' \in [Tasklets -> Place] /\ Places'
         /\ waiting' \in [BarrierSizes -> SUBSET Tasklets]
         /\ CacheFull' /\ CacheAllocated'
<1>1. /\ TypeOK /\ Positions /\ WaitingStand /\ EntryTogether /\ Lockstep
      /\ CacheFull /\ CacheAllocated
  BY DEF Control
<1>2. /\ at \in [Tasklets -> Place] /\ waiting \in [BarrierSizes -> SUBSET Tasklets]
      /\ b \in {2, 4, 8}
  BY <1>1 DEF TypeOK, Place, BarrierSizes
<1> DEFINE e == Entry(launch)
           s == at[t].step
           Team == 0..(b - 1)
<1>3. /\ waiting[b] \cup {t} = Team /\ s + 1 \in 1..Len(e) /\ e[s + 1] = b
      /\ \A u \in Team : at[u].pc = "entry" /\ at[u].step = s
  BY BarrierOpens DEF BarrierWait
<1>4. /\ launch' = launch /\ heap' = heap /\ cache' = cache
      /\ at' = [u \in Tasklets |-> IF u \in Team THEN Resumed(u) ELSE at[u]]
      /\ waiting' = [waiting EXCEPT ![b] = {}]
  BY <1>3 DEF BarrierWait
<1>5. P' = P
  BY <1>4 DEF P
<1>6. Team \subseteq Tasklets /\ 0 \in Team /\ s + 1 \in 0..Len(e) /\ s \in Nat
  <2>1. s \in Nat /\ Len(e) \in Nat
    BY <1>1, <1>2, EntryFacts DEF Place
  <2>2. Team \subseteq Tasklets /\ 0 \in Team
    BY <1>2 DEF Tasklets
  <2>3. QED
    BY <1>3, <2>1, <2>2
<1>7. /\ \A u \in Team : at'[u] = EntryAt(u, s + 1)
      /\ \A u \in Tasklets : u \notin Team => at'[u] = at[u]
  BY <1>3, <1>4, <1>6 DEF Resumed
<1>8. \A u \in Team :
        /\ at'[u] \in Place /\ PosOf(u, at'[u]) /\ EndOf(u, at'[u])
        /\ at'[u].pc \in {"entry", "alloc", "done"}
        /\ at'[u].pc = "entry" <=> s + 1 < Len(e) /\ u < e[(s + 1) + 1]
        /\ at'[u].pc = "entry" => at'[u].step = s + 1
        /\ at'[u].pc = "alloc" <=> s + 1 = Len(e) /\ P # << >> /\ u < P[1].workers
  BY <1>1, <1>6, <1>7, EntryAtPosition
<1>9. \A u \in Tasklets : at[u].pc \in {"reset", "entry"} => u \in Team
  <2> SUFFICES ASSUME NEW u \in Tasklets, at[u].pc \in {"reset", "entry"}
               PROVE  u \in Team
    OBVIOUS
  <2>1. /\ at[u].step < Len(e) /\ u < e[at[u].step + 1] /\ at[u].step \in Nat
    BY <1>1, <1>2 DEF Positions, PosOf, Place
  <2>2. e[at[u].step + 1] \in BarrierSizes
    BY <1>1, <2>1, EntryFacts
  <2>3. at[0].step = at[u].step
    BY <1>1, <1>6, <2>2 DEF EntryTogether, BarrierSizes
  <2>4. at[u].step = s
    BY <1>3, <1>6, <2>3
  <2>5. u < b
    BY <1>3, <2>1, <2>4
  <2>6. QED
    BY <1>2, <2>5 DEF Tasklets
<1>10. at' \in [Tasklets -> Place] /\ waiting' \in [BarrierSizes -> SUBSET Tasklets]
  BY <1>2, <1>4, <1>7, <1>8
<1>11. Positions'
  <2>1. \A u \in Tasklets : PosOf(u, at'[u]) /\ EndOf(u, at'[u])
    BY <1>1, <1>7, <1>8 DEF Positions
  <2>2. QED
    BY <1>4, <1>5, <2>1 DEF Positions, PosOf, EndOf
<1>12. WaitingStand'
  <2> SUFFICES ASSUME NEW c \in BarrierSizes, NEW u \in waiting'[c]
               PROVE  StandsAt(u, c)'
    BY DEF WaitingStand
  <2>1. c # b /\ u \in waiting[c] /\ u \in Tasklets
    BY <1>2, <1>4
  <2>2. StandsAt(u, c)
    BY <1>1, <2>1 DEF WaitingStand
  <2>3. u \notin Team
    BY <1>3, <2>1, <2>2 DEF StandsAt
  <2>4. QED
    BY <1>4, <1>5, <1>7, <2>1, <2>2, <2>3 DEF StandsAt
<1>13. EntryTogether'
  <2> SUFFICES ASSUME NEW v \in Tasklets, NEW u \in Tasklets,
                      at'[v].pc \in {"reset", "entry"}, u < e[at'[v].step + 1]
               PROVE  at'[u].pc \in {"reset", "entry"} /\ at'[u].step = at'[v].step
    BY <1>4 DEF EntryTogether
  <2>1. v \in Team
    BY <1>7, <1>9
  <2>2. s + 1 < Len(e) /\ at'[v].step = s + 1 /\ u < e[(s + 1) + 1]
    BY <1>8, <2>1
  <2>3. e[(s + 1) + 1] <= b /\ e[(s + 1) + 1] \in BarrierSizes
    <3>1. s + 1 \in 1..Len(e) /\ (s + 1) + 1 \in 1..Len(e) /\ s + 1 <= (s + 1) + 1
      BY <1>1, <1>3, <1>6, <2>2, EntryFacts
    <3>2. QED
      BY <1>1, <1>3, <3>1, EntryFacts
  <2>4. u \in Team
    BY <1>2, <2>2, <2>3 DEF Tasklets, BarrierSizes
  <2>5. QED
    BY <1>8, <2>2, <2>4
<1>14. Lockstep'
  <2> SUFFICES ASSUME NEW v \in Tasklets, NEW u \in Tasklets,
                      Active(at'[v]), P[at'[v].pass].barrier # 0,
                      u < P[at'[v].pass].workers
               PROVE  /\ Active(at'[u]) /\ at'[u].pass = at'[v].pass
                      /\ Half(at'[u]) = Half(at'[v])
    BY <1>4, <1>5 DEF Lockstep
  <2>1. CASE v \notin Team
    <3>1. Active(at[v]) /\ at'[v] = at[v] /\ at[v].pass \in 1..Len(P)
      BY <1>1, <1>2, <1>7, <2>1, LaunchFacts DEF Positions, PosOf, Place
    <3>2. P[at[v].pass].workers \in {1, 2, 4, 8}
      BY <1>1, <3>1, PassFacts
    <3>3. Active(at[0])
      BY <1>1, <1>6, <3>1, <3>2 DEF Lockstep
    <3>4. QED
      BY <1>3, <1>6, <3>3 DEF Active
  <2>2. CASE v \in Team
    <3>1. at'[v].pc = "alloc" /\ at'[v].pass = 1
      BY <1>8, <2>2 DEF Active, PosOf
    <3>2. s + 1 = Len(e) /\ P # << >> /\ P[1].workers <= b /\ P[1].workers \in {1, 2, 4, 8}
      BY <1>1, <1>3, <1>8, <2>2, <3>1, EntryFacts, PassFacts
    <3>3. u \in Team
      BY <1>2, <3>1, <3>2 DEF Tasklets
    <3>4. at'[u].pc = "alloc" /\ at'[u].pass = 1
      BY <1>8, <3>1, <3>2, <3>3 DEF PosOf
    <3>5. QED
      BY <3>1, <3>4 DEF Active, Half
  <2>3. QED
    BY <2>1, <2>2
<1>15. CacheFull' /\ CacheAllocated'
  <2>1. \A u \in Team : at'[u].pc \notin {"read", "sync1", "write", "sync2"}
    BY <1>8
  <2>2. QED
    BY <1>1, <1>4, <1>7, <2>1 DEF CacheFull, CacheAllocated, InLoop
<1>16. QED
  BY <1>10, <1>11, <1>12, <1>13, <1>14, <1>15 DEF Places

(* ... and in a loop: the workers go on together, to the same half.         *)
LEMMA LoopOpens ==
  ASSUME Control, NEW t \in Tasklets, NEW b \in BarrierSizes,
         at[t].pc \in {"sync1", "sync2"}, StandsAt(t, b), BarrierWait(t, b), IsLast(b)
  PROVE  /\ at' \in [Tasklets -> Place] /\ Places'
         /\ waiting' \in [BarrierSizes -> SUBSET Tasklets]
         /\ CacheFull' /\ CacheAllocated'
<1>1. /\ TypeOK /\ Positions /\ WaitingStand /\ EntryTogether /\ Lockstep
      /\ CacheFull /\ CacheAllocated
  BY DEF Control
<1>2. /\ at \in [Tasklets -> Place] /\ waiting \in [BarrierSizes -> SUBSET Tasklets]
      /\ b \in {2, 4, 8}
  BY <1>1 DEF TypeOK, Place, BarrierSizes
<1> DEFINE i == at[t].pass
           s == at[t].step
           Team == 0..(b - 1)
<1>3. /\ waiting[b] \cup {t} = Team
      /\ i \in 1..Len(P) /\ P[i].barrier = b /\ P[i].workers = b
      /\ \A u \in Team : at[u].pc = at[t].pc /\ at[u].pass = i /\ at[u].step = s
  BY BarrierOpens DEF BarrierWait
<1>4. /\ launch' = launch /\ heap' = heap /\ cache' = cache
      /\ at' = [u \in Tasklets |-> IF u \in Team THEN Resumed(u) ELSE at[u]]
      /\ waiting' = [waiting EXCEPT ![b] = {}]
  BY <1>3 DEF BarrierWait
<1>5. P' = P
  BY <1>4 DEF P
<1>6. /\ Team \subseteq Tasklets /\ 0 \in Team /\ s \in Nat
      /\ \A u \in Team : u < P[i].workers
  <2>1. s \in Nat
    BY <1>2 DEF Place
  <2>2. Team \subseteq Tasklets /\ 0 \in Team /\ \A u \in Team : u < b
    BY <1>2 DEF Tasklets
  <2>3. QED
    BY <1>3, <2>1, <2>2
<1>7. \A u \in Tasklets : u \notin Team => at'[u] = at[u]
  BY <1>4
<1>8. \A u \in Team :
        /\ at[u].pc = "sync1" => at'[u] = Here("write", i, s) /\ s < Steps(P[i], u)
        /\ at[u].pc = "sync2" =>
             at'[u] = LoopAt(u, i, s) /\ 1 <= s /\ s <= Steps(P[i], u)
  <2> TAKE u \in Team
  <2>1. PosOf(u, at[u])
    BY <1>1, <1>6 DEF Positions
  <2>2. at'[u] = Resumed(u)
    BY <1>4, <1>6
  <2>3. QED
    BY <1>3, <2>1, <2>2 DEF Resumed, PosOf
<1>9. \A u \in Team :
        /\ at'[u] \in Place /\ PosOf(u, at'[u]) /\ EndOf(u, at'[u])
        /\ at'[u].pc \notin {"reset", "entry", "alloc"}
  <2> TAKE u \in Team
  <2>1. CASE at[t].pc = "sync1"
    <3>1. /\ at'[u].pc = "write" /\ at'[u].pass = i /\ at'[u].step = s
          /\ at'[u] \in Place /\ s < Steps(P[i], u)
      <4>1. i \in {1, 2}
        BY <1>2 DEF Place
      <4>2. QED
        BY <1>3, <1>6, <1>8, <2>1, <4>1 DEF Here, Place, PCs
    <3>2. QED
      BY <1>3, <1>6, <3>1 DEF PosOf, EndOf, Active
  <2>2. CASE at[t].pc = "sync2"
    <3>1. at'[u] = LoopAt(u, i, s) /\ s <= Steps(P[i], u)
      BY <1>3, <1>8, <2>2
    <3>2. QED
      BY <1>1, <1>3, <1>6, <3>1, LoopAtPosition
  <2>3. QED
    BY <2>1, <2>2
<1>10. at' \in [Tasklets -> Place] /\ waiting' \in [BarrierSizes -> SUBSET Tasklets]
  BY <1>2, <1>4, <1>7, <1>9
<1>11. Positions'
  <2>1. \A u \in Tasklets : PosOf(u, at'[u]) /\ EndOf(u, at'[u])
    BY <1>1, <1>7, <1>9 DEF Positions
  <2>2. QED
    BY <1>4, <1>5, <2>1 DEF Positions, PosOf, EndOf
<1>12. WaitingStand'
  <2> SUFFICES ASSUME NEW c \in BarrierSizes, NEW u \in waiting'[c]
               PROVE  StandsAt(u, c)'
    BY DEF WaitingStand
  <2>1. c # b /\ u \in waiting[c] /\ u \in Tasklets
    BY <1>2, <1>4
  <2>2. StandsAt(u, c)
    BY <1>1, <2>1 DEF WaitingStand
  <2>3. u \notin Team
    BY <1>3, <2>1, <2>2 DEF StandsAt
  <2>4. QED
    BY <1>4, <1>5, <1>7, <2>1, <2>2, <2>3 DEF StandsAt
<1>13. EntryTogether'
  <2> SUFFICES ASSUME NEW v \in Tasklets, NEW u \in Tasklets,
                      at'[v].pc \in {"reset", "entry"},
                      u < Entry(launch)[at'[v].step + 1]
               PROVE  at'[u].pc \in {"reset", "entry"} /\ at'[u].step = at'[v].step
    BY <1>4 DEF EntryTogether
  <2>1. v \notin Team /\ at'[v] = at[v]
    BY <1>7, <1>9
  <2>2. at[u].pc \in {"reset", "entry"} /\ at[u].step = at[v].step
    BY <1>1, <2>1 DEF EntryTogether
  <2>3. u \notin Team
    BY <1>3, <2>2
  <2>4. QED
    BY <1>7, <2>1, <2>2, <2>3
<1>14. Lockstep'
  <2> SUFFICES ASSUME NEW v \in Tasklets, NEW u \in Tasklets,
                      Active(at'[v]), P[at'[v].pass].barrier # 0,
                      u < P[at'[v].pass].workers
               PROVE  /\ Active(at'[u]) /\ at'[u].pass = at'[v].pass
                      /\ Half(at'[u]) = Half(at'[v])
    BY <1>4, <1>5 DEF Lockstep
  <2>1. CASE v \notin Team
    <3>1. Active(at[v]) /\ at'[v] = at[v] /\ at[v].pass \in 1..Len(P)
      BY <1>1, <1>2, <1>7, <2>1, LaunchFacts DEF Positions, PosOf, Place
    <3>2. P[at[v].pass].workers \in {1, 2, 4, 8} /\ v < P[at[v].pass].workers
      BY <1>1, <3>1, PassFacts DEF Positions, PosOf
    <3>3. at[0].pass = at[v].pass
      BY <1>1, <1>6, <3>1, <3>2 DEF Lockstep
    <3>4. at[v].pass = i
      BY <1>3, <1>6, <3>3
    <3>5. QED
      BY <1>2, <1>3, <2>1, <3>2, <3>4 DEF Tasklets
  <2>2. CASE v \in Team /\ at[t].pc = "sync1"
    <3>1. at'[v] = Here("write", i, s)
      BY <1>3, <1>8, <2>2
    <3>2. u \in Team
      BY <1>2, <1>3, <3>1 DEF Tasklets, Here
    <3>3. at'[u] = Here("write", i, s)
      BY <1>3, <1>8, <2>2, <3>2
    <3>4. QED
      BY <3>1, <3>3 DEF Active, Here
  <2>3. CASE v \in Team /\ at[t].pc = "sync2"
    <3>1. \A w \in Team :
            /\ at'[w] = LoopAt(w, i, s) /\ s <= Steps(P[i], w)
            /\ Steps(P[i], w) = Steps(P[i], v) /\ Steps(P[i], w) \in Nat
      <4>1. \A w, x \in Team : Steps(P[i], w) = Steps(P[i], x)
        <5>1. P[i].barrier # 0 /\ Team = 0..(P[i].workers - 1)
          BY <1>2, <1>3
        <5> HIDE DEF Team, i
        <5>2. i \in 1..Len(P)
          BY <1>3
        <5>3. \A w, x \in 0..(P[i].workers - 1) : Steps(P[i], w) = Steps(P[i], x)
          BY <1>1, <5>1, <5>2, PassFacts
        <5>4. QED
          BY <5>1, <5>3
      <4>2. \A w \in Team : Steps(P[i], w) \in Nat
        BY <1>1, <1>3, <1>6, PassFacts
      <4>3. QED
        BY <1>3, <1>8, <2>3, <4>1, <4>2
    <3>2. CASE s < Steps(P[i], v)
      <4>1. \A w \in Team : at'[w] = Here("read", i, s)
        BY <1>1, <1>3, <1>6, <3>1, <3>2, LoopAtPosition
      <4>2. u \in Team
        <5>1. at'[v].pass = i
          BY <2>3, <4>1 DEF Here
        <5>2. u < P[i].workers /\ P[i].workers = b
          BY <1>2, <1>3, <5>1
        <5>3. b \in {2, 4, 8} /\ u \in 0..7 /\ u < b
          BY <1>2, <5>2 DEF Tasklets
        <5>4. QED
          BY <5>3
      <4>3. QED
        BY <2>3, <4>1, <4>2 DEF Active, Here
    <3>3. CASE s = Steps(P[i], v)
      <4>1. at'[v] = Here("done", i, s)
            \/ (i = 1 /\ Len(P) = 2 /\ at'[v] = Here("read", 2, 0))
        BY <1>1, <1>3, <1>6, <2>3, <3>1, <3>3, LoopAtPosition
      <4>2. i = 1 /\ Len(P) = 2 /\ at'[v] = Here("read", 2, 0)
        BY <4>1 DEF Active, Here
      <4>3. at'[v].pc = "read" /\ at'[v].pass = 2 /\ at'[v].step = 0
        BY <4>2 DEF Here
      <4>4. P[2].workers <= b /\ 2 \in 1..Len(P) /\ P[2].workers \in {1, 2, 4, 8}
        BY <1>1, <1>3, <4>2, TwoPassFacts, PassFacts
      <4>5. u \in Team /\ u \in 0..(P[2].workers - 1)
        BY <1>2, <4>3, <4>4 DEF Tasklets
      <4>6. v < P[2].workers /\ 0 < Steps(P[2], v)
        BY <1>9, <2>3, <4>3 DEF PosOf, Active
      <4>7. v \in 0..(P[2].workers - 1)
        BY <2>3, <4>4, <4>6 DEF Tasklets
      <4>8. Steps(P[2], u) = Steps(P[2], v) /\ P[2].barrier # 0
        BY <1>1, <4>3, <4>4, <4>5, <4>7, PassFacts
      <4>9. at'[u] = Here("read", 2, 0)
        <5>1. s = Steps(P[i], u) /\ u < P[2].workers /\ Steps(P[2], u) > 0
          BY <3>1, <3>3, <4>3, <4>5, <4>6, <4>8
        <5>2. QED
          BY <1>1, <1>3, <1>6, <3>1, <4>2, <4>5, <5>1, LoopAtPosition
      <4>10. QED
        BY <4>2, <4>9 DEF Active, Here
    <3>4. QED
      BY <1>6, <2>3, <3>1, <3>2, <3>3
  <2>4. QED
    BY <2>1, <2>2, <2>3
<1>15. CacheFull' /\ CacheAllocated'
  <2>1. \A u \in Team : u \in heap
    BY <1>1, <1>3, <1>6 DEF CacheAllocated, InLoop
  <2>2. CacheAllocated'
    BY <1>1, <1>4, <1>7, <2>1 DEF CacheAllocated, InLoop
  <2>3. \A u \in Team : at'[u].pc \in {"sync1", "write"} => at[u].pc = "sync1"
    <3> TAKE u \in Team
    <3>1. CASE at[u].pc = "sync2"
      <4>1. LoopAt(u, i, s).pc \in {"read", "done"}
        BY <1>1, <1>3, <1>6, <1>8, <3>1, LoopAtPosition
      <4>2. QED
        BY <1>8, <3>1, <4>1
    <3>2. QED
      BY <1>3, <3>1
  <2>4. CacheFull'
    BY <1>1, <1>4, <1>6, <1>7, <2>3 DEF CacheFull
  <2>5. QED
    BY <2>2, <2>4
<1>16. QED
  BY <1>10, <1>11, <1>12, <1>13, <1>14, <1>15 DEF Places

LEMMA BarrierStep ==
  ASSUME Control, NEW t \in Tasklets, NEW b, StandsAt(t, b), BarrierWait(t, b)
  PROVE  Control'
<1>1. TypeOK /\ Positions
  BY DEF Control
<1>2. b \in BarrierSizes
  <2>1. PosOf(t, at[t]) /\ at[t] \in Place
    BY <1>1 DEF Positions, TypeOK, Place
  <2>2. CASE at[t].pc = "entry" /\ Entry(launch)[at[t].step + 1] = b
    <3>1. at[t].step + 1 \in 1..Len(Entry(launch))
      BY <1>1, <2>1, <2>2, EntryFacts DEF PosOf, Place
    <3>2. QED
      BY <1>1, <2>2, <3>1, EntryFacts
  <2>3. CASE at[t].pc \in {"sync1", "sync2"} /\ P[at[t].pass].barrier = b
    <3>1. at[t].pass \in 1..Len(P) /\ P[at[t].pass].barrier # 0
      BY <1>1, <2>1, <2>3, LaunchFacts DEF PosOf, Active, Place
    <3>2. QED
      BY <1>1, <2>3, <3>1, PassFacts
  <2>4. QED
    BY <2>2, <2>3 DEF StandsAt
<1>3. /\ at' \in [Tasklets -> Place] /\ Places'
      /\ waiting' \in [BarrierSizes -> SUBSET Tasklets]
      /\ CacheFull' /\ CacheAllocated'
  <2>1. CASE ~IsLast(b)
    BY <1>2, <2>1, BarrierStops
  <2>2. CASE IsLast(b) /\ at[t].pc = "entry"
    BY <1>2, <2>2, EntryOpens
  <2>3. CASE IsLast(b) /\ at[t].pc \in {"sync1", "sync2"}
    BY <1>2, <2>3, LoopOpens
  <2>4. QED
    BY <2>1, <2>2, <2>3 DEF StandsAt
<1>4. TypeOK'
  BY <1>1, <1>3 DEF TypeOK, Place, BarrierWait
<1>5. QED
  BY <1>3, <1>4 DEF Control, Places

-----------------------------------------------------------------------------
LEMMA ControlInit == Init => Control
<1> SUFFICES ASSUME Init  PROVE Control
  OBVIOUS
<1>1. /\ launch \in Launches
      /\ at = [t \in Tasklets |-> IF t = 0 THEN Here("reset", 1, 0) ELSE Here("entry", 1, 0)]
      /\ waiting = [b \in BarrierSizes |-> {}] /\ heap = {}
      /\ cache = [t \in Tasklets |-> NoData] /\ mram = [a \in Mram |-> a]
  BY DEF Init
<1>2. \A t \in Tasklets :
        /\ at[t] \in Place /\ at[t].pass = 1 /\ at[t].step = 0
        /\ at[t].pc = IF t = 0 THEN "reset" ELSE "entry"
  BY <1>1 DEF Here, Place, PCs
<1>3. TypeOK
  <2>1. at \in [Tasklets -> Place]
    BY <1>1, <1>2
  <2>2. QED
    BY <1>1, <2>1 DEF TypeOK, Place
<1>4. Positions
  <2>1. Entry(launch)[1] = 8 /\ Len(Entry(launch)) \in 1..3
    BY <1>3, EntryFacts
  <2>2. QED
    BY <1>2, <2>1 DEF Positions, PosOf, EndOf, Active, Tasklets
<1>5. WaitingStand
  BY <1>1 DEF WaitingStand
<1>6. EntryTogether
  BY <1>2 DEF EntryTogether
<1>7. Lockstep
  BY <1>2 DEF Lockstep, Active
<1>8. CacheFull /\ CacheAllocated
  BY <1>2 DEF CacheFull, CacheAllocated, InLoop
<1>9. QED
  BY <1>3, <1>4, <1>5, <1>6, <1>7, <1>8 DEF Control

LEMMA ResetStep == ASSUME Control, Reset  PROVE Control'
<1>1. /\ TypeOK /\ Positions /\ EntryTogether /\ CacheFull
  BY DEF Control
<1>2. /\ at[0].pc = "reset" /\ at' = [at EXCEPT ![0] = EntryAt(0, 0)]
      /\ heap' = {} /\ UNCHANGED << launch, waiting, cache, mram >>
  BY DEF Reset
<1>3. 0 \in Tasklets /\ at \in [Tasklets -> Place]
  BY <1>1 DEF Tasklets, TypeOK, Place
<1>4. at[0].step = 0 /\ Entry(launch)[1] = 8 /\ Len(Entry(launch)) \in 1..3
  BY <1>1, <1>2, <1>3, EntryFacts DEF Positions, PosOf
<1> DEFINE a == EntryAt(0, 0)
<1>5. a \in Place /\ PosOf(0, a) /\ EndOf(0, a) /\ a.pc = "entry" /\ a.step = 0
  <2>1. 0 \in 0..Len(Entry(launch)) /\ 0 < Len(Entry(launch)) /\ 0 < Entry(launch)[0 + 1]
    BY <1>4
  <2>2. QED
    BY <1>1, <1>3, <2>1, EntryAtPosition
<1>6. at' \in [Tasklets -> Place] /\ Places'
  <2>1. at' = [at EXCEPT ![0] = a]
    BY <1>2
  <2> HIDE DEF a
  <2>2. ~Active(a) /\ ~Active(at[0])
    BY <1>2, <1>5 DEF Active
  <2>3. QED
    BY <1>2, <1>3, <1>4, <1>5, <2>1, <2>2, OneMoves
<1>7. TypeOK'
  BY <1>1, <1>2, <1>6 DEF TypeOK, Place
<1>8. \A u \in Tasklets : at[u].pc \in {"reset", "entry"}
  BY <1>1, <1>2, <1>3, <1>4 DEF EntryTogether, Tasklets
<1>9. \A u \in Tasklets : at'[u].pc \in {"reset", "entry"}
  BY <1>2, <1>3, <1>5, <1>8
<1>10. CacheFull' /\ CacheAllocated'
  BY <1>9 DEF CacheFull, CacheAllocated, InLoop
<1>11. QED
  BY <1>6, <1>7, <1>10 DEF Control, Places

LEMMA AllocStep == ASSUME Control, NEW t \in Tasklets, Alloc(t)  PROVE Control'
<1>1. TypeOK /\ Positions /\ CacheFull /\ CacheAllocated
  BY DEF Control
<1>2. /\ at[t].pc = "alloc" /\ at' = [at EXCEPT ![t] = LoopAt(t, 1, 0)]
      /\ heap' = heap \cup {t} /\ UNCHANGED << launch, waiting, cache, mram >>
  BY DEF Alloc
<1>3. at \in [Tasklets -> Place]
  BY <1>1 DEF TypeOK, Place
<1>4. at[t].pass = 1 /\ 1 \in 1..Len(P) /\ t < P[1].workers
  BY <1>1, <1>2, LaunchFacts DEF Positions, PosOf, Active
<1> DEFINE a == LoopAt(t, 1, 0)
<1>5. P[1].barrier # 0 => 0 < Steps(P[1], t)
  <2>1. t \in 0..(P[1].workers - 1) /\ 1 <= Len(P)
    <3>1. P[1].workers \in {1, 2, 4, 8} /\ Len(P) \in Nat
      BY <1>1, <1>4, PassFacts, LaunchFacts
    <3>2. QED
      BY <1>4, <3>1 DEF Tasklets
  <2>2. QED
    BY <1>1, <2>1, FirstPassMoves
<1>6. 0 <= Steps(P[1], t) /\ Steps(P[1], t) \in Nat
  BY <1>1, <1>4, PassFacts
<1>7. /\ a \in Place /\ PosOf(t, a) /\ EndOf(t, a) /\ a.pc \in {"read", "done"}
      /\ 0 < Steps(P[1], t) => a = Here("read", 1, 0)
      /\ 0 = Steps(P[1], t) =>
           a = Here("done", 1, 0) \/ (Len(P) = 2 /\ a = Here("read", 2, 0))
  BY <1>1, <1>4, <1>6, LoopAtPosition
<1>8. at' \in [Tasklets -> Place] /\ Places'
  <2>1. Len(P) = 2 => P[1].barrier # 0
    BY <1>1, TwoPassFacts
  <2>2. Active(a) => a.pass = 1
    BY <1>5, <1>6, <1>7, <2>1 DEF Active, Here
  <2>3. P[1].barrier # 0 => Active(a) /\ Half(a) = Half(at[t])
    BY <1>2, <1>5, <1>7 DEF Active, Half, Here
  <2>4. at' = [at EXCEPT ![t] = a] /\ Active(at[t])
    BY <1>2 DEF Active
  <2> HIDE DEF a
  <2>5. QED
    BY <1>2, <1>4, <1>7, <2>2, <2>3, <2>4, OneMoves
<1>9. TypeOK'
  BY <1>1, <1>2, <1>8 DEF TypeOK, Place
<1>10. CacheAllocated'
  BY <1>1, <1>2, <1>3 DEF CacheAllocated, InLoop
<1>11. CacheFull'
  BY <1>1, <1>2, <1>3, <1>7 DEF CacheFull
<1>12. QED
  BY <1>8, <1>9, <1>10, <1>11 DEF Control, Places

LEMMA ReadStep == ASSUME Control, NEW t \in Tasklets, Read(t)  PROVE Control'
<1>1. TypeOK /\ Positions /\ CacheFull /\ CacheAllocated
  BY DEF Control
<1> DEFINE i == at[t].pass
           s == at[t].step
           a == [at[t] EXCEPT !.pc = IF P[i].barrier = 0 THEN "write" ELSE "sync1"]
<1>2. /\ at[t].pc = "read" /\ at' = [at EXCEPT ![t] = a]
      /\ cache' = [cache EXCEPT ![t] = mram[From(P[i], t, s)]]
      /\ UNCHANGED << launch, waiting, heap, mram >>
  BY DEF Read, AfterRead
<1>3. at \in [Tasklets -> Place] /\ at[t] \in Place /\ PosOf(t, at[t])
  BY <1>1 DEF TypeOK, Place, Positions
<1>4. i \in 1..Len(P) /\ t < P[i].workers /\ s < Steps(P[i], t) /\ s \in Nat
  BY <1>1, <1>2, <1>3, LaunchFacts DEF PosOf, Active, Place
<1>5. mram[From(P[i], t, s)] \in Mram
  BY <1>1, <1>4, FromInMram DEF TypeOK
<1>6. /\ a \in Place /\ a.pass = i /\ a.step = s
      /\ a.pc = IF P[i].barrier = 0 THEN "write" ELSE "sync1"
  BY <1>3 DEF Place, PCs
<1>7. at' \in [Tasklets -> Place] /\ Places'
  <2> HIDE DEF a
  <2>1. PosOf(t, a) /\ EndOf(t, a)
    BY <1>2, <1>4, <1>6 DEF PosOf, EndOf, Active
  <2>2. Active(at[t]) /\ Active(a)
    BY <1>2, <1>6 DEF Active
  <2>3. P[i].barrier # 0 => Half(a) = Half(at[t])
    BY <1>2, <1>6 DEF Half
  <2>4. QED
    BY <1>2, <1>6, <2>1, <2>2, <2>3, OneMoves
<1>8. TypeOK'
  BY <1>1, <1>2, <1>5, <1>7 DEF TypeOK, Place
<1>9. CacheAllocated'
  BY <1>1, <1>2, <1>3 DEF CacheAllocated, InLoop
<1>10. CacheFull'
  BY <1>1, <1>2, <1>3, <1>5 DEF CacheFull, TypeOK
<1>11. QED
  BY <1>7, <1>8, <1>9, <1>10 DEF Control, Places

LEMMA WriteStep == ASSUME Control, NEW t \in Tasklets, Write(t)  PROVE Control'
<1>1. TypeOK /\ Positions /\ CacheFull /\ CacheAllocated
  BY DEF Control
<1> DEFINE i == at[t].pass
           s == at[t].step
           a == IF P[i].barrier = 0 THEN LoopAt(t, i, s + 1)
                ELSE Here("sync2", i, s + 1)
<1>2. /\ at[t].pc = "write" /\ at' = [at EXCEPT ![t] = a]
      /\ mram' = [mram EXCEPT ![To(P[i], t, s)] = cache[t]]
      /\ UNCHANGED << launch, waiting, heap, cache >>
  BY DEF Write
<1>3. at \in [Tasklets -> Place] /\ at[t] \in Place /\ PosOf(t, at[t])
  BY <1>1 DEF TypeOK, Place, Positions
<1>4. /\ i \in 1..Len(P) /\ t < P[i].workers /\ s < Steps(P[i], t)
      /\ s \in Nat /\ i \in {1, 2}
  BY <1>1, <1>2, <1>3, LaunchFacts DEF PosOf, Active, Place
<1>5. cache[t] \in Mram
  BY <1>1, <1>2 DEF CacheFull
<1>6. Steps(P[i], t) \in Nat
  BY <1>1, <1>4, PassFacts
<1>7. /\ a \in Place /\ PosOf(t, a) /\ EndOf(t, a)
      /\ a.pc \in {"read", "done", "sync2"}
      /\ Active(a) => a.pass = i
      /\ P[i].barrier # 0 => Active(a) /\ Half(a) = Half(at[t])
  <2>1. CASE P[i].barrier # 0
    <3>1. a.pc = "sync2" /\ a.pass = i /\ a.step = s + 1 /\ a \in Place
      BY <1>4, <2>1 DEF Here, Place, PCs
    <3> HIDE DEF a
    <3>2. PosOf(t, a) /\ EndOf(t, a)
      BY <1>4, <1>6, <2>1, <3>1 DEF PosOf, EndOf, Active
    <3>3. Half(a) = Half(at[t])
      BY <1>2, <1>4, <3>1 DEF Half
    <3>4. QED
      BY <3>1, <3>2, <3>3 DEF Active
  <2>2. CASE P[i].barrier = 0
    <3>1. a = LoopAt(t, i, s + 1) /\ s + 1 \in Nat /\ s + 1 <= Steps(P[i], t)
      BY <1>4, <1>6, <2>2
    <3>2. ~(i = 1 /\ Len(P) = 2)
      BY <1>1, <2>2, TwoPassFacts
    <3>3. /\ a \in Place /\ PosOf(t, a) /\ EndOf(t, a) /\ a.pc \in {"read", "done"}
          /\ s + 1 < Steps(P[i], t) => a = Here("read", i, s + 1)
          /\ s + 1 = Steps(P[i], t) => a = Here("done", i, s + 1)
      BY <1>1, <1>4, <3>1, <3>2, LoopAtPosition
    <3>4. a.pass = i
      BY <1>6, <3>1, <3>3 DEF Here
    <3>5. QED
      BY <2>2, <3>3, <3>4
  <2>3. QED
    BY <2>1, <2>2
<1>8. at' \in [Tasklets -> Place] /\ Places'
  <2> HIDE DEF a
  <2>1. Active(at[t])
    BY <1>2 DEF Active
  <2>2. QED
    BY <1>2, <1>7, <2>1, OneMoves
<1>9. TypeOK'
  BY <1>1, <1>2, <1>5, <1>8 DEF TypeOK, Place
<1>10. CacheAllocated'
  BY <1>1, <1>2, <1>3 DEF CacheAllocated, InLoop
<1>11. CacheFull'
  BY <1>1, <1>2, <1>3, <1>7 DEF CacheFull
<1>12. QED
  BY <1>8, <1>9, <1>10, <1>11 DEF Control, Places

LEMMA ControlNext == Control /\ [Next]_vars => Control'
<1> SUFFICES ASSUME Control, [Next]_vars  PROVE Control'
  OBVIOUS
<1>1. ASSUME NEW t \in Tasklets, EntryBarrier(t)  PROVE Control'
  BY <1>1, BarrierStep DEF EntryBarrier, StandsAt
<1>2. ASSUME NEW t \in Tasklets, LoopBarrier(t)  PROVE Control'
  BY <1>2, BarrierStep DEF LoopBarrier, StandsAt
<1>3. CASE UNCHANGED vars
  BY <1>3 DEF vars, Control, TypeOK, Positions, PosOf, EndOf, WaitingStand,
       StandsAt, EntryTogether, Lockstep, CacheFull, CacheAllocated, InLoop, P
<1>4. QED
  BY <1>1, <1>2, <1>3, ResetStep, AllocStep, ReadStep, WriteStep
    DEF Next, Step, Terminated

LEMMA ControlInvariant == Spec => []Control
BY ControlInit, ControlNext, PTL DEF Spec

(* Every component of the state keeps its type: no address outside the MRAM *)
(* is read or written, no word_cache is written back before it was read     *)
(* into, and a tasklet is never sent to a pass the kernel does not have.    *)
THEOREM TypeCorrect == Spec => []TypeOK
<1>1. Control => TypeOK
  BY DEF Control
<1>2. QED
  BY <1>1, ControlInvariant, PTL

(* mem_reset never frees a word_cache in use: the tasklet that runs it has  *)
(* to pass the first barrier before any other can allocate.                 *)
THEOREM CachesStayAllocated == Spec => []CacheAllocated
<1>1. Control => CacheAllocated
  BY DEF Control
<1>2. QED
  BY <1>1, ControlInvariant, PTL

(* The barriers of the loop body work: nobody reads a block of the round    *)
(* while somebody writes one.                                               *)
THEOREM HalvesApart == Spec => []PhasesApart
<1>1. ASSUME Control  PROVE PhasesApart
  <2> SUFFICES ASSUME NEW t \in Tasklets, NEW u \in Tasklets,
                      at[t].pc \in {"read", "sync1"}, at[u].pc \in {"write", "sync2"},
                      at[t].pass = at[u].pass, P[at[t].pass].barrier # 0
               PROVE  FALSE
    BY DEF PhasesApart
  <2>1. at \in [Tasklets -> Place] /\ Lockstep /\ PosOf(u, at[u])
    BY <1>1 DEF Control, TypeOK, Place, Positions
  <2>2. Active(at[t]) /\ Active(at[u]) /\ u < P[at[t].pass].workers
    BY <2>1 DEF Active, PosOf
  <2>3. Half(at[u]) = Half(at[t])
    BY <2>1, <2>2 DEF Lockstep
  <2>4. at[t].step \in Nat /\ at[u].step \in Nat
    BY <2>1 DEF Place
  <2>5. QED
    BY <2>3, <2>4, SMT DEF Half
<1>2. QED
  BY <1>1, ControlInvariant, PTL

=============================================================================
