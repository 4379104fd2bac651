-------------------------- MODULE RelocateDataProofs --------------------------
(***************************************************************************)
(* What a launch does to the memory.  Under the assumption that no launch   *)
(* races (AllRaceFree: source and target apart, or in place with barriers)  *)
(* every block reaches its slot and no chunk is lost on the way.            *)
(***************************************************************************)
EXTENDS RelocateProofs

Original == [a \in Mram |-> a]

(* The number of chunks tasklet t has written in pass i. *)
Count(t, i) ==
  IF at[t].pass = i /\ at[t].pc \in {"read", "sync1", "write", "sync2", "done"}
  THEN at[t].step ELSE 0

(* Everybody who has not returned is in pass i. *)
InPass(i) ==
  \A t \in Tasklets :
    at[t].pass = i \/ (i = 2 /\ at[t].pass = 1 /\ at[t].pc = "done")

(* In pass i: what has been written, what has not, what is in the caches.   *)
Written(i) ==
  \A t \in 0..(P[i].workers - 1) : \A r \in 0..(Count(t, i) - 1) :
    mram[To(P[i], t, r)] = Before(i)[From(P[i], t, r)]

Untouched(i) ==
  \A a \in Mram :
    (\A t \in 0..(P[i].workers - 1) : \A r \in 0..(Count(t, i) - 1) :
       a # To(P[i], t, r))
    => mram[a] = Before(i)[a]

Cached(i) ==
  \A t \in Tasklets : at[t].pc \in {"sync1", "write"} =>
    cache[t] = Before(i)[From(P[i], t, at[t].step)]

PassState(i) == InPass(i) /\ Written(i) /\ Untouched(i) /\ Cached(i)

Data == IF P = << >> THEN mram = Original
                     ELSE \E i \in 1..Len(P) : PassState(i)

-----------------------------------------------------------------------------
(* A memory in which all copies of a pass have been made, and no other, is  *)
(* the memory the pass is for.                                              *)
LEMMA PassComplete ==
  ASSUME NEW p \in PassType, NEW old, NEW m, DOMAIN old = Mram,
         m \in [Mram -> Mram],
         \A t \in 0..(p.workers - 1) : \A r \in 0..(Steps(p, t) - 1) :
           m[To(p, t, r)] = old[From(p, t, r)],
         \A a \in Mram :
           (\A t \in 0..(p.workers - 1) : \A r \in 0..(Steps(p, t) - 1) :
              a # To(p, t, r)) => m[a] = old[a]
  PROVE  m = Moved(p, old)
<1> DEFINE IsAt(a, b, c) == a = p.dst + p.iter * Slot(p, b) + c
           Bs == 0..(p.blocks - 1)
           Cs == 0..(p.iter - 1)
           N(a) == IF \E b \in Bs, c \in Cs : IsAt(a, b, c)
                   THEN LET bc == CHOOSE bc \in Bs \X Cs : IsAt(a, bc[1], bc[2])
                        IN  old[p.src + p.iter * bc[1] + bc[2]]
                   ELSE old[a]
<1>1. Moved(p, old) = [a \in Mram |-> N(a)]
  BY DEF Moved
<1>2. \A t \in 0..(p.workers - 1) : t \in Nat /\ Steps(p, t) \in Nat
  <2> TAKE t \in 0..(p.workers - 1)
  <2>1. t \in Nat
    BY DEF PassType
  <2>2. QED
    BY <2>1, StepsNat
<1>3. ASSUME NEW a \in Mram  PROVE m[a] = N(a)
  <2>1. CASE \E b \in Bs, c \in Cs : IsAt(a, b, c)
    <3> DEFINE bc == CHOOSE bc \in Bs \X Cs : IsAt(a, bc[1], bc[2])
    <3>1. \E x \in Bs \X Cs : IsAt(a, x[1], x[2])
      <4>1. PICK b \in Bs, c \in Cs : IsAt(a, b, c)
        BY <2>1
      <4>2. <<b, c>> \in Bs \X Cs /\ IsAt(a, <<b, c>>[1], <<b, c>>[2])
        BY <4>1
      <4>3. QED
        BY <4>2
    <3>2. bc \in Bs \X Cs /\ IsAt(a, bc[1], bc[2])
      BY <3>1
    <3>3. N(a) = old[p.src + p.iter * bc[1] + bc[2]]
      BY <2>1
    <3> HIDE DEF bc, N
    <3>4. bc[1] \in Bs /\ bc[2] \in Cs
      BY <3>2
    <3>5. PICK t \in 0..(p.workers - 1), s \in Nat :
            s < Steps(p, t) /\ Block(p, t, s) = bc[1] /\ s % p.iter = bc[2]
      BY <3>4, StepsCover
    <3>6. To(p, t, s) = a /\ From(p, t, s) = p.src + p.iter * bc[1] + bc[2]
      BY <3>2, <3>5 DEF To, From
    <3>7. s \in 0..(Steps(p, t) - 1)
      BY <1>2, <3>5
    <3>8. QED
      BY <3>3, <3>6, <3>7
  <2>2. CASE ~(\E b \in Bs, c \in Cs : IsAt(a, b, c))
    <3>1. ASSUME NEW t \in 0..(p.workers - 1), NEW r \in 0..(Steps(p, t) - 1)
          PROVE  a # To(p, t, r)
      <4>1. t \in Nat /\ r \in Nat /\ r < Steps(p, t)
        BY <1>2
      <4>2. Block(p, t, r) \in Bs /\ r % p.iter \in Cs
        BY <4>1, BlockInRange
      <4>3. ~IsAt(a, Block(p, t, r), r % p.iter)
        BY <2>2, <4>2
      <4>4. QED
        BY <4>3 DEF To
    <3>2. N(a) = old[a]
      BY <2>2
    <3> HIDE DEF N
    <3>3. QED
      BY <3>1, <3>2
  <2>3. QED
    BY <2>1, <2>2
<1> HIDE DEF N
<1>4. m = [a \in Mram |-> m[a]]
  OBVIOUS
<1>5. QED
  BY <1>1, <1>3, <1>4

LEMMA ToInMram ==
  ASSUME TypeOK, NEW i \in 1..Len(P), NEW t \in Nat, NEW s \in Nat,
         s < Steps(P[i], t)
  PROVE  To(P[i], t, s) \in Mram
<1>1. P[i] \in PassType /\ PassFits(P[i])
  BY LaunchFacts
<1>2. P[i].blocks % P[i].group = 0 /\ P[i].dst + (P[i].iter * P[i].blocks) <= MramSize
  BY <1>1 DEF PassFits
<1>3. To(P[i], t, s) \in P[i].dst..(P[i].dst + (P[i].iter * P[i].blocks) - 1)
  BY <1>1, <1>2, ToInRegion
<1>4. P[i].dst \in Nat /\ P[i].iter \in Nat /\ P[i].blocks \in Nat /\ MramSize \in Nat
  BY <1>1, RelocateAssumption DEF PassType
<1>5. P[i].iter * P[i].blocks \in Nat
  BY <1>4, SMT
<1>6. QED
  BY <1>2, <1>3, <1>4, <1>5 DEF Mram

(* No tasklet has written more chunks than it has to. *)
LEMMA CountBound ==
  ASSUME Control, NEW i \in 1..Len(P), NEW t \in 0..(P[i].workers - 1)
  PROVE  Count(t, i) \in Nat /\ Count(t, i) <= Steps(P[i], t) /\ t \in Tasklets
<1>1. TypeOK /\ Positions
  BY DEF Control
<1>2. P[i].workers \in {1, 2, 4, 8}
  BY <1>1, PassFacts
<1>3. t \in Tasklets
  BY <1>2 DEF Tasklets
<1>4. at[t] \in Place /\ PosOf(t, at[t]) /\ EndOf(t, at[t])
  BY <1>1, <1>3 DEF TypeOK, Place, Positions
<1>5. Steps(P[i], t) \in Nat
  BY <1>1, <1>3, PassFacts
<1>6. at[t].step \in Nat
  BY <1>4 DEF Place
<1>7. CASE at[t].pass = i /\ at[t].pc = "done"
  <2>1. Count(t, i) = at[t].step
    BY <1>7 DEF Count
  <2>2. at[t].step = Steps(P[i], t)
    BY <1>2, <1>4, <1>7 DEF EndOf
  <2>3. QED
    BY <1>3, <1>5, <2>1, <2>2
<1>8. CASE at[t].pass = i /\ at[t].pc \in {"read", "sync1", "write", "sync2"}
  BY <1>3, <1>4, <1>5, <1>6, <1>8 DEF Count, PosOf
<1>9. CASE ~(at[t].pass = i /\ at[t].pc \in {"read", "sync1", "write", "sync2", "done"})
  BY <1>3, <1>5, <1>9 DEF Count
<1>10. QED
  BY <1>7, <1>8, <1>9

(* The chunk a tasklet is about to read, or will read later in the pass, is *)
(* still what it was when the pass began.                                   *)
LEMMA SourceKept ==
  ASSUME Control, NEW i \in 1..Len(P), PassState(i), RaceFree(P[i]),
         NEW t \in Tasklets, at[t].pc = "read",
         NEW r \in Nat, at[t].step <= r, r < Steps(P[i], t)
  PROVE  mram[From(P[i], t, r)] = Before(i)[From(P[i], t, r)]
<1> DEFINE p == P[i]
           a == From(p, t, r)
<1>1. TypeOK /\ Positions /\ Lockstep /\ Untouched(i) /\ at[t].pass = i
  BY DEF Control, PassState, InPass
<1>2. p \in PassType /\ PassFits(p) /\ p.workers \in {1, 2, 4, 8}
  BY <1>1, LaunchFacts, PassFacts
<1>3. a \in Mram
  BY <1>1, FromInMram
<1>4. at[t] \in Place /\ PosOf(t, at[t]) /\ t \in 0..(p.workers - 1) /\ t \in Nat
  <2>1. at[t] \in Place /\ PosOf(t, at[t])
    BY <1>1 DEF TypeOK, Place, Positions
  <2>2. t < p.workers
    BY <1>1, <2>1 DEF PosOf, Active
  <2>3. QED
    BY <1>2, <2>1, <2>2 DEF Tasklets
<1>5. ASSUME NEW u \in 0..(p.workers - 1), NEW q \in 0..(Count(u, i) - 1),
             a = To(p, u, q)
      PROVE  FALSE
  <2>1. /\ Count(u, i) \in Nat /\ Count(u, i) <= Steps(p, u) /\ u \in Tasklets
        /\ Steps(p, u) \in Nat
    BY <1>1, CountBound, PassFacts
  <2>2. q \in Nat /\ q < Steps(p, u) /\ u \in Nat /\ q < Count(u, i)
    BY <1>2, <2>1
  <2>3. a \in p.src..(p.src + (p.iter * p.blocks) - 1)
    BY <1>2, <1>4, FromInRegion
  <2>4. a \in p.dst..(p.dst + (p.iter * p.blocks) - 1)
    BY <1>2, <1>5, <2>2, ToInRegion DEF PassFits
  <2>5. p.src \in Nat /\ p.dst \in Nat /\ p.iter * p.blocks \in Nat
    <3>1. p.iter \in Nat /\ p.blocks \in Nat
      BY <1>2 DEF PassType
    <3>2. p.iter * p.blocks \in Nat
      BY <3>1, SMT
    <3>3. QED
      BY <1>2, <3>2 DEF PassType
  <2>6. p.src = p.dst /\ p.barrier # 0 /\ p.workers % p.group = 0
    <3> HIDE DEF a
    <3>1. RaceFree(p)
      OBVIOUS
    <3> HIDE DEF p
    <3>2. QED
      BY <2>3, <2>4, <2>5, <3>1 DEF RaceFree
  <2>7. q = r
    BY <1>2, <1>4, <1>5, <2>2, <2>6, InPlaceSameStep
  <2>8. Active(at[u]) /\ at[u].pass = i /\ Half(at[u]) = Half(at[t])
    <3>1. Active(at[t]) /\ P[at[t].pass].barrier # 0 /\ u < P[at[t].pass].workers
      BY <1>1, <1>2, <2>6 DEF Active
    <3>2. QED
      BY <1>1, <2>1, <3>1 DEF Lockstep
  <2>9. Half(at[t]) = 2 * at[t].step
    BY DEF Half
  <2>10. at[u].step \in Nat /\ at[t].step \in Nat
    BY <1>1, <2>1 DEF TypeOK
  <2>11. Count(u, i) <= at[t].step
    <3>1. CASE at[u].pc = "alloc"
      BY <2>10, <3>1 DEF Count
    <3>2. CASE at[u].pc \in {"read", "sync1"}
      <4>1. Half(at[u]) = 2 * at[u].step
        BY <3>2 DEF Half
      <4>2. Count(u, i) = at[u].step
        BY <2>8, <3>2 DEF Count
      <4>3. QED
        BY <2>8, <2>9, <2>10, <4>1, <4>2
    <3>3. CASE at[u].pc = "write"
      <4>1. Half(at[u]) = 2 * at[u].step + 1
        BY <3>3 DEF Half
      <4>2. 2 * at[u].step + 1 = 2 * at[t].step
        BY <2>8, <2>9, <4>1
      <4>3. \A x, y \in Nat : 2 * x + 1 # 2 * y
        BY SMT
      <4>4. FALSE
        BY <2>10, <4>2, <4>3
      <4>5. QED
        BY <4>4
    <3>4. CASE at[u].pc = "sync2"
      <4>1. Half(at[u]) = 2 * at[u].step - 1
        BY <3>4 DEF Half
      <4>2. 2 * at[u].step - 1 = 2 * at[t].step
        BY <2>8, <2>9, <4>1
      <4>3. \A x, y \in Nat : 2 * x - 1 # 2 * y
        BY SMT
      <4>4. FALSE
        BY <2>10, <4>2, <4>3
      <4>5. QED
        BY <4>4
    <3>5. QED
      BY <2>8, <3>1, <3>2, <3>3, <3>4 DEF Active
  <2>12. QED
    BY <2>1, <2>2, <2>7, <2>10, <2>11
<1>6. \A u \in 0..(p.workers - 1) : \A q \in 0..(Count(u, i) - 1) : a # To(p, u, q)
  BY <1>5
<1>7. QED
  BY <1>1, <1>3, <1>6 DEF Untouched

-----------------------------------------------------------------------------
(* Steps that move tasklets but no data.                                    *)
LEMMA DataUnmoved ==
  ASSUME Control, NEW i \in 1..Len(P), PassState(i),
         UNCHANGED << launch, cache, mram >>,
         InPass(i)',
         \A u \in Tasklets : Count(u, i)' = Count(u, i),
         \A u \in Tasklets : at'[u].pc \in {"sync1", "write"} =>
           at[u].pc \in {"sync1", "write"} /\ at'[u].step = at[u].step
  PROVE  PassState(i)'
<1>1. P' = P /\ launch' = launch /\ cache' = cache /\ mram' = mram
  BY DEF P
<1>2. Before(i)' = Before(i)
  BY <1>1 DEF Before
<1>3. \A t \in 0..(P[i].workers - 1) : Count(t, i)' = Count(t, i)
  BY CountBound
<1>4. Written(i)'
  BY <1>1, <1>2, <1>3 DEF PassState, Written
<1>5. Untouched(i)'
  BY <1>1, <1>2, <1>3 DEF PassState, Untouched
<1>6. Cached(i)'
  BY <1>1, <1>2 DEF PassState, Cached
<1>7. QED
  BY <1>4, <1>5, <1>6 DEF PassState

LEMMA DataRead ==
  ASSUME Control, NEW i \in 1..Len(P), PassState(i), RaceFree(P[i]),
         NEW t \in Tasklets, Read(t)
  PROVE  PassState(i)'
<1> DEFINE s == at[t].step
           a == [at[t] EXCEPT !.pc = IF P[i].barrier = 0 THEN "write" ELSE "sync1"]
<1>1. TypeOK /\ Positions
  BY DEF Control
<1>2. at[t].pc = "read" /\ at[t].pass = i
  BY DEF Read, AfterRead, PassState, InPass
<1>3. /\ at' = [at EXCEPT ![t] = a]
      /\ cache' = [cache EXCEPT ![t] = mram[From(P[i], t, s)]]
      /\ launch' = launch /\ mram' = mram
  BY <1>2 DEF Read, AfterRead
<1>4. at \in [Tasklets -> Place] /\ PosOf(t, at[t]) /\ cache \in [Tasklets -> Mram \cup {NoData}]
  BY <1>1 DEF TypeOK, Place, Positions
<1>5. s \in Nat /\ s < Steps(P[i], t)
  BY <1>2, <1>4 DEF PosOf, Place
<1>6. /\ a.pass = i /\ a.step = s /\ a.pc \in {"write", "sync1"}
      /\ at'[t] = a /\ \A u \in Tasklets : u # t => at'[u] = at[u]
  <2>1. at[t] \in Place
    BY <1>4
  <2>2. a.pass = i /\ a.step = s /\ a.pc \in {"write", "sync1"}
    BY <1>2, <2>1 DEF Place
  <2> HIDE DEF a
  <2>3. QED
    BY <1>3, <1>4, <2>2
<1>7. P' = P
  BY <1>3 DEF P
<1>8. Before(i)' = Before(i)
  BY <1>3, <1>7 DEF Before
<1>9. InPass(i)'
  BY <1>6 DEF PassState, InPass
<1>10. \A u \in 0..(P[i].workers - 1) : Count(u, i)' = Count(u, i)
  <2> TAKE u \in 0..(P[i].workers - 1)
  <2>1. u \in Tasklets
    BY CountBound
  <2> HIDE DEF a
  <2>2. CASE u = t
    BY <1>2, <1>6, <2>2 DEF Count
  <2>3. CASE u # t
    BY <1>6, <2>1, <2>3 DEF Count
  <2>4. QED
    BY <2>2, <2>3
<1>11. Written(i)' /\ Untouched(i)'
  <2>1. Written(i)'
    BY <1>3, <1>7, <1>8, <1>10 DEF PassState, Written
  <2>2. Untouched(i)'
    BY <1>3, <1>7, <1>8, <1>10 DEF PassState, Untouched
  <2>3. QED
    BY <2>1, <2>2
<1>12. Cached(i)'
  <2> SUFFICES ASSUME NEW u \in Tasklets, at'[u].pc \in {"sync1", "write"}
               PROVE  cache'[u] = Before(i)[From(P[i], u, at'[u].step)]
    BY <1>7, <1>8 DEF Cached
  <2>1. CASE u = t
    <3>1. mram[From(P[i], t, s)] = Before(i)[From(P[i], t, s)]
      BY <1>2, <1>5, SourceKept
    <3> HIDE DEF a
    <3>2. QED
      BY <1>3, <1>4, <1>6, <2>1, <3>1
  <2>2. CASE u # t
    <3> HIDE DEF a
    <3>1. at'[u] = at[u] /\ cache'[u] = cache[u]
      BY <1>3, <1>4, <1>6, <2>2
    <3>2. QED
      BY <3>1 DEF PassState, Cached
  <2>3. QED
    BY <2>1, <2>2
<1>13. QED
  BY <1>9, <1>11, <1>12 DEF PassState

LEMMA DataWrite ==
  ASSUME Control, NEW i \in 1..Len(P), PassState(i), NEW t \in Tasklets, Write(t)
  PROVE  PassState(i)'
<1> DEFINE s == at[t].step
           p == P[i]
           a == IF p.barrier = 0 THEN LoopAt(t, i, s + 1) ELSE Here("sync2", i, s + 1)
<1>1. TypeOK /\ Positions
  BY DEF Control
<1>2. at[t].pc = "write" /\ at[t].pass = i
  BY DEF Write, PassState, InPass
<1>3. /\ at' = [at EXCEPT ![t] = a]
      /\ mram' = [mram EXCEPT ![To(p, t, s)] = cache[t]]
      /\ launch' = launch /\ cache' = cache
  BY <1>2 DEF Write
<1>4. at \in [Tasklets -> Place] /\ PosOf(t, at[t]) /\ mram \in [Mram -> Mram]
  BY <1>1 DEF TypeOK, Place, Positions
<1>5. s \in Nat /\ s < Steps(p, t) /\ t < p.workers /\ Steps(p, t) \in Nat
  BY <1>1, <1>2, <1>4, PassFacts DEF PosOf, Place, Active
<1>6. a.pass = i /\ a.step = s + 1 /\ a.pc \in {"read", "sync2", "done"}
  <2>1. CASE p.barrier # 0
    BY <2>1 DEF Here
  <2>2. CASE p.barrier = 0
    <3>1. a = LoopAt(t, i, s + 1) /\ s + 1 \in Nat /\ s + 1 <= Steps(p, t)
      BY <1>5, <2>2
    <3>2. ~(i = 1 /\ Len(P) = 2)
      BY <1>1, <2>2, TwoPassFacts
    <3>3. a = Here("read", i, s + 1) \/ a = Here("done", i, s + 1)
      BY <1>1, <1>5, <3>1, <3>2, LoopAtPosition
    <3>4. QED
      BY <3>3 DEF Here
  <2>3. QED
    BY <2>1, <2>2
<1>7. at'[t] = a /\ \A u \in Tasklets : u # t => at'[u] = at[u]
  <2> HIDE DEF a
  <2>1. QED
    BY <1>3, <1>4
<1> HIDE DEF a
<1>8. P' = P
  BY <1>3 DEF P
<1>9. Before(i)' = Before(i)
  BY <1>3, <1>8 DEF Before
<1>10. InPass(i)'
  BY <1>6, <1>7 DEF PassState, InPass
<1>11. t \in 0..(p.workers - 1) /\ Count(t, i) = s /\ Count(t, i)' = s + 1
  <2>1. p.workers \in {1, 2, 4, 8}
    BY <1>1, PassFacts
  <2>2. t \in 0..(p.workers - 1)
    BY <1>5, <2>1 DEF Tasklets
  <2>3. QED
    BY <1>2, <1>6, <1>7, <2>2 DEF Count
<1>12. \A u \in 0..(p.workers - 1) :
         /\ u \in Tasklets /\ Count(u, i) \in Nat /\ Count(u, i) <= Steps(p, u)
         /\ Steps(p, u) \in Nat
         /\ u # t => Count(u, i)' = Count(u, i)
  <2> TAKE u \in 0..(p.workers - 1)
  <2>1. u \in Tasklets /\ Count(u, i) \in Nat /\ Count(u, i) <= Steps(p, u)
    BY CountBound
  <2>2. Steps(p, u) \in Nat
    BY <1>1, <2>1, PassFacts
  <2>3. u # t => Count(u, i)' = Count(u, i)
    BY <1>7, <2>1 DEF Count
  <2>4. QED
    BY <2>1, <2>2, <2>3
<1>13. To(p, t, s) \in Mram
  BY <1>1, <1>5, ToInMram DEF Tasklets
<1>14. p \in PassType /\ \A u \in 0..(p.workers - 1) : u \in Nat
  BY <1>1, LaunchFacts DEF PassType
<1>15. Written(i)'
  <2> SUFFICES ASSUME NEW u \in 0..(p.workers - 1), NEW r \in 0..(Count(u, i)' - 1)
               PROVE  mram'[To(p, u, r)] = Before(i)[From(p, u, r)]
    BY <1>8, <1>9 DEF Written
  <2>1. CASE u = t /\ r = s
    BY <1>2, <1>3, <1>4, <1>13, <2>1 DEF PassState, Cached
  <2>2. CASE ~(u = t /\ r = s)
    <3>1. r \in 0..(Count(u, i) - 1) /\ r \in Nat /\ r < Steps(p, u)
      BY <1>5, <1>11, <1>12, <2>2
    <3>2. To(p, u, r) # To(p, t, s)
      BY <1>5, <1>11, <1>14, <2>2, <3>1, ToInjective
    <3>3. mram[To(p, u, r)] = Before(i)[From(p, u, r)]
      BY <3>1 DEF PassState, Written
    <3>4. To(p, u, r) \in Mram
      BY <1>1, <1>14, <3>1, ToInMram
    <3>5. QED
      BY <1>3, <1>4, <3>2, <3>3, <3>4
  <2>3. QED
    BY <2>1, <2>2
<1>16. Untouched(i)'
  <2> SUFFICES ASSUME NEW b \in Mram,
                      \A u \in 0..(p.workers - 1) : \A r \in 0..(Count(u, i)' - 1) :
                        b # To(p, u, r)
               PROVE  mram'[b] = Before(i)[b]
    BY <1>8, <1>9 DEF Untouched
  <2>1. b # To(p, t, s)
    BY <1>5, <1>11
  <2>2. ASSUME NEW u \in 0..(p.workers - 1), NEW r \in 0..(Count(u, i) - 1)
        PROVE  b # To(p, u, r)
    <3>1. r \in 0..(Count(u, i)' - 1)
      BY <1>5, <1>11, <1>12
    <3>2. QED
      BY <3>1
  <2>3. mram[b] = Before(i)[b]
    BY <2>2 DEF PassState, Untouched
  <2>4. QED
    BY <1>3, <1>4, <2>1, <2>3
<1>17. Cached(i)'
  BY <1>3, <1>6, <1>7, <1>8, <1>9 DEF PassState, Cached
<1>18. QED
  BY <1>10, <1>15, <1>16, <1>17 DEF PassState

LEMMA DataAlloc ==
  ASSUME Control, NEW i \in 1..Len(P), PassState(i), NEW t \in Tasklets, Alloc(t)
  PROVE  PassState(i)'
<1>1. TypeOK /\ Positions
  BY DEF Control
<1>2. /\ at[t].pc = "alloc" /\ at' = [at EXCEPT ![t] = LoopAt(t, 1, 0)]
      /\ UNCHANGED << launch, cache, mram >>
  BY DEF Alloc
<1>3. at \in [Tasklets -> Place]
  BY <1>1 DEF TypeOK, Place
<1>4. at[t].pass = 1 /\ 1 \in 1..Len(P) /\ t < P[1].workers /\ i = 1
  BY <1>1, <1>2, LaunchFacts DEF Positions, PosOf, Active, PassState, InPass
<1>5. P[1].barrier # 0 => 0 < Steps(P[1], t)
  <2>1. P[1].workers \in {1, 2, 4, 8} /\ Len(P) \in Nat
    BY <1>1, <1>4, PassFacts, LaunchFacts
  <2>2. t \in 0..(P[1].workers - 1) /\ 1 <= Len(P)
    BY <1>4, <2>1 DEF Tasklets
  <2>3. QED
    BY <1>1, <2>2, FirstPassMoves
<1>6. 0 <= Steps(P[1], t) /\ Steps(P[1], t) \in Nat
  BY <1>1, <1>4, PassFacts
<1>7. Len(P) = 2 => P[1].barrier # 0
  BY <1>1, TwoPassFacts
<1>8. LoopAt(t, 1, 0) = Here("read", 1, 0) \/ LoopAt(t, 1, 0) = Here("done", 1, 0)
  BY <1>1, <1>4, <1>5, <1>6, <1>7, LoopAtPosition
<1>9. /\ at'[t].pass = 1 /\ at'[t].step = 0 /\ at'[t].pc \in {"read", "done"}
      /\ \A u \in Tasklets : u # t => at'[u] = at[u]
  BY <1>2, <1>3, <1>8 DEF Here
<1>10. \A u \in Tasklets : Count(u, i)' = Count(u, i)
  <2>1. Count(t, i)' = 0 /\ Count(t, i) = 0
    BY <1>2, <1>9 DEF Count
  <2>2. \A u \in Tasklets : u # t => Count(u, i)' = Count(u, i)
    BY <1>9 DEF Count
  <2>3. QED
    BY <2>1, <2>2
<1>11. InPass(i)'
  BY <1>4, <1>9 DEF PassState, InPass
<1>12. \A u \in Tasklets : at'[u].pc \in {"sync1", "write"} =>
         at[u].pc \in {"sync1", "write"} /\ at'[u].step = at[u].step
  BY <1>9
<1>13. QED
  BY <1>2, <1>10, <1>11, <1>12, DataUnmoved

LEMMA DataReset ==
  ASSUME Control, NEW i \in 1..Len(P), PassState(i), Reset
  PROVE  PassState(i)'
<1>1. TypeOK /\ Positions
  BY DEF Control
<1>2. /\ at[0].pc = "reset" /\ at' = [at EXCEPT ![0] = EntryAt(0, 0)]
      /\ UNCHANGED << launch, cache, mram >>
  BY DEF Reset
<1>3. at \in [Tasklets -> Place] /\ 0 \in Tasklets
  BY <1>1 DEF TypeOK, Place, Tasklets
<1>4. 0 \in 0..Len(Entry(launch))
  BY <1>1, EntryFacts
<1>5. at[0].pass = 1 /\ i = 1
  BY <1>1, <1>2, <1>3 DEF Positions, PosOf, PassState, InPass
<1>6. EntryAt(0, 0).pass = 1 /\ EntryAt(0, 0).pc \in {"entry", "alloc", "done"}
      /\ (EntryAt(0, 0).pc = "done" => EntryAt(0, 0).step = 0)
  BY DEF EntryAt, Here
<1>7. /\ at'[0].pass = 1 /\ at'[0].pc \in {"entry", "alloc", "done"}
      /\ at'[0].pc = "done" => at'[0].step = 0
      /\ \A u \in Tasklets : u # 0 => at'[u] = at[u]
  BY <1>2, <1>3, <1>6
<1>8. \A u \in Tasklets : Count(u, i)' = Count(u, i)
  <2>1. Count(0, i)' = 0 /\ Count(0, i) = 0
    BY <1>2, <1>7 DEF Count
  <2>2. \A u \in Tasklets : u # 0 => Count(u, i)' = Count(u, i)
    BY <1>7 DEF Count
  <2>3. QED
    BY <2>1, <2>2
<1>9. InPass(i)'
  BY <1>5, <1>7 DEF PassState, InPass
<1>10. \A u \in Tasklets : at'[u].pc \in {"sync1", "write"} =>
         at[u].pc \in {"sync1", "write"} /\ at'[u].step = at[u].step
  BY <1>7
<1>11. QED
  BY <1>2, <1>8, <1>9, <1>10, DataUnmoved

LEMMA DataEntry ==
  ASSUME Control, NEW i \in 1..Len(P), PassState(i), NEW t \in Tasklets, EntryBarrier(t)
  PROVE  PassState(i)'
<1> DEFINE s == at[t].step
           b == Entry(launch)[s + 1]
<1>1. TypeOK /\ Positions /\ WaitingStand
  BY DEF Control
<1>2. at[t].pc = "entry" /\ BarrierWait(t, b) /\ UNCHANGED << launch, cache, mram >>
  BY DEF EntryBarrier, BarrierWait
<1>3. at \in [Tasklets -> Place] /\ PosOf(t, at[t])
  BY <1>1 DEF TypeOK, Place, Positions
<1>4. at[t].pass = 1 /\ i = 1
  BY <1>2, <1>3 DEF PosOf, PassState, InPass
<1>5. CASE ~IsLast(b)
  <2>1. at' = at
    BY <1>2, <1>5 DEF BarrierWait
  <2>2. InPass(i)'
    BY <2>1 DEF PassState, InPass
  <2>3. \A u \in Tasklets : Count(u, i)' = Count(u, i)
    BY <2>1 DEF Count
  <2>4. QED
    BY <1>2, <2>1, <2>2, <2>3, DataUnmoved
<1>6. CASE IsLast(b)
  <2> DEFINE Team == 0..(b - 1)
  <2>1. b \in BarrierSizes /\ StandsAt(t, b)
    <3>1. s \in Nat /\ s < Len(Entry(launch))
      BY <1>2, <1>3 DEF PosOf, Place
    <3>2. s + 1 \in 1..Len(Entry(launch))
      BY <1>1, <3>1, EntryFacts
    <3>3. QED
      BY <1>1, <1>2, <3>2, EntryFacts DEF StandsAt
  <2>2. /\ waiting[b] \cup {t} = Team
        /\ \A u \in Team : at[u].pc = "entry" /\ at[u].step = s
    BY <1>2, <1>6, <2>1, BarrierOpens DEF BarrierWait
  <2>3. at' = [u \in Tasklets |-> IF u \in Team THEN Resumed(u) ELSE at[u]]
    BY <1>2, <1>6, <2>2 DEF BarrierWait
  <2>4. \A u \in Tasklets :
          IF u \in Team THEN at'[u] = EntryAt(u, s + 1) ELSE at'[u] = at[u]
    BY <2>2, <2>3 DEF Resumed
  <2>5. \A u \in Team : EntryAt(u, s + 1).pass = 1
          /\ EntryAt(u, s + 1).pc \in {"entry", "alloc", "done"}
          /\ (EntryAt(u, s + 1).pc = "done" => EntryAt(u, s + 1).step = 0)
    BY DEF EntryAt, Here
  <2>6. \A u \in Tasklets : Count(u, i)' = Count(u, i)
    BY <2>2, <2>4, <2>5 DEF Count
  <2>7. InPass(i)'
    BY <1>4, <2>4, <2>5 DEF PassState, InPass
  <2>8. \A u \in Tasklets : at'[u].pc \in {"sync1", "write"} =>
          at[u].pc \in {"sync1", "write"} /\ at'[u].step = at[u].step
    BY <2>4, <2>5
  <2>9. QED
    BY <1>2, <2>6, <2>7, <2>8, DataUnmoved
<1>7. QED
  BY <1>5, <1>6

(* The last barrier of the first of two passes: everything has been moved,  *)
(* and the second pass finds the memory the first one is for.               *)
LEMMA DataNextPass ==
  ASSUME Control, PassState(1), Len(P) = 2,
         UNCHANGED << launch, cache, mram >>,
         \A u \in 0..(P[1].workers - 1) : Count(u, 1) = Steps(P[1], u),
         \A u \in Tasklets : \/ at'[u].pc = "done" /\ at'[u].pass = 1
                             \/ at'[u] = Here("read", 2, 0)
  PROVE  PassState(2)'
<1>1. TypeOK
  BY DEF Control
<1>2. /\ P' = P /\ launch' = launch /\ cache' = cache /\ mram' = mram
      /\ 1 \in 1..Len(P) /\ 2 \in 1..Len(P)
  BY DEF P
<1>3. P[1] \in PassType /\ mram \in [Mram -> Mram]
  BY <1>1, <1>2, LaunchFacts DEF TypeOK
<1>4. Before(1) = Original /\ Before(2) = Moved(P[1], Original)
  BY DEF Before, Original
<1>5. mram = Before(2)
  <2>1. \A t \in 0..(P[1].workers - 1) : \A r \in 0..(Steps(P[1], t) - 1) :
          mram[To(P[1], t, r)] = Original[From(P[1], t, r)]
    BY <1>4 DEF PassState, Written
  <2>2. \A a \in Mram :
          (\A t \in 0..(P[1].workers - 1) : \A r \in 0..(Steps(P[1], t) - 1) :
             a # To(P[1], t, r)) => mram[a] = Original[a]
    BY <1>4 DEF PassState, Untouched
  <2>3. DOMAIN Original = Mram
    BY DEF Original
  <2>4. QED
    BY <1>3, <1>4, <2>1, <2>2, <2>3, PassComplete
<1>6. Before(2)' = Before(2)
  BY <1>2 DEF Before
<1>7. \A u \in Tasklets : Count(u, 2)' = 0
  BY DEF Count, Here
<1>8. \A u \in 0..(P[2].workers - 1) : u \in Tasklets
  BY <1>2, CountBound
<1>9. InPass(2)'
  BY DEF InPass, Here
<1>10. Written(2)'
  BY <1>2, <1>7, <1>8 DEF Written
<1>11. Untouched(2)'
  BY <1>2, <1>5, <1>6 DEF Untouched
<1>12. Cached(2)'
  BY DEF Cached, Here
<1>13. QED
  BY <1>9, <1>10, <1>11, <1>12 DEF PassState

LEMMA DataLoop ==
  ASSUME Control, NEW i \in 1..Len(P), PassState(i), NEW t \in Tasklets, LoopBarrier(t)
  PROVE  PassState(i)' \/ (Len(P) = 2 /\ PassState(2)')
<1> DEFINE s == at[t].step
           b == P[i].barrier
           Team == 0..(b - 1)
<1>1. TypeOK /\ Positions /\ WaitingStand /\ EntryTogether
  BY DEF Control
<1>2. /\ at[t].pc \in {"sync1", "sync2"} /\ at[t].pass = i
      /\ BarrierWait(t, b) /\ UNCHANGED << launch, cache, mram >>
  BY DEF LoopBarrier, BarrierWait, PassState, InPass
<1>3. at \in [Tasklets -> Place] /\ PosOf(t, at[t]) /\ s \in Nat
  BY <1>1 DEF TypeOK, Place, Positions
<1>4. b # 0 /\ b \in BarrierSizes /\ P[i].workers = b /\ StandsAt(t, b)
  <2>1. b # 0
    BY <1>2, <1>3 DEF PosOf
  <2>2. QED
    BY <1>1, <1>2, <2>1, PassFacts DEF StandsAt
<1>5. CASE ~IsLast(b)
  <2>1. at' = at
    BY <1>2, <1>5 DEF BarrierWait
  <2>2. InPass(i)'
    BY <2>1 DEF PassState, InPass
  <2>3. \A u \in Tasklets : Count(u, i)' = Count(u, i)
    BY <2>1 DEF Count
  <2>4. QED
    BY <1>2, <2>1, <2>2, <2>3, DataUnmoved
<1>6. CASE IsLast(b)
  <2>1. /\ waiting[b] \cup {t} = Team
        /\ \A u \in Team : at[u].pc = at[t].pc /\ at[u].pass = i /\ at[u].step = s
    BY <1>2, <1>4, <1>6, BarrierOpens DEF BarrierWait
  <2>2. at' = [u \in Tasklets |-> IF u \in Team THEN Resumed(u) ELSE at[u]]
    BY <1>2, <1>6, <2>1 DEF BarrierWait
  <2>3. b \in {2, 4, 8} /\ Team = 0..(P[i].workers - 1)
    BY <1>4 DEF BarrierSizes
  <2>4. Team \subseteq Tasklets /\ 0 \in Team /\ \A u \in Team : u < P[i].workers
    BY <1>4, <2>3 DEF Tasklets
  <2>5. \A u \in Tasklets : u \notin Team => at'[u] = at[u]
    BY <2>2
  <2>6. \A u \in Team :
          /\ at[t].pc = "sync1" => at'[u] = Here("write", i, s)
          /\ at[t].pc = "sync2" => at'[u] = LoopAt(u, i, s) /\ s <= Steps(P[i], u)
          /\ Steps(P[i], u) \in Nat
    <3> TAKE u \in Team
    <3>1. PosOf(u, at[u]) /\ u \in Tasklets
      BY <1>1, <2>4 DEF Positions
    <3>2. at'[u] = Resumed(u)
      BY <2>2, <3>1
    <3>3. Steps(P[i], u) \in Nat
      BY <1>1, <3>1, PassFacts
    <3>4. QED
      BY <2>1, <3>1, <3>2, <3>3 DEF Resumed, PosOf
  <2>7. \A u \in Team : Count(u, i) = s
    BY <1>2, <2>1 DEF Count
  <2>8. CASE \A u \in Team : at'[u].pass = i /\ at'[u].step = s
                          /\ at'[u].pc \in {"write", "read", "done"}
                          /\ (at'[u].pc = "write" => at[u].pc = "sync1")
    <3>1. \A u \in Tasklets : Count(u, i)' = Count(u, i)
      BY <2>5, <2>7, <2>8 DEF Count
    <3>2. InPass(i)'
      BY <2>5, <2>8 DEF PassState, InPass
    <3>3. \A u \in Tasklets : at'[u].pc \in {"sync1", "write"} =>
            at[u].pc \in {"sync1", "write"} /\ at'[u].step = at[u].step
      BY <2>1, <2>5, <2>8
    <3>4. QED
      BY <1>2, <3>1, <3>2, <3>3, DataUnmoved
  <2>9. CASE at[t].pc = "sync1"
    <3>1. \A u \in Team : /\ at'[u].pass = i /\ at'[u].step = s
                         /\ at'[u].pc = "write" /\ at[u].pc = "sync1"
      BY <2>1, <2>6, <2>9 DEF Here
    <3>2. QED
      BY <2>8, <3>1
  <2>10. CASE at[t].pc = "sync2" /\ \A u \in Team : s < Steps(P[i], u)
    <3>1. \A u \in Team : at'[u] = Here("read", i, s)
      BY <1>1, <1>3, <2>4, <2>6, <2>10, LoopAtPosition
    <3>2. QED
      BY <2>8, <3>1 DEF Here
  <2>11. CASE at[t].pc = "sync2" /\ \E u \in Team : ~(s < Steps(P[i], u))
    <3>1. \A u, v \in Team : Steps(P[i], u) = Steps(P[i], v)
      <4>1. \A u, v \in 0..(P[i].workers - 1) : Steps(P[i], u) = Steps(P[i], v)
        BY <1>1, <1>4, PassFacts
      <4> HIDE DEF Team
      <4>2. QED
        BY <2>3, <4>1
    <3>2. \A u \in Team : s = Steps(P[i], u)
      BY <1>3, <2>6, <2>11, <3>1
    <3>3. \A u \in Team :
            \/ at'[u] = Here("done", i, s)
            \/ i = 1 /\ Len(P) = 2 /\ at'[u] = Here("read", 2, 0)
      BY <1>1, <1>3, <2>4, <2>6, <2>11, <3>2, LoopAtPosition
    <3>4. CASE \A u \in Team : at'[u] = Here("done", i, s)
      BY <2>8, <3>4 DEF Here
    <3>5. CASE ~(\A u \in Team : at'[u] = Here("done", i, s))
      <4>1. i = 1 /\ Len(P) = 2
        BY <3>3, <3>5
      <4>2. \A u \in 0..(P[1].workers - 1) : Count(u, 1) = Steps(P[1], u)
        <5> HIDE DEF Team
        <5>1. QED
          BY <2>3, <2>7, <3>2, <4>1
      <4>3. ASSUME NEW u \in Tasklets, u \notin Team
            PROVE  at'[u].pc = "done" /\ at'[u].pass = 1
        <5>1. at[u] \in Place /\ PosOf(u, at[u]) /\ at'[u] = at[u] /\ at[u].pass = 1
          BY <1>1, <1>3, <2>5, <4>1, <4>3 DEF Positions, PassState, InPass
        <5>2. ~Active(at[u])
          <6>1. ~(u < b)
            BY <2>3, <4>3 DEF Tasklets
          <6>2. ~(u < P[at[u].pass].workers)
            BY <1>4, <4>1, <5>1, <6>1
          <6>3. QED
            BY <5>1, <6>2 DEF PosOf
        <5>3. at[u].pc \notin {"reset", "entry"}
          <6>1. SUFFICES ASSUME at[u].pc \in {"reset", "entry"}  PROVE FALSE
            OBVIOUS
          <6>2. at[u].step + 1 \in 1..Len(Entry(launch))
            BY <1>1, <5>1, <6>1, EntryFacts DEF PosOf, Place
          <6>3. Entry(launch)[at[u].step + 1] \in BarrierSizes
            BY <1>1, <6>2, EntryFacts
          <6>4. at[0].pc \in {"reset", "entry"}
            BY <1>1, <2>4, <6>1, <6>3 DEF EntryTogether, BarrierSizes
          <6>5. QED
            BY <1>2, <2>1, <2>4, <6>4
        <5>4. QED
          BY <5>1, <5>2, <5>3 DEF Active, Place, PCs
      <4>4. \A u \in Tasklets : \/ at'[u].pc = "done" /\ at'[u].pass = 1
                               \/ at'[u] = Here("read", 2, 0)
        BY <3>3, <4>1, <4>3 DEF Here
      <4>5. QED
        BY <1>2, <4>1, <4>2, <4>4, DataNextPass
    <3>6. QED
      BY <3>4, <3>5
  <2>12. QED
    BY <1>2, <2>9, <2>10, <2>11
<1>7. QED
  BY <1>5, <1>6

-----------------------------------------------------------------------------
LEMMA DataInit == Init => Data
<1> SUFFICES ASSUME Init  PROVE Data
  OBVIOUS
<1>1. TypeOK
  BY ControlInit DEF Control
<1>2. mram = Original /\ Control
  BY ControlInit DEF Init, Original
<1>3. \A t \in Tasklets : at[t].pc \in {"reset", "entry"} /\ at[t].pass = 1
  BY DEF Init, Here
<1>4. CASE P = << >>
  BY <1>2, <1>4 DEF Data
<1>5. CASE P # << >>
  <2>1. 1 \in 1..Len(P)
    BY <1>1, <1>5, LaunchFacts
  <2>2. \A t \in Tasklets : Count(t, 1) = 0
    BY <1>3 DEF Count
  <2>3. \A t \in 0..(P[1].workers - 1) : t \in Tasklets
    BY <1>2, <2>1, CountBound
  <2>4. InPass(1) /\ Cached(1)
    BY <1>3 DEF InPass, Cached
  <2>5. Written(1)
    BY <2>2, <2>3 DEF Written
  <2>6. Untouched(1)
    BY <1>2 DEF Untouched, Before, Original
  <2>7. QED
    BY <1>5, <2>1, <2>4, <2>5, <2>6 DEF Data, PassState
<1>6. QED
  BY <1>4, <1>5

LEMMA DataNext ==
  ASSUME AllRaceFree(Launches), Control, Data, [Next]_vars
  PROVE  Data'
<1>1. TypeOK /\ Positions /\ P \in Seq(PassType) /\ Len(P) \in 0..2
  BY LaunchFacts DEF Control
<1>2. launch' = launch /\ P' = P
  BY DEF Next, Step, EntryBarrier, LoopBarrier, BarrierWait, Reset, Alloc, Read, Write,
        Terminated, vars, P
<1>3. CASE P = << >>
  <2>1. mram = Original /\ Len(P) = 0
    BY <1>3 DEF Data
  <2>2. \A t \in Tasklets : at[t].pc # "write"
    <3> TAKE t \in Tasklets
    <3>1. at[t] \in Place /\ PosOf(t, at[t])
      BY <1>1 DEF TypeOK, Place, Positions
    <3>2. ~Active(at[t])
      BY <2>1, <3>1 DEF PosOf, Place
    <3>3. QED
      BY <3>2 DEF Active
  <2>3. mram' = mram
    BY <2>2 DEF Next, Step, EntryBarrier, LoopBarrier, BarrierWait, Reset, Alloc,
         Read, Write, Terminated, vars
  <2>4. QED
    BY <1>2, <1>3, <2>1, <2>3 DEF Data, Original
<1>4. CASE P # << >>
  <2>1. PICK i \in 1..Len(P) : PassState(i)
    BY <1>4 DEF Data
  <2>2. RaceFree(P[i])
    <3>1. launch \in Launches /\ i \in DOMAIN Passes(launch)
      BY <1>1 DEF TypeOK, P
    <3>2. QED
      BY <3>1 DEF AllRaceFree, P
  <2>3. CASE Reset
    BY <1>2, <1>4, <2>1, <2>3, DataReset DEF Data
  <2>4. ASSUME NEW t \in Tasklets, Step(t)
        PROVE  \E j \in 1..Len(P) : PassState(j)'
    <3>1. CASE EntryBarrier(t)
      BY <2>1, <3>1, DataEntry
    <3>2. CASE Alloc(t)
      BY <2>1, <3>2, DataAlloc
    <3>3. CASE Read(t)
      BY <2>1, <2>2, <3>3, DataRead
    <3>4. CASE Write(t)
      BY <2>1, <3>4, DataWrite
    <3>5. CASE LoopBarrier(t)
      <4>1. PassState(i)' \/ (Len(P) = 2 /\ PassState(2)')
        BY <2>1, <3>5, DataLoop
      <4>2. Len(P) = 2 => 2 \in 1..Len(P)
        OBVIOUS
      <4>3. QED
        BY <4>1, <4>2
    <3>6. QED
      BY <2>4, <3>1, <3>2, <3>3, <3>4, <3>5 DEF Step
  <2>5. CASE UNCHANGED vars
    <3>1. PassState(i)'
      <4>1. at' = at /\ UNCHANGED << launch, cache, mram >>
        BY <2>5 DEF vars
      <4>2. InPass(i)' /\ \A u \in Tasklets : Count(u, i)' = Count(u, i)
        BY <2>1, <4>1 DEF PassState, InPass, Count
      <4>3. QED
        BY <2>1, <4>1, <4>2, DataUnmoved
    <3>2. QED
      BY <1>2, <1>4, <3>1 DEF Data
  <2>6. CASE \E t \in Tasklets : Step(t)
    BY <1>2, <1>4, <2>4, <2>6 DEF Data
  <2>7. QED
    BY <2>3, <2>5, <2>6 DEF Next, Terminated
<1>5. QED
  BY <1>3, <1>4

LEMMA DataInvariant ==
  ASSUME AllRaceFree(Launches)
  PROVE  Spec => [](Control /\ Data)
<1>1. Init => Control /\ Data
  BY ControlInit, DataInit
<1>2. Control /\ Data /\ [Next]_vars => (Control /\ Data)'
  BY ControlNext, DataNext
<1>3. QED
  BY <1>1, <1>2, PTL DEF Spec

(* Moving blocks is safe wherever the launch does not race: no chunk is     *)
(* overwritten before the tasklet that moves it has read it, and what a     *)
(* tasklet writes is what the pass found.                                   *)
THEOREM SourcesIntact ==
  ASSUME AllRaceFree(Launches)
  PROVE  Spec => []SourceIntact
<1>1. ASSUME Control, Data  PROVE SourceIntact
  <2>1. TypeOK /\ Positions /\ Len(P) \in 0..2
    BY <1>1, LaunchFacts DEF Control
  <2> SUFFICES ASSUME NEW t \in Tasklets, at[t].pc \in {"read", "sync1", "write"}
               PROVE  LET p == P[at[t].pass]
                          old == Before(at[t].pass)
                      IN  /\ at[t].pc = "read" =>
                               \A r \in at[t].step..(Steps(p, t) - 1) :
                                 mram[From(p, t, r)] = old[From(p, t, r)]
                          /\ at[t].pc \in {"sync1", "write"} =>
                               cache[t] = old[From(p, t, at[t].step)]
    BY DEF SourceIntact
  <2>2. at[t] \in Place /\ PosOf(t, at[t])
    BY <2>1 DEF TypeOK, Place, Positions
  <2>3. at[t].pass \in 1..Len(P) /\ at[t].step \in Nat
    BY <2>1, <2>2 DEF PosOf, Active, Place
  <2>4. P # << >>
    BY <2>3
  <2>5. PICK i \in 1..Len(P) : PassState(i)
    BY <1>1, <2>4 DEF Data
  <2>6. at[t].pass = i
    BY <2>5 DEF PassState, InPass
  <2>7. RaceFree(P[i])
    <3>1. launch \in Launches /\ i \in DOMAIN Passes(launch)
      BY <2>1, LaunchFacts DEF TypeOK, P
    <3>2. QED
      BY <3>1 DEF AllRaceFree, P
  <2>8. Steps(P[i], t) \in Nat
    BY <2>1, PassFacts
  <2>9. ASSUME at[t].pc = "read", NEW r \in at[t].step..(Steps(P[i], t) - 1)
        PROVE  mram[From(P[i], t, r)] = Before(i)[From(P[i], t, r)]
    <3>1. r \in Nat /\ at[t].step <= r /\ r < Steps(P[i], t)
      BY <2>3, <2>8
    <3>2. QED
      BY <1>1, <2>5, <2>7, <2>9, <3>1, SourceKept
  <2>10. at[t].pc \in {"sync1", "write"} =>
           cache[t] = Before(i)[From(P[i], t, at[t].step)]
    BY <2>5 DEF PassState, Cached
  <2>11. QED
    BY <2>6, <2>9, <2>10
<1>2. QED
  BY <1>1, DataInvariant, PTL

(* When the kernel returns, every block is in the slot the collective       *)
(* expects it in, and nothing outside the target has changed.               *)
THEOREM RelocationCorrect ==
  ASSUME AllRaceFree(Launches)
  PROVE  Spec => []RelocationDone
<1>1. ASSUME Control, Data  PROVE RelocationDone
  <2> SUFFICES ASSUME AllDone  PROVE mram = Relocated(launch, Original)
    BY DEF RelocationDone, Original
  <2>1. TypeOK /\ Positions /\ Len(P) \in 0..2 /\ P \in Seq(PassType)
    BY <1>1, LaunchFacts DEF Control
  <2>2. mram \in [Mram -> Mram] /\ DOMAIN Original = Mram
    BY <2>1 DEF TypeOK, Original
  <2>3. CASE P = << >>
    <3>1. mram = Original /\ Len(Passes(launch)) = 0
      BY <1>1, <2>3 DEF Data, P
    <3>2. QED
      BY <3>1 DEF Relocated
  <2>4. CASE P # << >>
    <3>1. PICK i \in 1..Len(P) : PassState(i)
      BY <1>1, <2>4 DEF Data
    <3>2. P[i] \in PassType /\ DOMAIN Before(i) = Mram
      <4>1. DOMAIN Moved(P[1], Original) = Mram
        BY <2>2 DEF Moved
      <4>2. QED
        BY <2>2, <3>1, <4>1, LaunchFacts, <2>1 DEF Before, Original
    <3>3. ASSUME NEW t \in 0..(P[i].workers - 1)
          PROVE  Count(t, i) = Steps(P[i], t)
      <4>1. t \in Tasklets /\ t < P[i].workers /\ P[i].workers \in {1, 2, 4, 8}
        BY <1>1, <2>1, CountBound, PassFacts
      <4>2. at[t].pc = "done" /\ EndOf(t, at[t])
        BY <2>1, <4>1 DEF AllDone, Positions
      <4>3. CASE at[t].pass = i
        BY <2>1, <4>1, <4>2, <4>3 DEF EndOf, Count
      <4>4. CASE i = 2 /\ at[t].pass = 1
        <5>1. Steps(P[2], t) = 0
          BY <2>1, <4>1, <4>2, <4>4 DEF EndOf
        <5>2. QED
          BY <4>4, <5>1 DEF Count
      <4>5. QED
        BY <3>1, <4>1, <4>3, <4>4 DEF PassState, InPass
    <3>4. mram = Moved(P[i], Before(i))
      <4>1. \A t \in 0..(P[i].workers - 1) : \A r \in 0..(Steps(P[i], t) - 1) :
              mram[To(P[i], t, r)] = Before(i)[From(P[i], t, r)]
        BY <3>1, <3>3 DEF PassState, Written
      <4>2. \A a \in Mram :
              (\A t \in 0..(P[i].workers - 1) : \A r \in 0..(Steps(P[i], t) - 1) :
                 a # To(P[i], t, r)) => mram[a] = Before(i)[a]
        BY <3>1, <3>3 DEF PassState, Untouched
      <4>3. QED
        BY <2>2, <3>2, <4>1, <4>2, PassComplete
    <3>5. CASE Len(P) = 1
      <4>1. i = 1
        BY <3>5
      <4>2. Before(i) = Original
        BY <4>1 DEF Before, Original
      <4>3. QED
        BY <3>4, <3>5, <4>1, <4>2 DEF Relocated, P
    <3>6. CASE Len(P) = 2 /\ i = 2
      <4>1. Before(2) = Moved(P[1], Original)
        BY DEF Before, Original
      <4>2. QED
        BY <3>4, <3>6, <4>1 DEF Relocated, P
    <3>7. CASE Len(P) = 2 /\ i = 1
      <4>1. P[2] \in PassType /\ P[2].workers \in {1, 2, 4, 8} /\ 0 \in Tasklets
        BY <2>1, <3>7, LaunchFacts, PassFacts DEF Tasklets
      <4>2. Steps(P[2], 0) = 0
        <5>1. at[0].pc = "done" /\ at[0].pass = 1 /\ EndOf(0, at[0])
          BY <2>1, <3>1, <3>7, <4>1 DEF AllDone, PassState, InPass, Positions
        <5>2. 0 < P[2].workers
          BY <4>1
        <5>3. QED
          BY <3>7, <5>1, <5>2 DEF EndOf
      <4>3. P[2].blocks = 0
        BY <4>1, <4>2, NoSteps
      <4>4. \A m : DOMAIN m = Mram => Moved(P[2], m) = [a \in Mram |-> m[a]]
        BY <4>3 DEF Moved
      <4>5. Moved(P[2], mram) = mram
        BY <2>2, <4>4
      <4>6. Before(1) = Original
        BY DEF Before, Original
      <4>7. QED
        BY <3>4, <3>7, <4>5, <4>6 DEF Relocated, P
    <3>8. Len(P) \in {1, 2} /\ (i = 1 \/ i = 2)
      <4> DEFINE n == Len(P)
      <4>1. i \in 1..n /\ n \in 0..2
        BY <2>1
      <4> HIDE DEF n
      <4>2. \A x \in 0..2 : \A j \in 1..x : x \in {1, 2} /\ (j = 1 \/ j = 2)
        BY SMT
      <4>3. n \in {1, 2} /\ (i = 1 \/ i = 2)
        BY <4>1, <4>2
      <4>4. QED
        BY <4>3 DEF n
    <3>9. QED
      BY <3>5, <3>6, <3>7, <3>8
  <2>5. QED
    BY <2>3, <2>4
<1>2. QED
  BY <1>1, DataInvariant, PTL

=============================================================================
