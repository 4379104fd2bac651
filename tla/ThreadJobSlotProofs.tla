-------------------------- MODULE ThreadJobSlotProofs --------------------------
(***************************************************************************)
(* The job slots of ThreadJob and the mutexes of its ranks, for every       *)
(* instance that JobCallsAssumption admits.  Each of the NrJobs slots of a  *)
(* rank is available, in its FIFO, with one thread, or a master job, and    *)
(* only the two ways of losing slots that the history names make them       *)
(* fewer.  Each mutex is as deep as its thread has locked it.               *)
(*                                                                         *)
(* 1. The inductive invariant SlotInv, beside JobInv of ThreadJobProofs:    *)
(*    what the frame of a thread says of the slots it has (SlotFrames), who *)
(*    has a master job (MasterOf), and the balance of each rank (Balance).  *)
(* 2. Sets of slots: the frame of one thread changes and a batch of slots   *)
(*    of one rank joins or leaves Held (HeldGains, HeldGives).              *)
(* 3. Steps of the workers: WorkFrame and WorkSlots.                        *)
(* 4. Steps of the API, one lemma for each kind; the theorems.              *)
(* 5. The mutexes of the ranks: LockInv says who has which levels of each,  *)
(*    Kept follows them over every kind of step.                            *)
(* 6. The types and bounds of all variables, which rest on the other parts. *)
(***************************************************************************)
EXTENDS ThreadJobSyncProofs

(* The rank of its k-th slots. *)
PlaceRank(t, k) == PlaceOf(api[t], k)

(* The slots of rank r that thread t has. *)
Of(t, r) == {t} \X {s \in Taken(t) : PlaceRank(t, s[1]) = r}

(* All slots of a rank that are somewhere. *)
Slots(r) == avail[r] + Len(jobs[r]) + Cardinality(Held(r)) + Cardinality(Masters(r))

(* A call has lost some. *)
Robbed(r) == \E id \in DOMAIN call : r \in call[id].lost

SlotTypes ==
  /\ avail \in [Ranks -> Nat]
  /\ \A id \in Ids(program) : call[id].master \in Ranks \cup {None} /\ call[id].lost \subseteq Ranks

(* What the frame f of a thread after slots says: it has i - 1 batches, and *)
(* got of the next; the master job comes last.                              *)
FrameOK(f) ==
  LET last == Len(RanksOf(f.id))
  IN  /\ f.pc \in {"get", "asleep"} =>
           /\ f.i \in 1..(last + 1) /\ f.got \in 0..Wants(f) /\ ~f.inline
           /\ IF f.i <= last THEN f.master = None
              ELSE UsesMaster(Call(f.id)) /\ f.master \in RankSet(f.id)
      /\ f.pc = "unget" => f.i \in 1..(last + 1) /\ f.got \in 1..(f.i - 1)
      /\ f.pc \in {"set", "do", "dostale"} =>
           IF UsesMaster(Call(f.id)) THEN f.master \in RankSet(f.id) /\ ~f.inline
           ELSE f.master = None
      /\ f.pc \in Inline => last = 1

SlotFrames == \A t \in Threads : FrameOK(api[t])

(* A call has a master job only once its caller is about to submit jobs. *)
Submitting == {"do", "dostale", "add", "addqueue"}

MasterOf ==
  \A id \in Ids(program) : call[id].master # None =>
    /\ UsesMaster(Call(id))
    /\ Fresh(id) => \E t \in Threads : api[t].id = id /\ api[t].pc \in Submitting

Balanced(r) ==
  /\ IsFiniteSet(Held(r)) /\ IsFiniteSet(Masters(r))
  /\ Slots(r) <= NrJobs
  /\ Slots(r) = NrJobs \/ Robbed(r)

Balance == ~undefined => \A r \in Ranks : Balanced(r)

(* The inductive invariant. *)
SlotInv == SlotTypes /\ SlotFrames /\ MasterOf /\ Balance

-----------------------------------------------------------------------------
(* Sets of slots.                                                           *)
Batch(t, k, a, b) == {t} \X ({k} \X (a..b))

LEMMA BatchSize ==
  ASSUME NEW t, NEW k, NEW a \in Int, NEW b \in Int, a <= b + 1
  PROVE  IsFiniteSet(Batch(t, k, a, b)) /\ Cardinality(Batch(t, k, a, b)) = (b - a) + 1
<1>1. IsFiniteSet(a..b) /\ Cardinality(a..b) = (b - a) + 1
  BY FS_Interval
<1>2. ASSUME NEW x, NEW S, IsFiniteSet(S)
      PROVE  IsFiniteSet({x} \X S) /\ Cardinality({x} \X S) = Cardinality(S)
  <2>1. IsFiniteSet({x}) /\ Cardinality({x}) = 1
    BY FS_Singleton
  <2>2. IsFiniteSet({x} \X S) /\ Cardinality({x} \X S) = Cardinality({x}) * Cardinality(S)
    BY <1>2, <2>1, FS_Product, Zenon
  <2>3. Cardinality(S) \in Nat
    BY <1>2, FS_CardinalityType
  <2>4. QED
    BY <2>1, <2>2, <2>3
<1>3. IsFiniteSet({k} \X (a..b)) /\ Cardinality({k} \X (a..b)) = Cardinality(a..b)
  BY <1>1, <1>2
<1>4. IsFiniteSet({t} \X ({k} \X (a..b))) /\ Cardinality({t} \X ({k} \X (a..b))) = Cardinality({k} \X (a..b))
  BY <1>2, <1>3
<1>5. QED
  BY <1>1, <1>3, <1>4 DEF Batch

LEMMA SetGains ==
  ASSUME NEW S, NEW A, IsFiniteSet(S), IsFiniteSet(A), S \cap A = {}, NEW T, T = S \cup A
  PROVE  IsFiniteSet(T) /\ Cardinality(T) = Cardinality(S) + Cardinality(A)
<1>1. /\ IsFiniteSet(S \cup A)
      /\ Cardinality(S \cup A) = Cardinality(S) + Cardinality(A) - Cardinality(S \cap A)
  BY FS_Union
<1>2. Cardinality(S \cap A) = 0
  BY FS_EmptySet
<1>3. Cardinality(S) \in Nat /\ Cardinality(A) \in Nat
  BY FS_CardinalityType
<1>4. QED
  BY <1>1, <1>2, <1>3

LEMMA SetGives ==
  ASSUME NEW S, NEW A, IsFiniteSet(S), IsFiniteSet(A), NEW T, S = T \cup A, T \cap A = {}
  PROVE  IsFiniteSet(T) /\ Cardinality(T) = Cardinality(S) - Cardinality(A)
<1>1. IsFiniteSet(T)
  BY FS_Subset
<1>2. Cardinality(S) = Cardinality(T) + Cardinality(A)
  BY <1>1, SetGains
<1>3. Cardinality(T) \in Nat /\ Cardinality(A) \in Nat
  BY <1>1, FS_CardinalityType
<1>4. QED
  BY <1>1, <1>2, <1>3

LEMMA ByFrame ==
  ASSUME NEW t
  PROVE  /\ Taken(t) = TakenBy(api[t]) /\ Wanted(t) = Wants(api[t])
         /\ \A k : PlaceRank(t, k) = PlaceOf(api[t], k)
BY Zenon DEF Taken, Wanted, PlaceRank

LEMMA SameProgram ==
  ASSUME program' = program
  PROVE  /\ \A id : Call(id)' = Call(id) /\ RanksOf(id)' = RanksOf(id) /\ Need(id)' = Need(id)
                     /\ RankSet(id)' = RankSet(id)
         /\ \A f : /\ TakenBy(f)' = TakenBy(f) /\ Wants(f)' = Wants(f) /\ (FrameOK(f)' <=> FrameOK(f))
                   /\ \A k : PlaceOf(f, k)' = PlaceOf(f, k)
<1>1. \A id : Call(id)' = Call(id) /\ RanksOf(id)' = RanksOf(id) /\ Need(id)' = Need(id)
              /\ RankSet(id)' = RankSet(id)
  BY Zenon DEF Call, RanksOf, Need, RankSet
<1>2. \A f : TakenBy(f)' = TakenBy(f) /\ Wants(f)' = Wants(f) /\ \A k : PlaceOf(f, k)' = PlaceOf(f, k)
  BY <1>1, Zenon DEF TakenBy, Wants, PlaceOf
<1>3. \A f : FrameOK(f)' <=> FrameOK(f)
  BY <1>1, <1>2, Zenon DEF FrameOK
<1>4. QED
  BY <1>1, <1>2, <1>3

LEMMA FramesThen ==
  ASSUME program' = program
  PROVE  SlotFrames' <=> \A t \in Threads : FrameOK(api'[t])
<1>1. SlotFrames' <=> \A t \in Threads : \A f : f = api'[t] => FrameOK(f)'
  BY Zenon DEF SlotFrames, FrameOK, Wants, Need, RanksOf, Call, RankSet
<1>2. QED
  BY <1>1, SameProgram, Zenon

LEMMA ByFrameThen ==
  ASSUME NEW t, program' = program, NEW f, f = api'[t]
  PROVE  /\ Taken(t)' = TakenBy(f) /\ Wanted(t)' = Wants(f)
         /\ \A k : PlaceRank(t, k)' = PlaceOf(f, k)
<1>1. /\ Taken(t)' = TakenBy(f)' /\ Wanted(t)' = Wants(f)'
      /\ \A k : PlaceRank(t, k)' = PlaceOf(f, k)'
  BY Zenon DEF Taken, Wanted, PlaceRank
<1>2. QED
  BY <1>1, SameProgram, Zenon

(* What Held(r) has is with threads. *)
LEMMA HeldIs == \A r, x : x \in Held(r) <=> \E t \in Threads : x \in Of(t, r)
BY DEF Held, Of, PlaceRank

LEMMA HeldThen == \A r, x : x \in Held(r)' <=> \E t \in Threads : x \in Of(t, r)'
BY DEF Held, Of, PlaceRank

LEMMA OfOwn == \A t, r, x : x \in Of(t, r) => \E s : s \in Taken(t) /\ x = <<t, s>>
BY DEF Of

LEMMA OfOwnThen == \A t, r, x : x \in Of(t, r)' => \E s : s \in Taken(t)' /\ x = <<t, s>>
BY DEF Of

(* A thread whose frame is the same has the same slots. *)
LEMMA SameOf ==
  ASSUME program' = program, NEW u, api'[u] = api[u], NEW r
  PROVE  Of(u, r)' = Of(u, r)
<1>1. /\ \A id : RanksOf(id)' = RanksOf(id) /\ Need(id)' = Need(id)
      /\ \A k : PlaceRank(u, k)' = PlaceRank(u, k)
  BY DEF RanksOf, Call, Need, PlaceRank, PlaceOf
<1>2. Taken(u)' = Taken(u)
  BY DEF Taken, TakenBy, RanksOf, Call, Need
<1>3. QED
  BY <1>1, <1>2 DEF Of

LEMMA HeldSame ==
  ASSUME NEW r, \A t \in Threads : Of(t, r)' = Of(t, r)
  PROVE  Held(r)' = Held(r)
BY HeldIs, HeldThen

LEMMA OfSame ==
  ASSUME NEW t, NEW r, Taken(t)' = Taken(t),
         \A s \in Taken(t) : PlaceRank(t, s[1])' = PlaceRank(t, s[1])
  PROVE  Of(t, r)' = Of(t, r)
BY DEF Of

(* Thread t gets slots a..b of the rank of place k. *)
Obtains(t, k, a, b) ==
  LET new == {k} \X (a..b)
  IN  /\ a \in Int /\ b \in Int /\ a <= b + 1
      /\ Taken(t)' = Taken(t) \cup new /\ Taken(t) \cap new = {}
      /\ \A s \in Taken(t) \cup new : PlaceRank(t, s[1])' = PlaceRank(t, s[1])

(* It has them no more. *)
Parts(t, k, a, b) ==
  LET old == {k} \X (a..b)
  IN  /\ a \in Int /\ b \in Int /\ a <= b + 1
      /\ Taken(t) = Taken(t)' \cup old /\ Taken(t)' \cap old = {}
      /\ \A s \in Taken(t)' : PlaceRank(t, s[1])' = PlaceRank(t, s[1])

OthersSame(t) == \A u \in Threads \ {t} : \A r : Of(u, r)' = Of(u, r)

LEMMA HeldGains ==
  ASSUME NEW t \in Threads, OthersSame(t), NEW k, NEW a, NEW b, Obtains(t, k, a, b),
         NEW r, IsFiniteSet(Held(r)), NEW s, s = PlaceRank(t, k)
  PROVE  /\ IsFiniteSet(Held(r)')
         /\ Cardinality(Held(r)') = Cardinality(Held(r)) + (IF r = s THEN (b - a) + 1 ELSE 0)
<1> DEFINE new == Batch(t, k, a, b)
<1>1. /\ Taken(t)' = Taken(t) \cup ({k} \X (a..b)) /\ Taken(t) \cap ({k} \X (a..b)) = {}
      /\ \A x \in Taken(t) \cup ({k} \X (a..b)) : PlaceRank(t, x[1])' = PlaceRank(t, x[1])
      /\ a \in Int /\ b \in Int /\ a <= b + 1
  BY DEF Obtains
<1>2. \A x \in {k} \X (a..b) : x[1] = k
  OBVIOUS
<1>3. CASE r = s
  <2>1. Of(t, r)' = Of(t, r) \cup new
    BY <1>1, <1>2, <1>3 DEF Of, Batch
  <2>2. Held(r)' = Held(r) \cup new
    <3>1. \A x : (\E u \in Threads : x \in Of(u, r)') <=> (\E u \in Threads : x \in Of(u, r)) \/ x \in new
      BY <2>1 DEF OthersSame
    <3> HIDE DEF new
    <3>2. QED
      BY <3>1, HeldIs, HeldThen
  <2>3. Held(r) \cap new = {}
    <3>1. ASSUME NEW x \in Held(r), x \in new PROVE FALSE
      <4>1. PICK u \in Threads : x \in Of(u, r)
        BY <3>1, HeldIs
      <4>2. PICK y : y \in Taken(u) /\ x = <<u, y>>
        BY <4>1, OfOwn
      <4>3. u = t /\ y \in {k} \X (a..b)
        BY <3>1, <4>2 DEF Batch
      <4>4. QED
        BY <1>1, <4>2, <4>3
    <3>2. QED
      BY <3>1
  <2>4. IsFiniteSet(new) /\ Cardinality(new) = (b - a) + 1
    <3>1. a \in Int /\ b \in Int /\ a <= b + 1
      BY <1>1
    <3>2. QED
      BY <3>1, BatchSize
  <2> HIDE DEF new
  <2>5. QED
    BY <1>3, <2>2, <2>3, <2>4, SetGains
<1>4. CASE r # s
  <2>1. Of(t, r)' = Of(t, r)
    BY <1>1, <1>2, <1>4 DEF Of
  <2>2. Held(r)' = Held(r)
    BY <2>1, HeldSame DEF OthersSame
  <2>3. Cardinality(Held(r)) \in Nat
    BY FS_CardinalityType
  <2>4. QED
    BY <1>4, <2>2, <2>3
<1>5. QED
  BY <1>3, <1>4

LEMMA HeldGives ==
  ASSUME NEW t \in Threads, OthersSame(t), NEW k, NEW a, NEW b, Parts(t, k, a, b),
         NEW r, IsFiniteSet(Held(r)), NEW s, s = PlaceRank(t, k)
  PROVE  /\ IsFiniteSet(Held(r)')
         /\ Cardinality(Held(r)') = Cardinality(Held(r)) - (IF r = s THEN (b - a) + 1 ELSE 0)
<1> DEFINE old == Batch(t, k, a, b)
<1>1. /\ Taken(t) = Taken(t)' \cup ({k} \X (a..b)) /\ Taken(t)' \cap ({k} \X (a..b)) = {}
      /\ \A x \in Taken(t)' : PlaceRank(t, x[1])' = PlaceRank(t, x[1])
      /\ a \in Int /\ b \in Int /\ a <= b + 1
  BY DEF Parts
<1>2. \A x \in {k} \X (a..b) : x[1] = k
  OBVIOUS
<1>3. CASE r = s
  <2>1. Of(t, r) = Of(t, r)' \cup old
    BY <1>1, <1>2, <1>3 DEF Of, Batch
  <2>2. Held(r) = Held(r)' \cup old
    <3>1. \A x : (\E u \in Threads : x \in Of(u, r)) <=> (\E u \in Threads : x \in Of(u, r)') \/ x \in old
      BY <2>1 DEF OthersSame
    <3> HIDE DEF old
    <3>2. QED
      BY <3>1, HeldIs, HeldThen
  <2>3. Held(r)' \cap old = {}
    <3>1. ASSUME NEW x \in Held(r)', x \in old PROVE FALSE
      <4>1. PICK u \in Threads : x \in Of(u, r)'
        BY <3>1, HeldThen
      <4>2. PICK y : y \in Taken(u)' /\ x = <<u, y>>
        BY <4>1, OfOwnThen
      <4>3. u = t /\ y \in {k} \X (a..b)
        BY <3>1, <4>2 DEF Batch
      <4>4. QED
        BY <1>1, <4>2, <4>3
    <3>2. QED
      BY <3>1
  <2>4. IsFiniteSet(old) /\ Cardinality(old) = (b - a) + 1
    <3>1. a \in Int /\ b \in Int /\ a <= b + 1
      BY <1>1
    <3>2. QED
      BY <3>1, BatchSize
  <2> HIDE DEF old
  <2>5. QED
    BY <1>3, <2>2, <2>3, <2>4, SetGives
<1>4. CASE r # s
  <2>1. Of(t, r)' = Of(t, r)
    BY <1>1, <1>2, <1>4 DEF Of
  <2>2. Held(r)' = Held(r)
    BY <2>1, HeldSame DEF OthersSame
  <2>3. Cardinality(Held(r)) \in Nat
    BY FS_CardinalityType
  <2>4. QED
    BY <1>4, <2>2, <2>3
<1>5. QED
  BY <1>3, <1>4

(* What becomes of the master jobs when that of call id does. *)
LEMMA MastersSame ==
  ASSUME DOMAIN call' = DOMAIN call, \A id \in DOMAIN call : call'[id].master = call[id].master,
         NEW r
  PROVE  Masters(r)' = Masters(r)
BY DEF Masters

LEMMA MastersGain ==
  ASSUME DOMAIN call' = DOMAIN call, NEW c \in DOMAIN call, call[c].master = None,
         \A id \in DOMAIN call : id # c => call'[id].master = call[id].master,
         NEW r \in Ranks, IsFiniteSet(Masters(r))
  PROVE  /\ IsFiniteSet(Masters(r)')
         /\ Cardinality(Masters(r)') = Cardinality(Masters(r)) + (IF call'[c].master = r THEN 1 ELSE 0)
<1>1. c \notin Masters(r)
  BY JobCallsAssumption DEF Masters
<1>2. Masters(r)' = Masters(r) \cup (IF call'[c].master = r THEN {c} ELSE {})
  BY <1>1 DEF Masters
<1>3. /\ IsFiniteSet({c}) /\ Cardinality({c}) = 1
      /\ Cardinality(Masters(r)) \in Nat
  BY FS_Singleton, FS_CardinalityType
<1>4. CASE call'[c].master = r
  <2>1. Masters(r)' = Masters(r) \cup {c} /\ Masters(r) \cap {c} = {}
    BY <1>1, <1>2, <1>4
  <2>2. QED
    BY <1>3, <1>4, <2>1, SetGains
<1>5. CASE call'[c].master # r
  BY <1>2, <1>3, <1>5
<1>6. QED
  BY <1>4, <1>5

LEMMA MastersGive ==
  ASSUME DOMAIN call' = DOMAIN call, NEW c \in DOMAIN call, call'[c].master = None,
         \A id \in DOMAIN call : id # c => call'[id].master = call[id].master,
         NEW r \in Ranks, IsFiniteSet(Masters(r))
  PROVE  /\ IsFiniteSet(Masters(r)')
         /\ Cardinality(Masters(r)') = Cardinality(Masters(r)) - (IF call[c].master = r THEN 1 ELSE 0)
<1>1. c \notin Masters(r)'
  BY JobCallsAssumption DEF Masters
<1>2. Masters(r) = Masters(r)' \cup (IF call[c].master = r THEN {c} ELSE {})
  BY <1>1 DEF Masters
<1>3. /\ IsFiniteSet({c}) /\ Cardinality({c}) = 1
      /\ Cardinality(Masters(r)) \in Nat
  BY FS_Singleton, FS_CardinalityType
<1>4. CASE call[c].master = r
  <2>1. Masters(r) = Masters(r)' \cup {c} /\ Masters(r)' \cap {c} = {}
    BY <1>1, <1>2, <1>4
  <2>2. QED
    BY <1>3, <1>4, <2>1, SetGives
<1>5. CASE call[c].master # r
  BY <1>2, <1>3, <1>5
<1>6. QED
  BY <1>4, <1>5

-----------------------------------------------------------------------------
(* The balance of a rank: dA, dJ, dH, dM are what a step adds to its four   *)
(* parts.                                                                   *)
Adds(r, dA, dJ, dH, dM) ==
  /\ avail'[r] = avail[r] + dA
  /\ Len(jobs'[r]) = Len(jobs[r]) + dJ
  /\ IsFiniteSet(Held(r)') /\ Cardinality(Held(r)') = Cardinality(Held(r)) + dH
  /\ IsFiniteSet(Masters(r)') /\ Cardinality(Masters(r)') = Cardinality(Masters(r)) + dM

LEMMA StaysBalanced ==
  ASSUME NEW r \in Ranks, Balanced(r), avail[r] \in Nat, Len(jobs[r]) \in Nat,
         NEW dA \in Int, NEW dJ \in Int, NEW dH \in Int, NEW dM \in Int,
         Adds(r, dA, dJ, dH, dM), Robbed(r) => Robbed(r)',
         \/ dA + dJ + dH + dM = 0
         \/ dA + dJ + dH + dM < 0 /\ Robbed(r)'
  PROVE  Balanced(r)'
<1>1. Cardinality(Held(r)) \in Nat /\ Cardinality(Masters(r)) \in Nat
  BY FS_CardinalityType DEF Balanced
<1>2. Slots(r)' = Slots(r) + (dA + dJ + dH + dM) /\ Slots(r) \in Int
  <2>1. Slots(r) = avail[r] + Len(jobs[r]) + Cardinality(Held(r)) + Cardinality(Masters(r))
    BY Zenon DEF Slots
  <2>2. Slots(r)' = avail'[r] + Len(jobs'[r]) + Cardinality(Held(r)') + Cardinality(Masters(r)')
    BY Zenon DEF Slots
  <2>3. /\ avail'[r] = avail[r] + dA /\ Len(jobs'[r]) = Len(jobs[r]) + dJ
        /\ Cardinality(Held(r)') = Cardinality(Held(r)) + dH
        /\ Cardinality(Masters(r)') = Cardinality(Masters(r)) + dM
    BY Zenon DEF Adds
  <2>4. ASSUME NEW a \in Int, NEW j \in Int, NEW h \in Int, NEW m \in Int
        PROVE  /\ (a + dA) + (j + dJ) + (h + dH) + (m + dM) = (a + j + h + m) + (dA + dJ + dH + dM)
               /\ a + j + h + m \in Int
    OBVIOUS
  <2>5. /\ avail[r] \in Int /\ Len(jobs[r]) \in Int
        /\ Cardinality(Held(r)) \in Int /\ Cardinality(Masters(r)) \in Int
    BY <1>1
  <2>6. Slots(r)' = (avail[r] + dA) + (Len(jobs[r]) + dJ) + (Cardinality(Held(r)) + dH)
                      + (Cardinality(Masters(r)) + dM)
    BY <2>2, <2>3, Zenon
  <2>7. /\ (avail[r] + dA) + (Len(jobs[r]) + dJ) + (Cardinality(Held(r)) + dH)
             + (Cardinality(Masters(r)) + dM)
             = (avail[r] + Len(jobs[r]) + Cardinality(Held(r)) + Cardinality(Masters(r)))
                 + (dA + dJ + dH + dM)
        /\ avail[r] + Len(jobs[r]) + Cardinality(Held(r)) + Cardinality(Masters(r)) \in Int
    BY <2>4, <2>5, Zenon
  <2>8. QED
    BY <2>1, <2>6, <2>7, Zenon
<1>3. NrJobs \in Int
  BY JobCallsAssumption
<1>4. /\ IsFiniteSet(Held(r)') /\ IsFiniteSet(Masters(r)')
      /\ Slots(r) <= NrJobs /\ (Slots(r) = NrJobs \/ Robbed(r))
  BY Zenon DEF Balanced, Adds
<1>5. Slots(r)' <= NrJobs /\ (Slots(r)' = NrJobs \/ Robbed(r)')
  <2>1. ASSUME NEW s \in Int, s <= NrJobs, NEW d \in Int, d = 0 \/ d < 0
        PROVE  s + d <= NrJobs /\ (d = 0 => s + d = s)
    BY <1>3, <2>1
  <2>2. dA + dJ + dH + dM \in Int
    OBVIOUS
  <2>3. CASE dA + dJ + dH + dM = 0
    BY <1>2, <1>4, <2>1, <2>2, <2>3, Zenon
  <2>4. CASE dA + dJ + dH + dM < 0 /\ Robbed(r)'
    BY <1>2, <1>4, <2>1, <2>2, <2>4, Zenon
  <2>5. QED
    BY <2>3, <2>4
<1>6. QED
  BY <1>4, <1>5, Zenon DEF Balanced

(* Nobody forgets a loss. *)
LEMMA StaysRobbed ==
  ASSUME DOMAIN call' = DOMAIN call, \A id \in DOMAIN call : call[id].lost \subseteq call'[id].lost, NEW r
  PROVE  Robbed(r) => Robbed(r)'
BY DEF Robbed

-----------------------------------------------------------------------------
(* What a step of a worker does to the frame of thread t.                   *)
SlotFields(t) ==
  /\ api'[t].id = api[t].id /\ api'[t].i = api[t].i /\ api'[t].got = api[t].got
  /\ api'[t].master = api[t].master /\ api'[t].inline = api[t].inline

Stirs(t) ==
  \/ api'[t] = api[t]
  \/ SlotFields(t) /\ api[t].pc = "asleep" /\ api'[t].pc = "get"
  \/ SlotFields(t) /\ api[t].pc = "wait" /\ api'[t].pc = "woken"
  \/ api[t].pc = "idle" /\ api'[t].pc = "idle"

(* It keeps the slots that t has, and what its frame says of them. *)
LEMMA StirsSlots ==
  ASSUME program' = program, NEW t, Stirs(t)
  PROVE  /\ \A r : Of(t, r)' = Of(t, r)
         /\ FrameOK(api[t]) => FrameOK(api'[t])
         /\ api[t].pc \in Submitting => api'[t].pc = api[t].pc /\ api'[t].id = api[t].id
<1>1. \A id : RanksOf(id)' = RanksOf(id) /\ Need(id)' = Need(id) /\ Call(id)' = Call(id)
              /\ RankSet(id)' = RankSet(id)
  BY DEF RanksOf, Call, Need, RankSet
<1>2. CASE api'[t] = api[t]
  <2>1. \A r : Of(t, r)' = Of(t, r)
    BY <1>2, SameOf
  <2>2. Wanted(t)' = Wanted(t)
    BY <1>1, <1>2 DEF Wanted, Wants
  <2>3. FrameOK(api[t]) => FrameOK(api'[t])
    BY <1>2
  <2>4. QED
    BY <1>2, <2>1, <2>3
<1>3. CASE SlotFields(t) /\ api[t].pc = "asleep" /\ api'[t].pc = "get"
  <2>1. \A k : PlaceRank(t, k)' = PlaceRank(t, k)
    BY <1>1, <1>3 DEF PlaceRank, PlaceOf, SlotFields
  <2>2. Taken(t)' = Taken(t)
    BY <1>1, <1>3 DEF Taken, TakenBy, SlotFields
  <2>3. Wants(api'[t]) = Wants(api[t])
    BY <1>3 DEF Wants, SlotFields
  <2>4. FrameOK(api[t]) => FrameOK(api'[t])
    BY <1>3, <2>3 DEF FrameOK, SlotFields, Inline
  <2>5. \A r : Of(t, r)' = Of(t, r)
    BY <2>1, <2>2 DEF Of
  <2>6. QED
    BY <1>3, <2>4, <2>5 DEF Submitting
<1>4. CASE \/ SlotFields(t) /\ api[t].pc = "wait" /\ api'[t].pc = "woken"
           \/ api[t].pc = "idle" /\ api'[t].pc = "idle"
  <2>1. Taken(t)' = {} /\ Taken(t) = {}
    BY <1>4 DEF Taken, TakenBy
  <2>2. FrameOK(api'[t])
    BY <1>4 DEF FrameOK, Inline
  <2>3. \A r : Of(t, r)' = Of(t, r)
    BY <2>1 DEF Of
  <2>4. QED
    BY <1>4, <2>2, <2>3 DEF Submitting
<1>5. QED
  BY <1>2, <1>3, <1>4 DEF Stirs

LEMMA AwakeStirs ==
  ASSUME Shapes, NEW id
  PROVE  /\ DOMAIN Awake(id) = Threads
         /\ \A t \in Threads :
              /\ DOMAIN Awake(id)[t] = ApiFields
              /\ \/ Awake(id)[t] = api[t]
                 \/ Awake(id)[t] = [api[t] EXCEPT !.pc = "woken"] /\ api[t].pc = "wait"
BY DEF Awake, Waiter, At, Shapes, ApiFields

LEMMA ReleaseStirs ==
  ASSUME Shapes, NEW r, NEW frames, ReleaseSlot(r, frames),
         frames = api \/ \E id : frames = Awake(id)
  PROVE  \A t \in Threads : Stirs(t)
<1>1. /\ DOMAIN frames = Threads
      /\ \A t \in Threads :
           /\ DOMAIN frames[t] = ApiFields /\ DOMAIN api[t] = ApiFields
           /\ \/ frames[t] = api[t]
              \/ frames[t] = [api[t] EXCEPT !.pc = "woken"] /\ api[t].pc = "wait"
  <2>1. CASE frames = api
    BY <2>1 DEF Shapes
  <2>2. ASSUME NEW id, frames = Awake(id)
        PROVE  /\ DOMAIN frames = Threads
               /\ \A t \in Threads :
                    /\ DOMAIN frames[t] = ApiFields
                    /\ \/ frames[t] = api[t]
                       \/ frames[t] = [api[t] EXCEPT !.pc = "woken"] /\ api[t].pc = "wait"
    BY <2>2, AwakeStirs, Zenon
  <2>3. \A t \in Threads : DOMAIN api[t] = ApiFields
    BY DEF Shapes
  <2>4. QED
    BY <2>1, <2>2, <2>3
<1>2. \A t \in Threads : api'[t] = frames[t] => Stirs(t)
  BY <1>1 DEF Stirs, SlotFields, ApiFields
<1>3. CASE api' = frames
  BY <1>2, <1>3
<1>4. CASE \E t \in Sleepers(r) : api' = [frames EXCEPT ![t].pc = "get"]
  <2>1. PICK u \in Threads : api[u].pc = "asleep" /\ api' = [frames EXCEPT ![u].pc = "get"]
    BY <1>4 DEF Sleepers, At
  <2>2. frames[u] = api[u]
    BY <1>1, <2>1
  <2>3. Stirs(u)
    BY <1>1, <2>1, <2>2 DEF Stirs, SlotFields, ApiFields
  <2>4. \A t \in Threads \ {u} : api'[t] = frames[t]
    BY <1>1, <2>1
  <2>5. QED
    BY <1>2, <2>3, <2>4
<1>5. QED
  BY <1>3, <1>4 DEF ReleaseSlot

LEMMA WorkStirs ==
  ASSUME Shapes, Frames, NEW w \in Workers, WorkStep(w)
  PROVE  \A t \in Threads : Stirs(t)
<1>1. CASE api' = api
  BY <1>1 DEF Stirs
<1>2. ASSUME NEW r, NEW frames, ReleaseSlot(r, frames), frames = api \/ \E id : frames = Awake(id)
      PROVE  \A t \in Threads : Stirs(t)
  BY <1>2, ReleaseStirs
<1>3. ASSUME NEW id, api' = Awake(id)
      PROVE  \A t \in Threads : Stirs(t)
  <2>1. \A t \in Threads :
          /\ DOMAIN api[t] = ApiFields
          /\ \/ api'[t] = api[t]
             \/ api'[t] = [api[t] EXCEPT !.pc = "woken"] /\ api[t].pc = "wait"
    BY <1>3, AwakeStirs, Zenon DEF Shapes
  <2>2. QED
    BY <2>1 DEF Stirs, SlotFields, ApiFields
<1>4. CASE CbStart(w)
  <2>1. /\ work[w].pc = "cbstart"
        /\ \E todo : api' = [api EXCEPT ![w] = Idle(todo)]
    BY <1>4 DEF CbStart, Doing
  <2>2. api[w] = Idle(<<>>)
    BY <2>1 DEF Frames
  <2>3. \A t \in Threads : api'[t] = api[t] \/ (t = w /\ api[t].pc = "idle" /\ api'[t].pc = "idle")
    BY <2>1, <2>2 DEF Shapes, Idle
  <2>4. QED
    BY <2>3 DEF Stirs
<1>5. QED
  BY <1>1, <1>2, <1>3, <1>4 DEF WorkStep, CallbackStep, Take, Exit, Lock, RunCopy, RunLaunch, Polled,
     RunSync, Advance, Fail, Drop, Unlock, CbArrive, CbLast, CbPop, CbInsert, CbLock, CbEnd,
     GlobalQueue, GlobalAdvance, GlobalSkip, GlobalEnd, FreeMaster

(* What a step of a worker does to the slots: nothing; *)
MastersKept == \A id \in Ids(program) : call'[id].master = call[id].master

NoSlots == avail' = avail /\ jobs' = jobs /\ MastersKept

(* a job that has ended gives its slot back; *)
EndsJob(s) ==
  /\ s \in Ranks /\ jobs[s] # <<>> /\ MastersKept
  /\ jobs' = [jobs EXCEPT ![s] = Tail(@)]
  /\ avail' = [avail EXCEPT ![s] = @ + 1]

(* or a master job. *)
EndsMaster(id) ==
  /\ id \in Ids(program) /\ jobs' = jobs
  /\ avail' = [avail EXCEPT ![call[id].master] = @ + 1]
  /\ call'[id].master = None
  /\ \A c \in Ids(program) : c # id => call'[c].master = call[c].master

LostKept ==
  /\ DOMAIN call' = Ids(program)
  /\ \A id \in Ids(program) : call'[id].lost = call[id].lost

LostGrows ==
  /\ DOMAIN call' = Ids(program)
  /\ \A id \in Ids(program) : call[id].lost \subseteq call'[id].lost

(* Where the worker goes on with the FIFO of another rank. *)
LEMMA GlobalFacts ==
  ASSUME Shapes, Calling, Gathered, NEW w \in Workers, GlobalAdvance(w), NEW s, s = GlobalRank(w)
  PROVE  s \in Ranks /\ jobs[s] # <<>>
<1>1. /\ work[w].pc = "global" /\ work[w].k <= Len(CbRanks(w)) /\ s # work[w].rank
  BY DEF GlobalAdvance, Doing
<1>2. /\ Blocking(w) /\ Single(w) /\ Cb(w) \in Ids(program) /\ work[w].k \in Nat \ {0}
  BY <1>1 DEF Calling, CbPhase
<1>3. CbRanks(w) = RanksOf(Cb(w)) /\ s = RanksOf(Cb(w))[work[w].k]
  BY <1>2 DEF CbRanks, Single, GlobalRank
<1>4. RanksOf(Cb(w)) \in Seq(Ranks)
  BY <1>2, CallFacts
<1>5. work[w].k \in DOMAIN RanksOf(Cb(w)) /\ s \in Ranks
  <2>1. ASSUME NEW q \in Seq(Ranks), NEW k \in Nat \ {0}, k <= Len(q)
        PROVE  k \in DOMAIN q /\ q[k] \in Ranks
    BY <2>1
  <2>2. QED
    BY <1>1, <1>2, <1>3, <1>4, <2>1
<1>6. ParkedUnder(s, Cb(w))
  BY <1>1, <1>2, <1>3, <1>5 DEF Gathered
<1>7. QED
  BY <1>5, <1>6 DEF ParkedUnder

LEMMA WorkSlots ==
  ASSUME Shapes, WorkHeads, Calling, Gathered, program' = program, NEW w \in Workers, WorkStep(w)
  PROVE  /\ LostKept
         /\ NoSlots \/ (\E s : EndsJob(s)) \/ (\E id : EndsMaster(id))
<1>1. /\ DOMAIN call = Ids(program)
      /\ \A id \in Ids(program) : DOMAIN call[id] = CallFields
  BY DEF Shapes
<1>2. ASSUME NEW id, NEW failed, Notified(id, failed)
      PROVE  LostKept /\ MastersKept
  BY <1>1, <1>2 DEF Notified, LostKept, MastersKept, CallFields
<1>3. CASE call' = call
  <2>1. LostKept /\ MastersKept
    BY <1>1, <1>3 DEF LostKept, MastersKept
  <2>2. CASE UNCHANGED <<jobs, avail>>
    BY <2>1, <2>2 DEF NoSlots
  <2>3. CASE Advance(w) \/ CbPop(w) \/ Drop(w)
    <3>1. /\ HasFifo(w) /\ jobs' = [jobs EXCEPT ![work[w].rank] = Tail(@)]
          /\ avail' = [avail EXCEPT ![work[w].rank] = @ + 1]
      BY <2>3 DEF Advance, CbPop, Drop, Doing, HasFifo, Pop, ReleaseSlot
    <3>2. EndsJob(work[w].rank)
      BY <2>1, <3>1 DEF WorkHeads, EndsJob
    <3>3. QED
      BY <2>1, <3>2
  <2>4. CASE GlobalAdvance(w)
    <3>1. GlobalRank(w) \in Ranks /\ jobs[GlobalRank(w)] # <<>>
      BY <2>4, GlobalFacts
    <3>2. EndsJob(GlobalRank(w))
      BY <2>1, <2>4, <3>1 DEF GlobalAdvance, EndsJob, Pop, ReleaseSlot
    <3>3. QED
      BY <2>1, <3>2
  <2>5. CASE FreeMaster(w)
    <3>1. /\ Cb(w) \in Ids(program) /\ jobs' = jobs
          /\ avail' = [avail EXCEPT ![call[Cb(w)].master] = @ + 1]
          /\ call' = [call EXCEPT ![Cb(w)].master = None]
      BY <2>5 DEF FreeMaster, Doing, Calling, CbPhase, SlotOwner, ReleaseSlot, fifos
    <3>2. EndsMaster(Cb(w))
      BY <1>1, <3>1 DEF EndsMaster, CallFields
    <3>3. QED
      BY <2>1, <3>2
  <2>6. QED
    BY <2>2, <2>3, <2>4, <2>5 DEF WorkStep, CallbackStep, Take, Exit, Lock, RunCopy, RunLaunch,
       Polled, RunSync, Fail, Unlock, CbArrive, CbLast, CbInsert, CbLock, CbStart, CbEnd,
       GlobalQueue, GlobalSkip, GlobalEnd, fifos
<1>4. CASE RunSync(w)
  BY <1>2, <1>4 DEF RunSync, NoSlots, fifos
<1>5. CASE Drop(w) /\ call' # call
  <2>1. LostKept /\ MastersKept
    BY <1>2, <1>5 DEF Drop
  <2>2. /\ HasFifo(w) /\ jobs' = [jobs EXCEPT ![work[w].rank] = Tail(@)]
        /\ avail' = [avail EXCEPT ![work[w].rank] = @ + 1]
    BY <1>5 DEF Drop, Doing, HasFifo, ReleaseSlot
  <2>3. EndsJob(work[w].rank)
    BY <2>1, <2>2 DEF WorkHeads, EndsJob
  <2>4. QED
    BY <2>1, <2>3
<1>6. CASE CbArrive(w) \/ CbLast(w)
  <2>1. Arrives(w) /\ UNCHANGED <<jobs, avail>>
    BY <1>6 DEF CbArrive, CbLast, fifos
  <2>2. LostKept /\ MastersKept
    BY <1>1, <2>1 DEF Arrives, LostKept, MastersKept, CallFields
  <2>3. QED
    BY <2>1, <2>2 DEF NoSlots
<1>7. CASE FreeMaster(w)
  <2>1. /\ Cb(w) \in Ids(program) /\ jobs' = jobs
        /\ avail' = [avail EXCEPT ![call[Cb(w)].master] = @ + 1]
        /\ call' = [call EXCEPT ![Cb(w)].master = None]
    BY <1>7 DEF FreeMaster, Doing, Calling, CbPhase, SlotOwner, ReleaseSlot, fifos
  <2>2. LostKept /\ EndsMaster(Cb(w))
    BY <1>1, <2>1 DEF EndsMaster, LostKept, CallFields
  <2>3. QED
    BY <2>2
<1>8. CASE UNCHANGED call \/ Drop(w) \/ RunSync(w) \/ CbArrive(w) \/ CbLast(w) \/ FreeMaster(w)
  BY <1>3, <1>4, <1>5, <1>6, <1>7, <1>8
<1>9. QED
  BY <1>8 DEF WorkStep, CallbackStep, Take, Exit, Lock, RunCopy, RunLaunch, Polled,
       Advance, Fail, Unlock, CbPop, CbInsert, CbLock, CbStart, CbEnd,
       GlobalQueue, GlobalAdvance, GlobalSkip, GlobalEnd

(* Every step of a worker keeps the invariant. *)
LEMMA BalanceEndsJob ==
  ASSUME Shapes, SlotTypes, NEW s, EndsJob(s), LostKept,
         \A t \in Threads : \A r : Of(t, r)' = Of(t, r), NEW r \in Ranks, Balanced(r)
  PROVE  Balanced(r)'
<1>1. /\ DOMAIN call = Ids(program) /\ jobs[r] \in Seq(JobSet) /\ jobs \in [Ranks -> Seq(JobSet)]
      /\ avail \in [Ranks -> Nat] /\ s \in Ranks
  BY DEF Shapes, SlotTypes, EndsJob
<1>2. Held(r)' = Held(r)
  BY HeldSame
<1>3. Masters(r)' = Masters(r)
  BY <1>1, MastersSame DEF EndsJob, MastersKept, LostKept
<1>4. Robbed(r) => Robbed(r)'
  BY <1>1, StaysRobbed DEF LostKept
<1>5. IsFiniteSet(Held(r)) /\ IsFiniteSet(Masters(r)) /\ Len(jobs[r]) \in Nat /\ avail[r] \in Nat
      /\ Cardinality(Held(r)) \in Nat /\ Cardinality(Masters(r)) \in Nat
  BY <1>1, FS_CardinalityType DEF Balanced
<1>6. CASE r = s
  <2>1. Len(jobs'[r]) = Len(jobs[r]) + (-1)
    <3>1. ASSUME NEW q \in Seq(JobSet), q # <<>> PROVE Len(Tail(q)) = Len(q) + (-1)
      BY <3>1, TailFacts
    <3>2. jobs'[r] = Tail(jobs[r]) /\ jobs[r] # <<>>
      BY <1>1, <1>6 DEF EndsJob
    <3>3. QED
      BY <1>1, <3>1, <3>2
  <2>2. avail'[r] = avail[r] + 1
    BY <1>1, <1>6 DEF EndsJob
  <2>3. Adds(r, 1, -1, 0, 0)
    BY <1>2, <1>3, <1>5, <2>1, <2>2 DEF Adds
  <2>4. QED
    BY <1>4, <1>5, <2>3, StaysBalanced
<1>7. CASE r # s
  <2>1. jobs'[r] = jobs[r] /\ avail'[r] = avail[r]
    BY <1>1, <1>7 DEF EndsJob
  <2>2. Adds(r, 0, 0, 0, 0)
    BY <1>2, <1>3, <1>5, <2>1 DEF Adds
  <2>3. QED
    BY <1>4, <1>5, <2>2, StaysBalanced
<1>8. QED
  BY <1>6, <1>7

LEMMA BalanceEndsMaster ==
  ASSUME Shapes, SlotTypes, NEW c, EndsMaster(c), LostKept,
         \A t \in Threads : \A r : Of(t, r)' = Of(t, r), NEW r \in Ranks, Balanced(r)
  PROVE  Balanced(r)'
<1>1. /\ DOMAIN call = Ids(program) /\ DOMAIN call' = Ids(program)
      /\ avail \in [Ranks -> Nat] /\ jobs \in [Ranks -> Seq(JobSet)]
      /\ c \in Ids(program) /\ jobs' = jobs
      /\ avail' = [avail EXCEPT ![call[c].master] = @ + 1]
      /\ call'[c].master = None
      /\ \A id \in Ids(program) : id # c => call'[id].master = call[id].master
  BY DEF Shapes, SlotTypes, EndsMaster, LostKept
<1>2. Held(r)' = Held(r)
  BY HeldSame
<1>3. /\ IsFiniteSet(Masters(r)')
      /\ Cardinality(Masters(r)') = Cardinality(Masters(r)) - (IF call[c].master = r THEN 1 ELSE 0)
  BY <1>1, MastersGive DEF Balanced
<1>4. Robbed(r) => Robbed(r)'
  BY <1>1, StaysRobbed DEF LostKept
<1>5. IsFiniteSet(Held(r)) /\ Len(jobs[r]) \in Nat /\ avail[r] \in Nat
      /\ Cardinality(Held(r)) \in Nat /\ Cardinality(Masters(r)) \in Nat
  BY <1>1, FS_CardinalityType DEF Balanced
<1>6. CASE call[c].master = r
  <2>1. avail'[r] = avail[r] + 1
    BY <1>1, <1>6
  <2>2. Adds(r, 1, 0, 0, -1)
    BY <1>1, <1>2, <1>3, <1>5, <1>6, <2>1 DEF Adds, Balanced
  <2>3. QED
    BY <1>4, <1>5, <2>2, StaysBalanced
<1>7. CASE call[c].master # r
  <2>1. avail'[r] = avail[r]
    BY <1>1, <1>7
  <2>2. Adds(r, 0, 0, 0, 0)
    BY <1>1, <1>2, <1>3, <1>5, <1>7, <2>1 DEF Adds, Balanced
  <2>3. QED
    BY <1>4, <1>5, <2>2, StaysBalanced
<1>8. QED
  BY <1>6, <1>7

LEMMA BalanceSame ==
  ASSUME Shapes, avail' = avail, jobs' = jobs, MastersKept, LostGrows,
         \A t \in Threads : \A r : Of(t, r)' = Of(t, r), NEW r \in Ranks, Balanced(r)
  PROVE  Balanced(r)'
<1>1. DOMAIN call = Ids(program)
  BY DEF Shapes
<1>2. Held(r)' = Held(r)
  BY HeldSame
<1>3. Masters(r)' = Masters(r)
  BY <1>1, MastersSame DEF MastersKept, LostGrows
<1>4. Robbed(r) => Robbed(r)'
  BY <1>1, StaysRobbed DEF LostGrows
<1>5. Slots(r)' = Slots(r)
  BY <1>2, <1>3 DEF Slots
<1>6. QED
  BY <1>2, <1>3, <1>4, <1>5 DEF Balanced

LEMMA WorkSlotInv ==
  ASSUME JobInv, SlotInv, NEW w \in Workers, WorkStep(w)
  PROVE  SlotInv'
<1>1. /\ Good /\ Aside /\ Gathered /\ Shapes /\ WorkHeads /\ Calling /\ Frames /\ Locked
      /\ program' = program
  BY WorkSameProgram DEF JobInv, Good, Aside
<1>2. SlotTypes /\ SlotFrames /\ MasterOf /\ Balance
  BY DEF SlotInv
<1>3. \A t \in Threads : Stirs(t)
  BY <1>1, WorkStirs
<1>4. LostKept /\ (NoSlots \/ (\E s : EndsJob(s)) \/ (\E id : EndsMaster(id)))
  BY <1>1, WorkSlots
<1>5. SameSubmitted
  BY <1>1, WorkKinds, WorkRanks, ServesSubmit
<1>6. /\ DOMAIN call = Ids(program) /\ DOMAIN call' = Ids(program)
      /\ \A id \in Ids(program) : call'[id].master \in {call[id].master, None}
  <2>1. DOMAIN call = Ids(program) /\ DOMAIN call' = Ids(program)
    BY <1>1, <1>4 DEF Shapes, LostKept
  <2>2. CASE MastersKept
    BY <2>1, <2>2 DEF MastersKept
  <2>3. ASSUME NEW c, EndsMaster(c), NEW id \in Ids(program)
        PROVE  call'[id].master \in {call[id].master, None}
    BY <2>3 DEF EndsMaster
  <2>4. QED
    BY <1>4, <2>1, <2>2, <2>3 DEF NoSlots, EndsJob
<1>7. SlotTypes'
  <2>1. avail' \in [Ranks -> Nat]
    BY <1>2, <1>4 DEF SlotTypes, NoSlots, EndsJob, EndsMaster
  <2>2. QED
    BY <1>1, <1>2, <1>4, <1>6, <2>1 DEF SlotTypes, LostKept
<1>8. SlotFrames'
  BY <1>1, <1>2, <1>3, StirsSlots, FramesThen DEF SlotFrames
<1>9. MasterOf'
  <2>1. ASSUME NEW id \in Ids(program), call'[id].master # None
        PROVE  /\ UsesMaster(Call(id))'
               /\ Fresh(id)' => \E t \in Threads : api'[t].id = id /\ api'[t].pc \in Submitting
    <3>1. call[id].master # None /\ UsesMaster(Call(id))
      BY <1>2, <1>6, <2>1 DEF MasterOf
    <3>2. UsesMaster(Call(id))'
      BY <1>1, <3>1 DEF Call
    <3>3. ASSUME Fresh(id)'
          PROVE  \E t \in Threads : api'[t].id = id /\ api'[t].pc \in Submitting
      <4>1. Fresh(id)
        BY <1>5, <3>3 DEF SameSubmitted, Fresh
      <4>2. PICK t \in Threads : api[t].id = id /\ api[t].pc \in Submitting
        BY <1>2, <3>1, <4>1 DEF MasterOf
      <4>3. api'[t].pc = api[t].pc /\ api'[t].id = api[t].id
        BY <1>1, <1>3, <4>2, StirsSlots
      <4>4. QED
        BY <4>2, <4>3
    <3>4. QED
      BY <3>2, <3>3
  <2>2. QED
    BY <1>1, <2>1 DEF MasterOf, Submitting
<1>10. Balance'
  <2>1. SUFFICES ASSUME ~undefined, NEW r \in Ranks
                 PROVE  Balanced(r)'
    <3>1. ~undefined
      BY DEF WorkStep, CallbackStep, Take, Exit, Lock, RunCopy, RunLaunch, Polled, RunSync, Advance,
         Fail, Drop, Unlock, CbArrive, CbLast, CbPop, CbInsert, CbLock, CbStart, CbEnd, GlobalQueue,
         GlobalAdvance, GlobalSkip, GlobalEnd, FreeMaster, Doing, Running
    <3>2. QED
      BY <2>1, <3>1 DEF Balance
  <2>2. Balanced(r)
    BY <1>2, <2>1 DEF Balance
  <2>3. \A t \in Threads : \A x : Of(t, x)' = Of(t, x)
    BY <1>1, <1>3, StirsSlots
  <2>4. CASE NoSlots
    BY <1>1, <1>4, <2>2, <2>3, <2>4, BalanceSame DEF NoSlots, LostKept, LostGrows
  <2>5. CASE \E s : EndsJob(s)
    BY <1>1, <1>2, <1>4, <2>2, <2>3, <2>5, BalanceEndsJob
  <2>6. CASE \E id : EndsMaster(id)
    BY <1>1, <1>2, <1>4, <2>2, <2>3, <2>6, BalanceEndsMaster
  <2>7. QED
    BY <1>4, <2>4, <2>5, <2>6
<1>11. QED
  BY <1>7, <1>8, <1>9, <1>10 DEF SlotInv

-----------------------------------------------------------------------------
(* Steps of the API.                                                        *)
(* What thread t, in a call, knows of it. *)
LEMMA CallSlots ==
  ASSUME Shapes, NEW id \in Ids(program), Call(id).op # "free"
  PROVE  /\ RanksOf(id) \in Seq(Ranks) /\ Len(RanksOf(id)) \in Nat \ {0}
         /\ Need(id) \in {1, 2} /\ RankSet(id) \subseteq Ranks
         /\ \A k \in 1..Len(RanksOf(id)) : RanksOf(id)[k] \in Ranks
<1>1. CallOK(Call(id)) /\ RanksOf(id) \in Seq(Ranks) /\ RankSet(id) \subseteq Ranks
  BY CallFacts
<1>2. RanksOf(id) # <<>>
  BY <1>1 DEF CallOK, RanksOf
<1>3. Len(RanksOf(id)) \in Nat \ {0} /\ \A k \in 1..Len(RanksOf(id)) : RanksOf(id)[k] \in Ranks
  <2>1. ASSUME NEW q \in Seq(Ranks), q # <<>>
        PROVE  Len(q) \in Nat \ {0} /\ \A k \in 1..Len(q) : q[k] \in Ranks
    BY <2>1
  <2>2. QED
    BY <1>1, <1>2, <2>1
<1>4. Need(id) \in {1, 2}
  BY BatchFacts
<1>5. QED
  BY <1>1, <1>3, <1>4

LEMMA PlaceFacts ==
  ASSUME Shapes, Frames, SlotTypes, SlotFrames, NEW t \in Threads, api[t].pc \notin {"idle", "join"},
         NEW id, id = api[t].id, NEW last, last = Len(RanksOf(id)), NEW need, need = Need(id)
  PROVE  /\ id \in Ids(program) /\ Call(id).op # "free"
         /\ RanksOf(id) \in Seq(Ranks) /\ last \in Nat \ {0} /\ need \in {1, 2}
         /\ RankSet(id) \subseteq Ranks
         /\ \A k \in 1..last : PlaceRank(t, k) = RanksOf(id)[k] /\ RanksOf(id)[k] \in Ranks
         /\ \A k : ~(k <= last) => PlaceRank(t, k) = api[t].master
         /\ Wanted(t) \in {1, 2}
         /\ api[t].i \in Int /\ api[t].i <= last => Wanted(t) = need
         /\ api[t].i = last + 1 => Wanted(t) = 1
<1>1. id \in Ids(program) /\ Call(id).op # "free"
  BY DEF Frames
<1>2. /\ RanksOf(id) \in Seq(Ranks) /\ last \in Nat \ {0} /\ need \in {1, 2}
      /\ RankSet(id) \subseteq Ranks
      /\ \A k \in 1..last : RanksOf(id)[k] \in Ranks
  BY <1>1, CallSlots
<1>3. /\ \A k \in 1..last : PlaceRank(t, k) = RanksOf(id)[k]
      /\ \A k : ~(k <= last) => PlaceRank(t, k) = api[t].master
  BY DEF PlaceRank, PlaceOf
<1>4. Wanted(t) \in {1, 2} /\ (api[t].i <= last => Wanted(t) = need)
  BY <1>2 DEF Wanted, Wants
<1>5. api[t].i = last + 1 => Wanted(t) = 1
  BY <1>2 DEF Wanted, Wants
<1>6. QED
  BY <1>1, <1>2, <1>3, <1>4, <1>5

(* Only t has stirred. *)
LEMMA FrameSlots ==
  ASSUME program' = program, NEW t \in Threads, FramesKept(t)
  PROVE  /\ OthersSame(t)
         /\ SlotFrames /\ FrameOK(api'[t]) => SlotFrames'
<1>1. \A u \in Threads \ {t} : api'[u] = api[u]
  BY DEF FramesKept
<1>2. OthersSame(t)
  BY <1>1, SameOf DEF OthersSame
<1>3. \A u \in Threads \ {t} : FrameOK(api[u]) => FrameOK(api'[u])
  BY <1>1, StirsSlots DEF Stirs
<1>4. QED
  BY <1>2, <1>3, FramesThen DEF SlotFrames

(* Some slots of a rank are taken from those available; *)
LEMMA BalanceGets ==
  ASSUME Shapes, SlotTypes, NEW t \in Threads, OthersSame(t), MastersKept, LostGrows, jobs' = jobs,
         NEW k, NEW a, NEW b, Obtains(t, k, a, b), NEW s \in Ranks, s = PlaceRank(t, k),
         NEW n \in Int, n = (b - a) + 1, avail' = [avail EXCEPT ![s] = @ - n],
         NEW r \in Ranks, Balanced(r)
  PROVE  Balanced(r)'
<1>1. /\ DOMAIN call = Ids(program) /\ avail \in [Ranks -> Nat] /\ jobs \in [Ranks -> Seq(JobSet)]
  BY DEF Shapes, SlotTypes
<1>2. Masters(r)' = Masters(r)
  BY <1>1, MastersSame DEF MastersKept, LostGrows
<1>3. Robbed(r) => Robbed(r)'
  BY <1>1, StaysRobbed DEF LostGrows
<1>4. IsFiniteSet(Held(r)) /\ IsFiniteSet(Masters(r)) /\ Len(jobs[r]) \in Nat /\ avail[r] \in Nat
      /\ Cardinality(Held(r)) \in Nat /\ Cardinality(Masters(r)) \in Nat
  BY <1>1, FS_CardinalityType DEF Balanced
<1>5. /\ IsFiniteSet(Held(r)')
      /\ Cardinality(Held(r)') = Cardinality(Held(r)) + (IF r = s THEN n ELSE 0)
  BY <1>4, HeldGains
<1>6. CASE r = s
  <2> PICK m \in Int : m = -n
    OBVIOUS
  <2>1. Adds(r, m, 0, n, 0)
    BY <1>1, <1>2, <1>4, <1>5, <1>6 DEF Adds
  <2>2. m + 0 + n + 0 = 0 /\ 0 \in Int
    OBVIOUS
  <2>3. QED
    BY <1>3, <1>4, <2>1, <2>2, StaysBalanced, Zenon
<1>7. CASE r # s
  <2>1. Adds(r, 0, 0, 0, 0)
    BY <1>1, <1>2, <1>4, <1>5, <1>7 DEF Adds
  <2>2. QED
    BY <1>3, <1>4, <2>1, StaysBalanced
<1>8. QED
  BY <1>6, <1>7

(* given back, *)
LEMMA BalanceReturns ==
  ASSUME Shapes, SlotTypes, NEW t \in Threads, OthersSame(t), MastersKept, LostGrows, jobs' = jobs,
         NEW k, NEW a, NEW b, Parts(t, k, a, b), NEW s \in Ranks, s = PlaceRank(t, k),
         NEW n \in Int, n = (b - a) + 1, avail' = [avail EXCEPT ![s] = @ + n],
         NEW r \in Ranks, Balanced(r)
  PROVE  Balanced(r)'
<1>1. /\ DOMAIN call = Ids(program) /\ avail \in [Ranks -> Nat] /\ jobs \in [Ranks -> Seq(JobSet)]
  BY DEF Shapes, SlotTypes
<1>2. Masters(r)' = Masters(r)
  BY <1>1, MastersSame DEF MastersKept, LostGrows
<1>3. Robbed(r) => Robbed(r)'
  BY <1>1, StaysRobbed DEF LostGrows
<1>4. IsFiniteSet(Held(r)) /\ IsFiniteSet(Masters(r)) /\ Len(jobs[r]) \in Nat /\ avail[r] \in Nat
      /\ Cardinality(Held(r)) \in Nat /\ Cardinality(Masters(r)) \in Nat
  BY <1>1, FS_CardinalityType DEF Balanced
<1>5. /\ IsFiniteSet(Held(r)')
      /\ Cardinality(Held(r)') = Cardinality(Held(r)) - (IF r = s THEN n ELSE 0)
  BY <1>4, HeldGives
<1>6. CASE r = s
  <2> PICK m \in Int : m = -n
    OBVIOUS
  <2>1. Adds(r, n, 0, m, 0)
    BY <1>1, <1>2, <1>4, <1>5, <1>6 DEF Adds
  <2>2. n + 0 + m + 0 = 0 /\ 0 \in Int
    OBVIOUS
  <2>3. QED
    BY <1>3, <1>4, <2>1, <2>2, StaysBalanced, Zenon
<1>7. CASE r # s
  <2>1. Adds(r, 0, 0, 0, 0)
    BY <1>1, <1>2, <1>4, <1>5, <1>7 DEF Adds
  <2>2. QED
    BY <1>3, <1>4, <2>1, StaysBalanced
<1>8. QED
  BY <1>6, <1>7

(* put in the FIFO, *)
LEMMA BalanceSubmits ==
  ASSUME Shapes, SlotTypes, NEW t \in Threads, OthersSame(t), MastersKept, LostGrows, avail' = avail,
         NEW k, NEW a, NEW b, Parts(t, k, a, b), NEW s \in Ranks, s = PlaceRank(t, k),
         NEW n \in Int, n = (b - a) + 1, DOMAIN jobs' = Ranks,
         \A x \in Ranks : x # s => jobs'[x] = jobs[x], Len(jobs'[s]) = Len(jobs[s]) + n,
         NEW r \in Ranks, Balanced(r)
  PROVE  Balanced(r)'
<1>1. /\ DOMAIN call = Ids(program) /\ avail \in [Ranks -> Nat] /\ jobs \in [Ranks -> Seq(JobSet)]
  BY DEF Shapes, SlotTypes
<1>2. Masters(r)' = Masters(r)
  BY <1>1, MastersSame DEF MastersKept, LostGrows
<1>3. Robbed(r) => Robbed(r)'
  BY <1>1, StaysRobbed DEF LostGrows
<1>4. IsFiniteSet(Held(r)) /\ IsFiniteSet(Masters(r)) /\ Len(jobs[r]) \in Nat /\ avail[r] \in Nat
      /\ Cardinality(Held(r)) \in Nat /\ Cardinality(Masters(r)) \in Nat
  BY <1>1, FS_CardinalityType DEF Balanced
<1>5. /\ IsFiniteSet(Held(r)')
      /\ Cardinality(Held(r)') = Cardinality(Held(r)) - (IF r = s THEN n ELSE 0)
  BY <1>4, HeldGives
<1>6. CASE r = s
  <2> PICK m \in Int : m = -n
    OBVIOUS
  <2>1. Adds(r, 0, n, m, 0)
    BY <1>1, <1>2, <1>4, <1>5, <1>6 DEF Adds
  <2>2. 0 + n + m + 0 = 0 /\ 0 \in Int
    OBVIOUS
  <2>3. QED
    BY <1>3, <1>4, <2>1, <2>2, StaysBalanced, Zenon
<1>7. CASE r # s
  <2>1. Adds(r, 0, 0, 0, 0)
    BY <1>1, <1>2, <1>4, <1>5, <1>7 DEF Adds
  <2>2. QED
    BY <1>3, <1>4, <2>1, StaysBalanced
<1>8. QED
  BY <1>6, <1>7

(* or lost. *)
LEMMA BalanceLoses ==
  ASSUME Shapes, SlotTypes, NEW t \in Threads, OthersSame(t), MastersKept, LostGrows,
         jobs' = jobs, avail' = avail,
         NEW k, NEW a, NEW b, Parts(t, k, a, b), NEW s, s = PlaceRank(t, k),
         NEW n \in Nat, n = (b - a) + 1, n # 0 => Robbed(s)',
         NEW r \in Ranks, Balanced(r)
  PROVE  Balanced(r)'
<1>1. /\ DOMAIN call = Ids(program) /\ avail \in [Ranks -> Nat] /\ jobs \in [Ranks -> Seq(JobSet)]
  BY DEF Shapes, SlotTypes
<1>2. Robbed(r) => Robbed(r)'
  BY <1>1, StaysRobbed DEF LostGrows
<1>3. IsFiniteSet(Held(r)) /\ IsFiniteSet(Masters(r)) /\ Len(jobs[r]) \in Nat /\ avail[r] \in Nat
      /\ Cardinality(Held(r)) \in Nat /\ Cardinality(Masters(r)) \in Nat
  BY <1>1, FS_CardinalityType DEF Balanced
<1>4. /\ IsFiniteSet(Held(r)')
      /\ Cardinality(Held(r)') = Cardinality(Held(r)) - (IF r = s THEN n ELSE 0)
  BY <1>3, HeldGives
<1>5. Masters(r)' = Masters(r)
  BY <1>1, MastersSame DEF MastersKept, LostGrows
<1>6. CASE r = s /\ n # 0
  <2>1. Adds(r, 0, 0, -n, 0)
    BY <1>3, <1>4, <1>5, <1>6 DEF Adds
  <2>2. -n \in Int /\ 0 + 0 + (-n) + 0 < 0 /\ Robbed(r)'
    BY <1>6
  <2>3. QED
    BY <1>2, <1>3, <2>1, <2>2, StaysBalanced
<1>7. CASE r # s \/ n = 0
  <2>1. Adds(r, 0, 0, 0, 0)
    BY <1>3, <1>4, <1>5, <1>7 DEF Adds
  <2>2. QED
    BY <1>2, <1>3, <2>1, StaysBalanced
<1>8. QED
  BY <1>6, <1>7

(* What is to be shown of each step of the API. *)
KeepsSlots(t) ==
  /\ SlotTypes' /\ FrameOK(api'[t]) /\ MasterOf'
  /\ ~undefined' => \A r \in Ranks : Balanced(r)'

(* The master jobs stay with the calls. *)
LEMMA MasterStays ==
  ASSUME program' = program, MasterOf, NEW t \in Threads, FramesKept(t), MastersKept,
         \A id : Fresh(id)' => Fresh(id),
         NEW a, a = api[t].id,
         Fresh(a)' /\ api[t].pc \in Submitting /\ UsesMaster(Call(a)) =>
           api'[t].pc \in Submitting /\ api'[t].id = a
  PROVE  MasterOf'
<1>1. ASSUME NEW id \in Ids(program), call'[id].master # None
      PROVE  /\ UsesMaster(Call(id))'
             /\ Fresh(id)' => \E u \in Threads : api'[u].id = id /\ api'[u].pc \in Submitting
  <2>1. call[id].master # None /\ UsesMaster(Call(id))
    BY <1>1 DEF MasterOf, MastersKept
  <2>2. UsesMaster(Call(id))'
    BY <2>1 DEF Call
  <2>3. ASSUME Fresh(id)'
        PROVE  \E u \in Threads : api'[u].id = id /\ api'[u].pc \in Submitting
    <3>1. PICK u \in Threads : api[u].id = id /\ api[u].pc \in Submitting
      BY <2>1, <2>3 DEF MasterOf
    <3>2. CASE u # t
      BY <3>1, <3>2 DEF FramesKept
    <3>3. CASE u = t
      <4>1. api[t].id = id /\ api[t].pc \in Submitting
        BY <3>1, <3>3
      <4>2. QED
        BY <2>1, <2>3, <4>1
    <3>4. QED
      BY <3>2, <3>3
  <2>4. QED
    BY <2>2, <2>3
<1>2. QED
  BY <1>1 DEF MasterOf, Submitting

(* Steps that change no FIFO submit nothing. *)
LEMMA StaysFresh ==
  ASSUME outcome' = outcome, NEW id
  PROVE  Fresh(id)' <=> Fresh(id)
BY DEF Fresh

(* No slot moves, and no master job. *)
LEMMA NothingMoves ==
  ASSUME Shapes, SlotInv, program' = program, NEW t \in Threads, FramesKept(t), outcome' = outcome,
         avail' = avail, jobs' = jobs, MastersKept, LostKept, undefined' \/ ~undefined,
         Taken(t)' = Taken(t), \A s \in Taken(t) : PlaceRank(t, s[1])' = PlaceRank(t, s[1]),
         FrameOK(api'[t]),
         api[t].pc \in Submitting /\ UsesMaster(Call(api[t].id)) =>
           api'[t].pc \in Submitting /\ api'[t].id = api[t].id
  PROVE  KeepsSlots(t)
<1>1. SlotTypes /\ MasterOf /\ Balance
  BY DEF SlotInv
<1>2. MasterOf'
  <2>1. ASSUME NEW a, a = api[t].id PROVE MasterOf'
    BY <1>1, <2>1, MasterStays, StaysFresh
  <2>2. QED
    BY <2>1
<1>3. SlotTypes'
  BY <1>1 DEF SlotTypes, MastersKept, LostKept
<1>4. ASSUME ~undefined', NEW r \in Ranks
      PROVE  Balanced(r)'
  <2>1. Balanced(r)
    BY <1>1, <1>4 DEF Balance
  <2>2. \A u \in Threads : \A x : Of(u, x)' = Of(u, x)
    BY FrameSlots, OfSame DEF OthersSame
  <2>3. LostGrows
    BY DEF LostKept, LostGrows
  <2>4. QED
    BY <2>1, <2>2, <2>3, BalanceSame
<1>5. QED
  BY <1>2, <1>3, <1>4 DEF KeepsSlots

LEMMA CallSame ==
  ASSUME Shapes, call' = call
  PROVE  LostKept /\ MastersKept /\ LostGrows
BY DEF Shapes, LostKept, MastersKept, LostGrows

(* A return only answers. *)
LEMMA ReturnSame ==
  ASSUME Shapes, NEW t \in Threads, NEW answer, Return(t, answer)
  PROVE  LostKept /\ MastersKept /\ LostGrows /\ api'[t] = Idle(api[t].todo)
BY DEF Shapes, Return, LostKept, MastersKept, LostGrows, CallFields

LEMMA BeginSlots ==
  ASSUME Shapes, Names, SlotInv, program' = program, NEW t \in Threads, FramesKept(t), Begin(t),
         NEW f, f = api'[t]
  PROVE  KeepsSlots(t)
<1>1. /\ api[t].pc = "idle" /\ api[t].todo # <<>> /\ ~undefined
      /\ UNCHANGED <<call, avail, jobs, outcome, undefined>>
  BY DEF Begin, At, fifos, flags
<1>2. PICK id \in Ids(program) :
        /\ Call(id).op # "free" /\ f.id = id /\ f.i = 1 /\ f.got = 0 /\ f.master = None
        /\ f.pc = IF RunsInline(id) THEN "set" ELSE "get"
        /\ RunsInline(id) => f.inline
        /\ ~RunsInline(id) => ~f.inline
  <2>1. PICK id : id = Head(api[t].todo)
    OBVIOUS
  <2>2. id \in Ids(program)
    BY <1>1, <2>1 DEF Shapes, Names
  <2>3. /\ api' = [api EXCEPT ![t] = [Idle(Tail(api[t].todo)) EXCEPT
                     !.pc = IF RunsInline(id) THEN "set" ELSE "get",
                     !.id = id, !.inline = RunsInline(id)]]
        /\ Call(id).op # "free"
    BY <2>1 DEF Begin
  <2>4. /\ api'[t].id = id /\ api'[t].i = 1 /\ api'[t].got = 0 /\ api'[t].master = None
        /\ api'[t].pc = IF RunsInline(id) THEN "set" ELSE "get"
    BY <2>3 DEF Shapes, Idle
  <2>5. (RunsInline(id) => api'[t].inline) /\ (~RunsInline(id) => ~api'[t].inline)
    BY <2>3 DEF Shapes, Idle
  <2>6. QED
    BY <2>2, <2>3, <2>4, <2>5
<1>3. Len(RanksOf(id)) \in Nat \ {0} /\ Need(id) \in {1, 2}
  BY <1>2, CallSlots
<1>4. RunsInline(id) => Len(RanksOf(id)) = 1 /\ ~UsesMaster(Call(id))
  BY DEF RunsInline, UsesMaster, RanksOf
<1>5. Taken(t) = {} /\ Taken(t)' = {}
  <2>1. Taken(t) = {}
    BY <1>1 DEF Taken, TakenBy
  <2>2. TakenBy(f) = {}
    <3>1. CASE RunsInline(id)
      BY <1>2, <3>1 DEF TakenBy
    <3>2. CASE ~RunsInline(id)
      <4>1. TakenBy(f) = ((1..(1 - 1)) \X (1..Need(id))) \cup ({1} \X (1..0))
        BY <1>2, <3>2 DEF TakenBy
      <4>2. QED
        BY <4>1
    <3>3. QED
      BY <3>1, <3>2
  <2>3. QED
    BY <1>2, <2>1, <2>2, ByFrameThen
<1>6. FrameOK(api'[t])
  <2>1. CASE RunsInline(id)
    BY <1>2, <1>4, <2>1 DEF FrameOK, Inline
  <2>2. CASE ~RunsInline(id)
    <3>1. Wants(f) \in {1, 2}
      BY <1>2, <1>3 DEF Wants
    <3>2. 1 \in 1..(Len(RanksOf(id)) + 1) /\ 0 \in 0..Wants(f) /\ 1 <= Len(RanksOf(id))
      BY <1>3, <3>1
    <3>3. QED
      BY <1>2, <2>2, <3>2 DEF FrameOK, Inline
  <2>3. QED
    BY <2>1, <2>2
<1>7. QED
  BY <1>1, <1>5, <1>6, CallSame, NothingMoves DEF Submitting

(* Places and numbers of slots. *)
LEMMA RangeFacts ==
  ASSUME NEW i \in Nat \ {0}, NEW need \in Nat, NEW g \in Nat, NEW n \in Nat
  PROVE  /\ (1..i) \X (1..need) = ((1..(i - 1)) \X (1..need)) \cup ({i} \X (1..need))
         /\ {i} \X (1..(g + n)) = ({i} \X (1..g)) \cup ({i} \X ((g + 1)..(g + n)))
         /\ ((1..(i - 1)) \X (1..need)) \cap ({i} \X ((g + 1)..(g + n))) = {}
         /\ ({i} \X (1..g)) \cap ({i} \X ((g + 1)..(g + n))) = {}
<1>1. 1..i = (1..(i - 1)) \cup {i} /\ i \notin 1..(i - 1)
  OBVIOUS
<1>2. 1..(g + n) = (1..g) \cup ((g + 1)..(g + n)) /\ (1..g) \cap ((g + 1)..(g + n)) = {}
  OBVIOUS
<1>3. ASSUME NEW A, NEW B, NEW C, NEW D
      PROVE  /\ (A \cup B) \X C = (A \X C) \cup (B \X C)
             /\ A \X (C \cup D) = (A \X C) \cup (A \X D)
  OBVIOUS
<1>4. (1..(i - 1)) \cap {i} = {}
  BY <1>1
<1>5. (1..i) \X (1..need) = ((1..(i - 1)) \X (1..need)) \cup ({i} \X (1..need))
  BY <1>1, <1>3, Zenon
<1>6. {i} \X (1..(g + n)) = ({i} \X (1..g)) \cup ({i} \X ((g + 1)..(g + n)))
  BY <1>2, <1>3, Zenon
<1>7. ASSUME NEW A, NEW B, NEW C, NEW D, A \cap B = {} \/ C \cap D = {}
      PROVE  (A \X C) \cap (B \X D) = {}
  BY <1>7
<1>8. /\ ((1..(i - 1)) \X (1..need)) \cap ({i} \X ((g + 1)..(g + n))) = {}
      /\ ({i} \X (1..g)) \cap ({i} \X ((g + 1)..(g + n))) = {}
  BY <1>2, <1>4, <1>7, Zenon
<1>9. QED
  BY <1>5, <1>6, <1>8

(* What a thread has, by where it is. *)
LEMMA TakenCases ==
  ASSUME NEW f, NEW need, need = Need(f.id), NEW last, last = Len(RanksOf(f.id))
  PROVE  /\ f.pc \in {"get", "asleep"} =>
              TakenBy(f) = ((1..(f.i - 1)) \X (1..need)) \cup ({f.i} \X (1..f.got))
         /\ f.pc = "unget" => TakenBy(f) = (f.got..(f.i - 1)) \X (1..need)
         /\ f.pc = "set" /\ ~f.inline /\ f.master = None => TakenBy(f) = (1..last) \X (1..need)
         /\ f.pc = "set" /\ ~f.inline /\ f.master # None =>
              TakenBy(f) = ((1..last) \X (1..need)) \cup {<<last + 1, 1>>}
         /\ f.pc \in {"do", "dostale"} \cup Inline /\ ~f.inline => TakenBy(f) = (1..last) \X (1..need)
         /\ f.pc \in {"add", "addqueue"} => TakenBy(f) = (f.i..last) \X (1..need)
         /\ f.pc \notin {"get", "asleep", "unget", "set", "do", "dostale", "add", "addqueue"} \cup Inline =>
              TakenBy(f) = {}
         /\ f.pc \in {"set", "do", "dostale"} \cup Inline /\ f.inline => TakenBy(f) = {}
<1>1. /\ f.pc \in {"get", "asleep"} =>
              TakenBy(f) = ((1..(f.i - 1)) \X (1..need)) \cup ({f.i} \X (1..f.got))
      /\ f.pc = "unget" => TakenBy(f) = (f.got..(f.i - 1)) \X (1..need)
      /\ f.pc \in {"add", "addqueue"} => TakenBy(f) = (f.i..last) \X (1..need)
  BY DEF TakenBy
<1>2. /\ f.pc = "set" /\ ~f.inline /\ f.master = None => TakenBy(f) = (1..last) \X (1..need)
      /\ f.pc = "set" /\ ~f.inline /\ f.master # None =>
              TakenBy(f) = ((1..last) \X (1..need)) \cup {<<last + 1, 1>>}
  <2>1. ASSUME f.pc = "set", ~f.inline
        PROVE  TakenBy(f) = ((1..last) \X (1..need)) \cup {<<last + 1, 1>> : m \in {f.master} \ {None}}
    BY <2>1 DEF TakenBy
  <2>2. /\ f.master = None => {<<last + 1, 1>> : m \in {f.master} \ {None}} = {}
        /\ f.master # None => {<<last + 1, 1>> : m \in {f.master} \ {None}} = {<<last + 1, 1>>}
    OBVIOUS
  <2>3. QED
    BY <2>1, <2>2
<1>3. f.pc \in {"do", "dostale"} \cup Inline /\ ~f.inline => TakenBy(f) = (1..last) \X (1..need)
  BY DEF TakenBy, Inline
<1>4. /\ f.pc \notin {"get", "asleep", "unget", "set", "do", "dostale", "add", "addqueue"} \cup Inline =>
              TakenBy(f) = {}
      /\ f.pc \in {"set", "do", "dostale"} \cup Inline /\ f.inline => TakenBy(f) = {}
  BY DEF TakenBy, Inline
<1>5. QED
  BY <1>1, <1>2, <1>3, <1>4

LEMMA MasterRanksIn ==
  ASSUME NEW id, Len(RanksOf(id)) \in Nat \ {0}, RanksOf(id) \in Seq(Ranks)
  PROVE  MasterRanks(id) \subseteq RankSet(id)
<1>1. 1 \in DOMAIN RanksOf(id)
  OBVIOUS
<1>2. QED
  BY <1>1 DEF MasterRanks, RankSet

(* A thread that is after slots. *)
LEMMA GetFacts ==
  ASSUME Shapes, Frames, SlotTypes, SlotFrames, NEW t \in Threads,
         NEW e, e = api[t], e.pc = "get", NEW id, id = e.id, NEW last, last = Len(RanksOf(id)),
         NEW need, need = Need(id), NEW i, i = e.i, NEW g, g = e.got, NEW s, s = SlotRank(t),
         NEW want, want = Wanted(t)
  PROVE  /\ id \in Ids(program) /\ RanksOf(id) \in Seq(Ranks) /\ last \in Nat \ {0} /\ need \in {1, 2}
         /\ RankSet(id) \subseteq Ranks
         /\ \A k \in 1..last : PlaceRank(t, k) = RanksOf(id)[k] /\ RanksOf(id)[k] \in Ranks
         /\ \A k : ~(k <= last) => PlaceRank(t, k) = e.master
         /\ want \in {1, 2} /\ (i \in Int /\ i <= last => want = need) /\ (i = last + 1 => want = 1)
         /\ i \in 1..(last + 1) /\ g \in 0..want /\ ~e.inline
         /\ IF i <= last THEN e.master = None ELSE UsesMaster(Call(id)) /\ e.master \in RankSet(id)
         /\ s \in Ranks /\ s = PlaceRank(t, i)
<1>1. e.pc = "get"
  OBVIOUS
<1>2. SlotTypes /\ FrameOK(e) /\ SlotFrames
  BY DEF SlotFrames
<1>3. /\ id \in Ids(program) /\ RanksOf(id) \in Seq(Ranks) /\ last \in Nat \ {0} /\ need \in {1, 2}
      /\ RankSet(id) \subseteq Ranks
      /\ \A k \in 1..last : PlaceRank(t, k) = RanksOf(id)[k] /\ RanksOf(id)[k] \in Ranks
      /\ \A k : ~(k <= last) => PlaceRank(t, k) = e.master
      /\ want \in {1, 2} /\ (i \in Int /\ i <= last => want = need) /\ (i = last + 1 => want = 1)
  <2>1. e.pc \notin {"idle", "join"}
    BY <1>1
  <2>2. /\ id \in Ids(program)
        /\ RanksOf(id) \in Seq(Ranks) /\ last \in Nat \ {0} /\ need \in {1, 2}
        /\ RankSet(id) \subseteq Ranks
        /\ \A k \in 1..last : PlaceRank(t, k) = RanksOf(id)[k] /\ RanksOf(id)[k] \in Ranks
        /\ \A k : ~(k <= last) => PlaceRank(t, k) = api[t].master
        /\ Wanted(t) \in {1, 2}
        /\ api[t].i \in Int /\ api[t].i <= last => Wanted(t) = need
        /\ api[t].i = last + 1 => Wanted(t) = 1
    BY <1>2, <2>1, PlaceFacts
  <2>3. QED
    BY <2>2, Zenon
<1>4. /\ i \in 1..(last + 1) /\ g \in 0..want /\ ~e.inline
      /\ IF i <= last THEN e.master = None ELSE UsesMaster(Call(id)) /\ e.master \in RankSet(id)
  BY <1>1, <1>2 DEF FrameOK, Wanted
<1>5. s \in Ranks /\ s = PlaceRank(t, i)
  <2>1. s = PlaceRank(t, i)
    BY DEF PlaceRank, SlotRank
  <2>2. CASE i <= last
    BY <1>3, <1>4, <2>1, <2>2
  <2>3. CASE ~(i <= last)
    BY <1>3, <1>4, <2>1, <2>3
  <2>4. QED
    BY <2>1, <2>2, <2>3
<1>6. QED
  BY <1>3, <1>4, <1>5

LEMMA GetSlotsKeeps ==
  ASSUME Shapes, Frames, SlotInv, program' = program, NEW t \in Threads, FramesKept(t), GetSlots(t),
         NEW e, e = api[t], NEW f, f = api'[t], NEW id, id = e.id, NEW last, last = Len(RanksOf(id)),
         NEW need, need = Need(id), NEW i, i = e.i, NEW g, g = e.got, NEW s, s = SlotRank(t),
         NEW want, want = Wanted(t),
         NEW n, n = (IF avail[s] < want - g THEN avail[s] ELSE want - g)
  PROVE  KeepsSlots(t)
<1>1. /\ e.pc = "get" /\ ~undefined /\ UNCHANGED <<call, jobs, outcome, undefined>>
      /\ avail' = [avail EXCEPT ![s] = @ - n]
  BY DEF GetSlots, At, fifos, flags
<1>2. SlotTypes /\ MasterOf /\ Balance /\ FrameOK(e) /\ SlotFrames
  BY DEF SlotInv, SlotFrames
<1>3. /\ id \in Ids(program) /\ RanksOf(id) \in Seq(Ranks) /\ last \in Nat \ {0} /\ need \in {1, 2}
      /\ RankSet(id) \subseteq Ranks
      /\ \A k \in 1..last : PlaceRank(t, k) = RanksOf(id)[k] /\ RanksOf(id)[k] \in Ranks
      /\ \A k : ~(k <= last) => PlaceRank(t, k) = e.master
      /\ want \in {1, 2} /\ (i \in Int /\ i <= last => want = need) /\ (i = last + 1 => want = 1)
      /\ i \in 1..(last + 1) /\ g \in 0..want /\ ~e.inline
      /\ IF i <= last THEN e.master = None ELSE UsesMaster(Call(id)) /\ e.master \in RankSet(id)
      /\ s \in Ranks /\ s = PlaceRank(t, i)
  BY <1>1, <1>2, GetFacts
<1>4. /\ i \in 1..(last + 1) /\ g \in 0..want /\ ~e.inline
      /\ IF i <= last THEN e.master = None ELSE UsesMaster(Call(id)) /\ e.master \in RankSet(id)
  BY <1>3
<1>5. s \in Ranks /\ s = PlaceRank(t, i)
  BY <1>3
<1>6. n \in Nat /\ n <= avail[s] /\ g \in Nat /\ g + n <= want /\ avail[s] \in Nat /\ i \in Nat \ {0}
  <2>1. avail[s] \in Nat
    BY <1>2, <1>5 DEF SlotTypes
  <2>2. ASSUME NEW a \in Nat, NEW w \in {1, 2}, NEW h \in 0..w, NEW m,
               m = IF a < w - h THEN a ELSE w - h
        PROVE  m \in Nat /\ m <= a /\ h + m <= w /\ h \in Nat
    BY <2>2
  <2>3. n \in Nat /\ n <= avail[s] /\ g + n <= want /\ g \in Nat
    BY <1>3, <1>4, <2>1, <2>2, Zenon
  <2>4. i \in Nat \ {0}
    BY <1>3, <1>4
  <2>5. QED
    BY <2>1, <2>3, <2>4, Zenon
<1>7. f.id = id /\ ~f.inline
      /\ \/ f.pc = "asleep" /\ f.got = g + n /\ f.i = i /\ f.master = e.master
         \/ /\ f.pc = "get" /\ f.i = i + 1 /\ f.got = 0 /\ f.master = e.master
            /\ i < last /\ g + n = want
         \/ /\ f.pc = "get" /\ f.i = i + 1 /\ f.got = 0 /\ f.master \in RankSet(id)
            /\ i = last /\ g + n = want /\ UsesMaster(Call(id))
         \/ /\ f.pc = "set" /\ f.i = 1 /\ f.got = 0 /\ f.master = e.master /\ g + n = want
            /\ i = last + (IF UsesMaster(Call(id)) THEN 1 ELSE 0)
  <2>1. /\ DOMAIN api = Threads /\ DOMAIN api[t] = ApiFields
    BY DEF Shapes
  <2>2. \/ /\ g + n < want
           /\ api' = [api EXCEPT ![t].pc = "asleep", ![t].got = g + n]
        \/ /\ g + n = want /\ i < last
           /\ api' = [api EXCEPT ![t].i = i + 1, ![t].got = 0]
        \/ /\ g + n = want /\ i = last /\ UsesMaster(Call(id))
           /\ \E m \in MasterRanks(id) :
                api' = [api EXCEPT ![t].i = i + 1, ![t].got = 0, ![t].master = m]
        \/ /\ g + n = want
           /\ i = last + (IF UsesMaster(Call(id)) THEN 1 ELSE 0)
           /\ api' = [api EXCEPT ![t].pc = "set", ![t].i = 1, ![t].got = 0]
    BY DEF GetSlots
  <2>3. CASE g + n < want /\ api' = [api EXCEPT ![t].pc = "asleep", ![t].got = g + n]
    BY <1>4, <2>1, <2>3 DEF ApiFields
  <2>4. CASE g + n = want /\ i < last /\ api' = [api EXCEPT ![t].i = i + 1, ![t].got = 0]
    BY <1>1, <1>4, <2>1, <2>4 DEF ApiFields
  <2>5. CASE /\ g + n = want /\ i = last /\ UsesMaster(Call(id))
             /\ \E m \in MasterRanks(id) :
                  api' = [api EXCEPT ![t].i = i + 1, ![t].got = 0, ![t].master = m]
    <3>1. PICK m \in RankSet(id) : api' = [api EXCEPT ![t].i = i + 1, ![t].got = 0, ![t].master = m]
      BY <1>3, <2>5, MasterRanksIn
    <3>2. QED
      BY <1>1, <1>4, <2>1, <2>5, <3>1 DEF ApiFields
  <2>6. CASE /\ g + n = want
             /\ i = last + (IF UsesMaster(Call(id)) THEN 1 ELSE 0)
             /\ api' = [api EXCEPT ![t].pc = "set", ![t].i = 1, ![t].got = 0]
    BY <1>4, <2>1, <2>6 DEF ApiFields
  <2>7. QED
    BY <2>2, <2>3, <2>4, <2>5, <2>6
<1>8. TakenBy(f) = ((1..(i - 1)) \X (1..need)) \cup ({i} \X (1..(g + n)))
  <2>1. /\ f.pc \in {"get", "asleep"} =>
              TakenBy(f) = ((1..(f.i - 1)) \X (1..need)) \cup ({f.i} \X (1..f.got))
        /\ f.pc = "set" /\ f.master = None => TakenBy(f) = (1..last) \X (1..need)
        /\ f.pc = "set" /\ f.master # None =>
              TakenBy(f) = ((1..last) \X (1..need)) \cup {<<last + 1, 1>>}
    BY <1>7, TakenCases
  <2>2. (1..i) \X (1..need) = ((1..(i - 1)) \X (1..need)) \cup ({i} \X (1..need))
    BY <1>3, <1>6, RangeFacts
  <2>3. CASE f.pc = "asleep"
    BY <1>7, <2>1, <2>3
  <2>4. CASE f.pc = "get"
    <3>1. f.i = i + 1 /\ f.got = 0 /\ i <= last /\ g + n = need
      BY <1>3, <1>6, <1>7, <2>4
    <3>2. TakenBy(f) = ((1..((i + 1) - 1)) \X (1..need)) \cup ({i + 1} \X (1..0))
      BY <2>1, <2>4, <3>1
    <3>3. (i + 1) - 1 = i /\ {i + 1} \X (1..0) = {}
      BY <1>6
    <3>4. QED
      BY <2>2, <3>1, <3>2, <3>3
  <2>5. CASE f.pc = "set" /\ i = last
    <3>1. f.master = None /\ g + n = need
      BY <1>3, <1>4, <1>6, <1>7, <2>5
    <3>2. QED
      BY <2>1, <2>2, <2>5, <3>1
  <2>6. CASE f.pc = "set" /\ i = last + 1
    <3>1. f.master # None /\ g + n = 1
      BY <1>3, <1>4, <1>6, <1>7, <2>6, JobCallsAssumption
    <3>2. {i} \X (1..1) = {<<i, 1>>} /\ i - 1 = last
      BY <1>3, <2>6
    <3>3. QED
      BY <2>1, <2>6, <3>1, <3>2
  <2>7. QED
    BY <1>3, <1>6, <1>7, <2>3, <2>4, <2>5, <2>6
<1>9. TakenBy(e) = ((1..(i - 1)) \X (1..need)) \cup ({i} \X (1..g))
  BY <1>1, TakenCases
<1>10. Obtains(t, i, g + 1, g + n)
  <2>1. Taken(t) = TakenBy(e) /\ Taken(t)' = TakenBy(f)
        /\ \A k : PlaceRank(t, k) = PlaceOf(e, k) /\ PlaceRank(t, k)' = PlaceOf(f, k)
    BY ByFrame, ByFrameThen
  <2>2. /\ {i} \X (1..(g + n)) = ({i} \X (1..g)) \cup ({i} \X ((g + 1)..(g + n)))
        /\ ((1..(i - 1)) \X (1..need)) \cap ({i} \X ((g + 1)..(g + n))) = {}
        /\ ({i} \X (1..g)) \cap ({i} \X ((g + 1)..(g + n))) = {}
    <3>1. i \in Nat \ {0} /\ need \in Nat /\ g \in Nat /\ n \in Nat
      BY <1>3, <1>6
    <3>2. /\ (1..i) \X (1..need) = ((1..(i - 1)) \X (1..need)) \cup ({i} \X (1..need))
          /\ {i} \X (1..(g + n)) = ({i} \X (1..g)) \cup ({i} \X ((g + 1)..(g + n)))
          /\ ((1..(i - 1)) \X (1..need)) \cap ({i} \X ((g + 1)..(g + n))) = {}
          /\ ({i} \X (1..g)) \cap ({i} \X ((g + 1)..(g + n))) = {}
      BY <3>1, RangeFacts, SMTT(60)
    <3>3. QED
      BY <3>2, Zenon
  <2>3. TakenBy(f) = TakenBy(e) \cup ({i} \X ((g + 1)..(g + n)))
        /\ TakenBy(e) \cap ({i} \X ((g + 1)..(g + n))) = {}
    BY <1>8, <1>9, <2>2
  <2>4. \A x \in TakenBy(f) : x[1] \in 1..i
    BY <1>6, <1>8
  <2>5. \A k \in 1..i : PlaceOf(f, k) = PlaceOf(e, k)
    BY <1>3, <1>6, <1>7 DEF PlaceOf
  <2>6. g + 1 \in Int /\ g + n \in Int /\ g + 1 <= (g + n) + 1
    BY <1>6
  <2>7. QED
    BY <2>1, <2>3, <2>4, <2>5, <2>6 DEF Obtains
<1>11. FrameOK(f)
  <2>1. f.got \in 0..Wants(f)
    <3>1. CASE f.pc = "asleep"
      <4>1. Wants(f) = want
        BY <1>7, <3>1 DEF Wants, Wanted
      <4>2. ASSUME NEW w \in {1, 2}, NEW h \in Nat, NEW m \in Nat, h + m <= w
            PROVE  h + m \in 0..w
        BY <4>2
      <4>3. g + n \in 0..want
        BY <1>3, <1>6, <4>2, Zenon
      <4>4. QED
        BY <1>7, <3>1, <4>1, <4>3
    <3>2. CASE f.pc # "asleep"
      <4>1. f.got = 0 /\ f.id = id
        BY <1>7, <3>2
      <4>2. Wants(f) \in {1, 2}
        BY <1>3, <4>1 DEF Wants
      <4>3. QED
        BY <4>1, <4>2
    <3>3. QED
      BY <3>1, <3>2
  <2>2. CASE f.pc = "asleep"
    BY <1>4, <1>7, <2>1, <2>2 DEF FrameOK, Inline
  <2>3. CASE f.pc = "get" /\ i < last
    BY <1>3, <1>4, <1>7, <2>1, <2>3 DEF FrameOK, Inline
  <2>4. CASE f.pc = "get" /\ i = last
    BY <1>3, <1>4, <1>7, <2>1, <2>4 DEF FrameOK, Inline
  <2>5. CASE f.pc = "set"
    <3>1. IF UsesMaster(Call(id)) THEN f.master \in RankSet(id) ELSE f.master = None
      BY <1>3, <1>4, <1>7, <2>5
    <3>2. QED
      BY <1>7, <2>5, <3>1 DEF FrameOK, Inline
  <2>6. QED
    BY <1>7, <2>2, <2>3, <2>4, <2>5
<1>12. MastersKept /\ LostGrows /\ LostKept
  BY <1>1, CallSame
<1>13. SlotTypes'
  <2>1. avail' \in [Ranks -> Nat]
    BY <1>1, <1>2, <1>5, <1>6 DEF SlotTypes
  <2>2. QED
    BY <1>1, <1>2, <2>1 DEF SlotTypes
<1>14. MasterOf'
  BY <1>1, <1>2, <1>12, MasterStays, StaysFresh DEF Submitting
<1>15. ASSUME NEW r \in Ranks
      PROVE  Balanced(r)'
  <2>1. Balanced(r)
    BY <1>1, <1>2 DEF Balance
  <2>2. n \in Int /\ n = ((g + n) - (g + 1)) + 1
    BY <1>6
  <2>3. OthersSame(t)
    BY FrameSlots
  <2>4. jobs' = jobs /\ avail' = [avail EXCEPT ![s] = @ - n] /\ MastersKept /\ LostGrows
    BY <1>1, <1>12
  <2>5. ASSUME NEW a, a = g + 1, NEW b, b = g + n
        PROVE  Balanced(r)'
    <3>1. Obtains(t, i, a, b) /\ n = (b - a) + 1
      BY <1>10, <2>2, <2>5
    <3>2. SlotTypes /\ s \in Ranks /\ s = PlaceRank(t, i) /\ n \in Int
      BY <1>2, <1>5, <2>2
    <3>3. QED
      BY <2>1, <2>3, <2>4, <3>1, <3>2, BalanceGets, ZenonT(60)
  <2>6. QED
    BY <2>5
<1>16. QED
  BY <1>11, <1>13, <1>14, <1>15 DEF KeepsSlots

LEMMA PartsIs ==
  ASSUME NEW t, program' = program, NEW e, e = api[t], NEW f, f = api'[t],
         NEW k, NEW a \in Int, NEW b \in Int, a <= b + 1,
         TakenBy(e) = TakenBy(f) \cup ({k} \X (a..b)), TakenBy(f) \cap ({k} \X (a..b)) = {},
         \A s \in TakenBy(f) : PlaceOf(f, s[1]) = PlaceOf(e, s[1])
  PROVE  Parts(t, k, a, b)
<1>1. Taken(t) = TakenBy(e) /\ Taken(t)' = TakenBy(f)
      /\ \A p : PlaceRank(t, p) = PlaceOf(e, p) /\ PlaceRank(t, p)' = PlaceOf(f, p)
  BY ByFrame, ByFrameThen
<1>2. QED
  BY <1>1 DEF Parts

(* Frames that agree put their slots in the same places. *)
LEMMA SamePlaces ==
  ASSUME NEW e, NEW f, f.id = e.id, NEW last, last = Len(RanksOf(e.id))
  PROVE  \A k : k <= last \/ f.master = e.master => PlaceOf(f, k) = PlaceOf(e, k)
BY DEF PlaceOf

LEMMA GetFailsKeeps ==
  ASSUME Shapes, Frames, SlotInv, program' = program, NEW t \in Threads, FramesKept(t), GetFails(t),
         NEW e, e = api[t], NEW f, f = api'[t], NEW id, id = e.id, NEW last, last = Len(RanksOf(id)),
         NEW need, need = Need(id), NEW i, i = e.i, NEW g, g = e.got, NEW s, s = SlotRank(t),
         NEW want, want = Wanted(t), NEW lost, lost = call[id].lost \cup (IF g = 0 THEN {} ELSE {s})
  PROVE  KeepsSlots(t)
<1>1. e.pc = "get" /\ ~undefined /\ UNCHANGED <<jobs, avail, outcome, undefined>>
  BY DEF GetFails, At, fifos, flags
<1>2. SlotTypes /\ MasterOf /\ Balance /\ SlotFrames
  BY DEF SlotInv
<1>3. /\ id \in Ids(program) /\ RanksOf(id) \in Seq(Ranks) /\ last \in Nat \ {0} /\ need \in {1, 2}
      /\ RankSet(id) \subseteq Ranks
      /\ \A k \in 1..last : PlaceRank(t, k) = RanksOf(id)[k] /\ RanksOf(id)[k] \in Ranks
      /\ \A k : ~(k <= last) => PlaceRank(t, k) = e.master
      /\ want \in {1, 2} /\ (i \in Int /\ i <= last => want = need) /\ (i = last + 1 => want = 1)
      /\ i \in 1..(last + 1) /\ g \in 0..want /\ ~e.inline
      /\ IF i <= last THEN e.master = None ELSE UsesMaster(Call(id)) /\ e.master \in RankSet(id)
      /\ s \in Ranks /\ s = PlaceRank(t, i)
  BY <1>1, <1>2, GetFacts
<1>4. i \in Nat \ {0} /\ i <= last + 1 /\ g \in Nat /\ need \in Nat
  BY <1>3
<1>5. \/ /\ i = 1 /\ f.pc = "idle"
         /\ call' = [call EXCEPT ![id].answer = "error", ![id].lost = lost]
      \/ /\ i > 1 /\ f.pc = "unget" /\ f.got = 1 /\ f.i = i /\ f.id = id
         /\ call' = [call EXCEPT ![id].lost = lost]
  <2>1. /\ DOMAIN api = Threads /\ DOMAIN api[t] = ApiFields
    BY DEF Shapes
  <2>2. \/ /\ i = 1 /\ api' = [api EXCEPT ![t] = Idle(@.todo)]
           /\ call' = [call EXCEPT ![id].answer = "error", ![id].lost = lost]
        \/ /\ i > 1 /\ api' = [api EXCEPT ![t].pc = "unget", ![t].got = 1]
           /\ call' = [call EXCEPT ![id].lost = lost]
    BY DEF GetFails
  <2>3. QED
    BY <2>1, <2>2 DEF Idle, ApiFields
<1>6. /\ DOMAIN call = Ids(program) /\ DOMAIN call' = Ids(program) /\ call'[id].lost = lost
      /\ \A x \in Ids(program) : call'[x].master = call[x].master
      /\ \A x \in Ids(program) \ {id} : call'[x].lost = call[x].lost
  <2>1. DOMAIN call = Ids(program) /\ DOMAIN call[id] = CallFields
    BY <1>3 DEF Shapes
  <2>2. QED
    BY <1>3, <1>5, <2>1 DEF CallFields
<1>7. MastersKept /\ LostGrows /\ (g # 0 => Robbed(s)')
  BY <1>3, <1>6 DEF MastersKept, LostGrows, Robbed
<1>8. SlotTypes'
  <2>1. lost \subseteq Ranks
    BY <1>2, <1>3 DEF SlotTypes
  <2>2. QED
    BY <1>1, <1>2, <1>6, <2>1 DEF SlotTypes
<1>9. FrameOK(f)
  <2>1. CASE f.pc = "idle"
    BY <2>1 DEF FrameOK, Inline
  <2>2. CASE f.pc # "idle"
    <3>1. f.pc = "unget" /\ f.id = id /\ f.i \in 1..(last + 1) /\ f.got \in 1..(f.i - 1)
      BY <1>3, <1>4, <1>5, <2>2
    <3>2. QED
      BY <3>1 DEF FrameOK, Inline
  <2>3. QED
    BY <2>1, <2>2
<1>10. MasterOf'
  BY <1>1, <1>2, <1>7, MasterStays, StaysFresh DEF Submitting
<1>11. /\ TakenBy(e) = ((1..(i - 1)) \X (1..need)) \cup ({i} \X (1..g))
       /\ ((1..(i - 1)) \X (1..need)) \cap ({i} \X (1..g)) = {}
  <2>1. TakenBy(e) = ((1..(i - 1)) \X (1..need)) \cup ({i} \X (1..g))
    BY <1>1, TakenCases
  <2>2. i \notin 1..(i - 1)
    BY <1>4
  <2>3. QED
    BY <2>1, <2>2
<1>12. TakenBy(f) = (1..(i - 1)) \X (1..need)
  <2>1. CASE f.pc = "idle"
    <3>1. TakenBy(f) = {}
      BY <2>1, TakenCases DEF Inline
    <3>2. i = 1
      BY <1>5, <2>1
    <3>3. (1..(1 - 1)) \X (1..need) = {}
      OBVIOUS
    <3>4. QED
      BY <3>1, <3>2, <3>3
  <2>2. CASE f.pc # "idle"
    <3>1. f.pc = "unget" /\ f.got = 1 /\ f.i = i /\ f.id = id
      BY <1>5, <2>2
    <3>2. QED
      BY <3>1, TakenCases
  <2>3. QED
    BY <2>1, <2>2
<1>13. \A x \in TakenBy(f) : PlaceOf(f, x[1]) = PlaceOf(e, x[1])
  <2>1. CASE f.pc = "idle"
    <3>1. TakenBy(f) = {}
      BY <2>1, TakenCases DEF Inline
    <3>2. QED
      BY <3>1
  <2>2. CASE f.pc # "idle"
    <3>1. f.id = id
      BY <1>5, <2>2
    <3>2. \A k : k <= last \/ f.master = e.master => PlaceOf(f, k) = PlaceOf(e, k)
      BY <3>1, SamePlaces
    <3>3. \A x \in TakenBy(f) : x[1] \in 1..(i - 1)
      BY <1>12
    <3>4. \A k \in 1..(i - 1) : k <= last
      BY <1>3, <1>4
    <3>5. QED
      BY <3>2, <3>3, <3>4
  <2>3. QED
    BY <2>1, <2>2
<1>14. Parts(t, i, 1, g)
  <2>1. 1 \in Int /\ g \in Int /\ 1 <= g + 1
    BY <1>4
  <2>2. TakenBy(e) = TakenBy(f) \cup ({i} \X (1..g)) /\ TakenBy(f) \cap ({i} \X (1..g)) = {}
    BY <1>11, <1>12
  <2>3. QED
    BY <1>13, <2>1, <2>2, PartsIs
<1>15. ASSUME NEW r \in Ranks
       PROVE  Balanced(r)'
  <2>1. Balanced(r)
    BY <1>1, <1>2 DEF Balance
  <2>2. g \in Nat /\ g = (g - 1) + 1
    BY <1>4
  <2>3. OthersSame(t)
    BY FrameSlots
  <2>4. jobs' = jobs /\ avail' = avail /\ SlotTypes /\ s = PlaceRank(t, i)
    BY <1>1, <1>2, <1>3
  <2>5. QED
    BY <1>7, <1>14, <2>1, <2>2, <2>3, <2>4, BalanceLoses
<1>16. QED
  BY <1>8, <1>9, <1>10, <1>15 DEF KeepsSlots

LEMMA RangeHead ==
  ASSUME NEW k \in Nat, NEW m \in Nat, k <= m, NEW B
  PROVE  /\ (k..m) \X B = (((k + 1)..m) \X B) \cup ({k} \X B)
         /\ (((k + 1)..m) \X B) \cap ({k} \X B) = {}
<1>1. k..m = ((k + 1)..m) \cup {k} /\ k \notin (k + 1)..m
  OBVIOUS
<1>2. ASSUME NEW A, NEW C
      PROVE  (A \cup C) \X B = (A \X B) \cup (C \X B)
  OBVIOUS
<1>3. (k..m) \X B = (((k + 1)..m) \X B) \cup ({k} \X B)
  BY <1>1, <1>2, Zenon
<1>4. QED
  BY <1>1, <1>3

LEMMA UngetKeeps ==
  ASSUME Shapes, Frames, SlotInv, program' = program, NEW t \in Threads, FramesKept(t), Unget(t),
         NEW e, e = api[t], NEW f, f = api'[t], NEW id, id = e.id, NEW last, last = Len(RanksOf(id)),
         NEW need, need = Need(id), NEW i, i = e.i, NEW k, k = e.got, NEW s, s = RanksOf(id)[k]
  PROVE  KeepsSlots(t)
<1>1. /\ e.pc = "unget" /\ ~undefined /\ UNCHANGED <<jobs, outcome, undefined>>
      /\ avail' = [avail EXCEPT ![s] = @ + need]
  BY DEF Unget, At, fifos, flags
<1>2. SlotTypes /\ MasterOf /\ Balance /\ SlotFrames /\ FrameOK(e)
  BY DEF SlotInv, SlotFrames
<1>3. /\ id \in Ids(program) /\ last \in Nat \ {0} /\ need \in {1, 2}
      /\ \A x \in 1..last : PlaceRank(t, x) = RanksOf(id)[x] /\ RanksOf(id)[x] \in Ranks
  <2>1. e.pc \notin {"idle", "join"}
    BY <1>1
  <2>2. /\ id \in Ids(program) /\ Call(id).op # "free"
        /\ RanksOf(id) \in Seq(Ranks) /\ last \in Nat \ {0} /\ need \in {1, 2}
        /\ RankSet(id) \subseteq Ranks
        /\ \A x \in 1..last : PlaceRank(t, x) = RanksOf(id)[x] /\ RanksOf(id)[x] \in Ranks
    BY <1>2, <2>1, PlaceFacts
  <2>3. QED
    BY <2>2
<1>4. i \in 1..(last + 1) /\ k \in 1..(i - 1)
  BY <1>1, <1>2 DEF FrameOK
<1>5. k \in Nat /\ i - 1 \in Nat /\ k <= i - 1 /\ i \in Nat /\ k \in 1..last
  BY <1>3, <1>4
<1>6. s \in Ranks /\ s = PlaceRank(t, k)
  BY <1>3, <1>5
<1>7. \/ f.pc = "unget" /\ f.got = k + 1 /\ f.i = i /\ f.id = id /\ k + 1 < i /\ call' = call
      \/ f.pc = "idle" /\ k + 1 = i /\ Return(t, "error")
  <2>1. /\ DOMAIN api = Threads /\ DOMAIN api[t] = ApiFields
    BY DEF Shapes
  <2>2. \/ k + 1 < i /\ api' = [api EXCEPT ![t].got = k + 1] /\ call' = call
        \/ k + 1 = i /\ Return(t, "error")
    BY DEF Unget
  <2>3. Return(t, "error") => api'[t].pc = "idle"
    BY <2>1 DEF Return, Idle
  <2>4. QED
    BY <1>1, <2>1, <2>2, <2>3 DEF ApiFields
<1>8. MastersKept /\ LostKept /\ LostGrows
  BY <1>7, CallSame, ReturnSame
<1>9. SlotTypes'
  <2>1. avail' \in [Ranks -> Nat]
    BY <1>1, <1>2, <1>3, <1>6 DEF SlotTypes
  <2>2. QED
    BY <1>2, <1>8, <2>1 DEF SlotTypes, MastersKept, LostKept
<1>10. FrameOK(f)
  <2>1. CASE f.pc = "idle"
    BY <2>1 DEF FrameOK, Inline
  <2>2. CASE f.pc # "idle"
    <3>1. f.pc = "unget" /\ f.got = k + 1 /\ f.i = i /\ f.id = id /\ k + 1 < i
      BY <1>7, <2>2, Zenon
    <3>2. f.i \in 1..(last + 1) /\ f.got \in 1..(f.i - 1)
      BY <1>4, <1>5, <3>1
    <3>3. QED
      BY <3>1, <3>2 DEF FrameOK, Inline
  <2>3. QED
    BY <2>1, <2>2
<1>11. MasterOf'
  BY <1>1, <1>2, <1>8, MasterStays, StaysFresh DEF Submitting
<1>12. TakenBy(e) = (k..(i - 1)) \X (1..need)
  BY <1>1, TakenCases
<1>13. TakenBy(f) = ((k + 1)..(i - 1)) \X (1..need)
  <2>1. CASE f.pc = "idle"
    <3>1. TakenBy(f) = {}
      BY <2>1, TakenCases DEF Inline
    <3>2. (k + 1)..(i - 1) = {}
      BY <1>5, <1>7, <2>1
    <3>3. QED
      BY <3>1, <3>2
  <2>2. CASE f.pc # "idle"
    <3>1. f.pc = "unget" /\ f.got = k + 1 /\ f.i = i /\ f.id = id
      BY <1>7, <2>2
    <3>2. QED
      BY <3>1, TakenCases
  <2>3. QED
    BY <2>1, <2>2
<1>14. \A x \in TakenBy(f) : PlaceOf(f, x[1]) = PlaceOf(e, x[1])
  <2>1. \A x \in TakenBy(f) : x[1] \in (k + 1)..(i - 1)
    BY <1>13
  <2>2. CASE f.pc = "idle"
    <3>1. (k + 1)..(i - 1) = {}
      BY <1>5, <1>7, <2>2
    <3>2. QED
      BY <2>1, <3>1
  <2>3. CASE f.pc # "idle"
    <3>1. f.id = id
      BY <1>7, <2>3
    <3>2. \A x : x <= last \/ f.master = e.master => PlaceOf(f, x) = PlaceOf(e, x)
      BY <3>1, SamePlaces
    <3>3. \A x \in (k + 1)..(i - 1) : x <= last
      BY <1>3, <1>4, <1>5
    <3>4. QED
      BY <2>1, <3>2, <3>3
  <2>4. QED
    BY <2>2, <2>3
<1>15. Parts(t, k, 1, need)
  <2>1. 1 \in Int /\ need \in Int /\ 1 <= need + 1
    BY <1>3
  <2>2. TakenBy(e) = TakenBy(f) \cup ({k} \X (1..need)) /\ TakenBy(f) \cap ({k} \X (1..need)) = {}
    BY <1>5, <1>12, <1>13, RangeHead
  <2>3. QED
    BY <1>14, <2>1, <2>2, PartsIs
<1>16. ASSUME NEW r \in Ranks
       PROVE  Balanced(r)'
  <2>1. Balanced(r)
    BY <1>1, <1>2 DEF Balance
  <2>2. OthersSame(t)
    BY FrameSlots
  <2>3. need \in Int /\ need = (need - 1) + 1 /\ 1 \in Int
    BY <1>3
  <2>4. SlotTypes /\ jobs' = jobs /\ avail' = [avail EXCEPT ![s] = @ + need]
    BY <1>1, <1>2
  <2>5. ASSUME NEW a, a = 1, NEW b, b = need
        PROVE  Balanced(r)'
    <3>1. Parts(t, k, a, b) /\ need = (b - a) + 1
      BY <1>15, <2>3, <2>5
    <3>2. s \in Ranks /\ s = PlaceRank(t, k) /\ MastersKept /\ LostGrows
      BY <1>6, <1>8
    <3>3. QED
      BY <2>1, <2>2, <2>3, <2>4, <3>1, <3>2, BalanceReturns, ZenonT(60)
  <2>6. QED
    BY <2>5
<1>17. QED
  BY <1>1, <1>9, <1>10, <1>11, <1>16 DEF KeepsSlots

(* A call that is about to set its jobs up has no master job. *)
LEMMA NoMasterYet ==
  ASSUME Mindful, PendingFresh, MasterOf, NEW t \in Threads, api[t].pc = "set", NEW id, id = api[t].id
  PROVE  call[id].master = None
<1>1. SUFFICES ASSUME call[id].master # None PROVE FALSE
  OBVIOUS
<1>2. id \in Ids(program) /\ id \in Mine(t) /\ Fresh(id)
  BY DEF Mindful, Frames, Mine, PendingFresh
<1>3. PICK u \in Threads : api[u].id = id /\ api[u].pc \in Submitting
  BY <1>1, <1>2 DEF MasterOf
<1>4. u # t /\ id \in Mine(u)
  BY <1>2, <1>3 DEF Mine, Submitting
<1>5. QED
  BY <1>2, <1>4, MineApart

LEMMA SetJobsKeeps ==
  ASSUME Shapes, Mindful, PendingFresh, SlotInv, program' = program, NEW t \in Threads, FramesKept(t),
         SetJobs(t), NEW e, e = api[t], NEW f, f = api'[t], NEW id, id = e.id,
         NEW last, last = Len(RanksOf(id)), NEW need, need = Need(id), NEW s, s = e.master
  PROVE  KeepsSlots(t)
<1>1. e.pc = "set" /\ ~undefined /\ UNCHANGED <<jobs, avail, outcome>>
  BY DEF SetJobs, At, fifos
<1>2. SlotTypes /\ MasterOf /\ Balance /\ SlotFrames /\ FrameOK(e) /\ Frames
  BY DEF SlotInv, SlotFrames, Mindful
<1>3. /\ id \in Ids(program) /\ last \in Nat \ {0} /\ need \in {1, 2} /\ RankSet(id) \subseteq Ranks
      /\ \A k : ~(k <= last) => PlaceRank(t, k) = s
  <2>1. e.pc \notin {"idle", "join"}
    BY <1>1
  <2>2. /\ id \in Ids(program) /\ Call(id).op # "free"
        /\ RanksOf(id) \in Seq(Ranks) /\ last \in Nat \ {0} /\ need \in {1, 2}
        /\ RankSet(id) \subseteq Ranks
        /\ \A x \in 1..last : PlaceRank(t, x) = RanksOf(id)[x] /\ RanksOf(id)[x] \in Ranks
        /\ \A k : ~(k <= last) => PlaceRank(t, k) = api[t].master
    BY <1>2, <2>1, PlaceFacts
  <2>3. QED
    BY <2>2
<1>4. IF UsesMaster(Call(id)) THEN s \in RankSet(id) /\ ~e.inline ELSE s = None
  BY <1>1, <1>2 DEF FrameOK
<1>5. call[id].master = None
  BY <1>1, <1>2, NoMasterYet
<1>6. CASE api' = api /\ call' = call /\ undefined'
  <2>1. f = e
    BY <1>6
  <2>2. Taken(t)' = Taken(t) /\ \A k : PlaceRank(t, k)' = PlaceRank(t, k)
    <3>1. Taken(t) = TakenBy(e) /\ \A k : PlaceRank(t, k) = PlaceOf(e, k)
      BY ByFrame
    <3>2. Taken(t)' = TakenBy(f) /\ \A k : PlaceRank(t, k)' = PlaceOf(f, k)
      BY ByFrameThen
    <3>3. QED
      BY <2>1, <3>1, <3>2
  <2>3. MastersKept /\ LostKept
    BY <1>6, CallSame
  <2>4. FrameOK(f)
    BY <1>2, <2>1
  <2>5. QED
    BY <1>1, <1>6, <2>2, <2>3, <2>4, NothingMoves DEF Submitting
<1>7. CASE /\ \E pc \in {"do", "dostale"} : api' = [api EXCEPT ![t].pc = pc]
           /\ call' = [call EXCEPT ![id].master = s] /\ undefined' = undefined
  <2>1. /\ f.pc \in {"do", "dostale"} /\ f.id = id /\ f.master = s
        /\ (f.inline <=> e.inline) /\ (f.inline = e.inline)
    BY <1>7 DEF Shapes, ApiFields
  <2>2. /\ DOMAIN call = Ids(program) /\ DOMAIN call' = Ids(program) /\ call'[id].master = s
        /\ \A x \in Ids(program) : call'[x].lost = call[x].lost
        /\ \A x \in Ids(program) : x # id => call'[x].master = call[x].master
    BY <1>3, <1>7 DEF Shapes, CallFields
  <2>3. LostKept /\ LostGrows
    BY <2>2 DEF LostKept, LostGrows
  <2>4. FrameOK(f)
    BY <1>4, <2>1 DEF FrameOK, Inline
  <2>5. CASE s = None
    <3>1. MastersKept
      BY <1>5, <2>2, <2>5 DEF MastersKept
    <3>2. TakenBy(f) = TakenBy(e)
      <4>1. CASE e.inline
        <5>1. TakenBy(e) = {}
          BY <1>1, <4>1, TakenCases
        <5>2. TakenBy(f) = {}
          BY <2>1, <4>1, TakenCases
        <5>3. QED
          BY <5>1, <5>2
      <4>2. CASE ~e.inline
        <5>1. TakenBy(e) = (1..last) \X (1..need)
          <6>1. e.pc = "set" /\ ~e.inline /\ e.master = None
            BY <1>1, <2>5, <4>2
          <6>2. QED
            BY <6>1, TakenCases
        <5>2. TakenBy(f) = (1..last) \X (1..need)
          BY <2>1, <4>2, TakenCases
        <5>3. QED
          BY <5>1, <5>2
      <4>3. QED
        BY <4>1, <4>2
    <3>3. \A k : PlaceOf(f, k) = PlaceOf(e, k)
      BY <2>1, SamePlaces
    <3>4. Taken(t)' = Taken(t) /\ \A x \in Taken(t) : PlaceRank(t, x[1])' = PlaceRank(t, x[1])
      BY <3>2, <3>3, ByFrame, ByFrameThen
    <3>5. QED
      BY <1>1, <1>7, <2>3, <2>4, <3>1, <3>4, NothingMoves DEF Submitting
  <2>6. CASE s # None
    <3>1. UsesMaster(Call(id)) /\ s \in RankSet(id) /\ ~e.inline /\ s \in Ranks
      BY <1>3, <1>4, <2>6
    <3>2. SlotTypes'
      BY <1>1, <1>2, <2>2, <3>1 DEF SlotTypes
    <3>3. MasterOf'
      <4>1. ASSUME NEW x \in Ids(program), call'[x].master # None
            PROVE  /\ UsesMaster(Call(x))'
                   /\ Fresh(x)' => \E u \in Threads : api'[u].id = x /\ api'[u].pc \in Submitting
        <5>1. CASE x = id
          <6>1. UsesMaster(Call(x))'
            BY <3>1, <5>1 DEF Call
          <6>2. QED
            BY <2>1, <5>1, <6>1 DEF Submitting
        <5>2. CASE x # id
          <6>1. call[x].master # None
            BY <2>2, <4>1, <5>2
          <6>2. UsesMaster(Call(x)) /\ (Fresh(x) => \E u \in Threads : api[u].id = x /\ api[u].pc \in Submitting)
            BY <1>2, <6>1 DEF MasterOf
          <6>3. UsesMaster(Call(x))'
            BY <6>2 DEF Call
          <6>4. ASSUME Fresh(x)' PROVE \E u \in Threads : api'[u].id = x /\ api'[u].pc \in Submitting
            <7>1. PICK u \in Threads : api[u].id = x /\ api[u].pc \in Submitting
              BY <1>1, <6>2, <6>4, StaysFresh
            <7>2. u # t
              BY <5>2, <7>1
            <7>3. QED
              BY <7>1, <7>2 DEF FramesKept
          <6>5. QED
            BY <6>3, <6>4
        <5>3. QED
          BY <5>1, <5>2
      <4>2. QED
        BY <4>1 DEF MasterOf, Submitting
    <3>4. Parts(t, last + 1, 1, 1)
      <4>1. TakenBy(e) = ((1..last) \X (1..need)) \cup {<<last + 1, 1>>}
        BY <1>1, <2>6, <3>1, TakenCases
      <4>2. TakenBy(f) = (1..last) \X (1..need)
        BY <2>1, <3>1, TakenCases
      <4>3. {last + 1} \X (1..1) = {<<last + 1, 1>>} /\ last + 1 \notin 1..last
        BY <1>3
      <4>4. /\ TakenBy(e) = TakenBy(f) \cup ({last + 1} \X (1..1))
            /\ TakenBy(f) \cap ({last + 1} \X (1..1)) = {}
        BY <4>1, <4>2, <4>3
      <4>5. \A k : PlaceOf(f, k) = PlaceOf(e, k)
        BY <2>1, SamePlaces
      <4>6. QED
        BY <4>4, <4>5, PartsIs
    <3>5. s = PlaceRank(t, last + 1)
      BY <1>3
    <3>6. ASSUME NEW r \in Ranks PROVE Balanced(r)'
      <4>1. Balanced(r)
        BY <1>1, <1>2 DEF Balance
      <4>2. /\ IsFiniteSet(Masters(r)')
            /\ Cardinality(Masters(r)') = Cardinality(Masters(r)) + (IF s = r THEN 1 ELSE 0)
        BY <1>3, <1>5, <2>2, <4>1, MastersGain DEF Balanced
      <4>3. OthersSame(t)
        BY FrameSlots
      <4>4. /\ IsFiniteSet(Held(r)')
            /\ Cardinality(Held(r)') = Cardinality(Held(r)) - (IF r = s THEN (1 - 1) + 1 ELSE 0)
        BY <3>4, <3>5, <4>1, <4>3, HeldGives DEF Balanced
      <4>5. Robbed(r) => Robbed(r)'
        BY <2>2, StaysRobbed
      <4>6. /\ Len(jobs[r]) \in Nat /\ avail[r] \in Nat
            /\ Cardinality(Held(r)) \in Nat /\ Cardinality(Masters(r)) \in Nat
        BY <1>2, <4>1, FS_CardinalityType DEF Balanced, SlotTypes, Shapes
      <4>7. CASE r = s
        <5>1. Adds(r, 0, 0, -1, 1)
          BY <1>1, <4>2, <4>4, <4>6, <4>7 DEF Adds
        <5>2. 0 + 0 + (-1) + 1 = 0 /\ -1 \in Int
          OBVIOUS
        <5>3. QED
          BY <4>1, <4>5, <4>6, <5>1, <5>2, StaysBalanced
      <4>8. CASE r # s
        <5>1. Adds(r, 0, 0, 0, 0)
          BY <1>1, <4>2, <4>4, <4>6, <4>8 DEF Adds
        <5>2. QED
          BY <4>1, <4>5, <4>6, <5>1, StaysBalanced
      <4>9. QED
        BY <4>7, <4>8
    <3>7. QED
      BY <2>4, <3>2, <3>3, <3>6 DEF KeepsSlots
  <2>7. QED
    BY <2>5, <2>6
<1>8. QED
  BY <1>1, <1>6, <1>7 DEF SetJobs

LEMMA DoJobsKeeps ==
  ASSUME Shapes, Frames, SlotInv, program' = program, NEW t \in Threads, FramesKept(t), DoJobs(t),
         NEW e, e = api[t], NEW f, f = api'[t], NEW id, id = e.id,
         NEW last, last = Len(RanksOf(id)), NEW need, need = Need(id)
  PROVE  KeepsSlots(t)
<1>1. e.pc \in {"do", "dostale"} /\ UNCHANGED <<jobs, avail, outcome, call>>
  BY DEF DoJobs, At, fifos
<1>2. FrameOK(e) /\ e.i = 1
  BY <1>1 DEF SlotInv, SlotFrames, Frames
<1>3. MastersKept /\ LostKept
  BY <1>1, CallSame
<1>4. Taken(t) = TakenBy(e) /\ \A k : PlaceRank(t, k) = PlaceOf(e, k)
  BY ByFrame
<1>5. Taken(t)' = TakenBy(f) /\ \A k : PlaceRank(t, k)' = PlaceOf(f, k)
  BY ByFrameThen
<1>6. CASE api' = api /\ undefined'
  <2>1. f = e
    BY <1>6
  <2>2. Taken(t)' = Taken(t) /\ \A x \in Taken(t) : PlaceRank(t, x[1])' = PlaceRank(t, x[1])
    BY <1>4, <1>5, <2>1
  <2>3. FrameOK(f)
    BY <1>2, <2>1
  <2>4. QED
    BY <1>1, <1>3, <1>6, <2>1, <2>2, <2>3, NothingMoves
<1>7. CASE undefined' = undefined /\ (\/ RunsInline(id) /\ api' = [api EXCEPT ![t].pc = "inline"]
                                      \/ ~e.inline /\ api' = [api EXCEPT ![t].pc = "add"])
  <2>1. /\ f.id = id /\ f.i = 1 /\ f.master = e.master /\ f.inline = e.inline
        /\ \/ RunsInline(id) /\ f.pc = "inline"
           \/ ~e.inline /\ f.pc = "add"
    BY <1>2, <1>7 DEF Shapes, ApiFields
  <2>2. \A k : PlaceOf(f, k) = PlaceOf(e, k)
    BY <2>1, SamePlaces
  <2>3. TakenBy(f) = TakenBy(e)
    <3>1. CASE e.inline
      <4>1. TakenBy(e) = {}
        BY <1>1, <3>1, TakenCases
      <4>2. TakenBy(f) = {}
        BY <2>1, <3>1, TakenCases DEF Inline
      <4>3. QED
        BY <4>1, <4>2
    <3>2. CASE ~e.inline
      <4>1. TakenBy(e) = (1..last) \X (1..need)
        BY <1>1, <3>2, TakenCases
      <4>2. CASE f.pc = "inline"
        <5>1. TakenBy(f) = (1..last) \X (1..need)
          BY <2>1, <3>2, <4>2, TakenCases DEF Inline
        <5>2. QED
          BY <4>1, <5>1
      <4>3. CASE f.pc = "add"
        <5>1. TakenBy(f) = (1..last) \X (1..need)
          BY <2>1, <4>3, TakenCases
        <5>2. QED
          BY <4>1, <5>1
      <4>4. QED
        BY <2>1, <4>2, <4>3
    <3>3. QED
      BY <3>1, <3>2
  <2>4. Taken(t)' = Taken(t) /\ \A x \in Taken(t) : PlaceRank(t, x[1])' = PlaceRank(t, x[1])
    BY <1>4, <1>5, <2>2, <2>3
  <2>5. RunsInline(id) => last = 1 /\ ~UsesMaster(Call(id))
    BY DEF RunsInline, UsesMaster, RanksOf
  <2>6. FrameOK(f)
    BY <2>1, <2>5 DEF FrameOK, Inline
  <2>7. e.pc \in Submitting /\ UsesMaster(Call(id)) => f.pc \in Submitting /\ f.id = id
    BY <2>1, <2>5 DEF Submitting
  <2>8. QED
    BY <1>1, <1>3, <1>7, <2>4, <2>6, <2>7, NothingMoves
<1>8. QED
  BY <1>6, <1>7 DEF DoJobs

(* Steps of threads that have no slots. *)
Without == {"idle", "added", "wait", "woken", "join"}

LEMMA EmptyKeeps ==
  ASSUME Shapes, SlotInv, program' = program, NEW t \in Threads, FramesKept(t), outcome' = outcome,
         avail' = avail, jobs' = jobs, MastersKept, LostKept, ~undefined,
         api[t].pc \in Without, api'[t].pc \in Without
  PROVE  KeepsSlots(t)
<1>1. Taken(t) = {}
  <2>1. ASSUME NEW e, e = api[t] PROVE Taken(t) = {}
    <3>1. TakenBy(e) = {}
      BY <2>1, TakenCases DEF Without, Inline
    <3>2. QED
      BY <2>1, <3>1, ByFrame
  <2>2. QED
    BY <2>1
<1>2. Taken(t)' = {}
  <2>1. ASSUME NEW f, f = api'[t] PROVE Taken(t)' = {}
    <3>1. TakenBy(f) = {}
      BY <2>1, TakenCases DEF Without, Inline
    <3>2. QED
      BY <2>1, <3>1, ByFrameThen
  <2>2. QED
    BY <2>1
<1>3. FrameOK(api'[t])
  BY DEF FrameOK, Without, Inline
<1>4. api[t].pc \notin Submitting
  BY DEF Without, Submitting
<1>5. QED
  BY <1>1, <1>2, <1>3, <1>4, NothingMoves

LEMMA QuietKeeps ==
  ASSUME Shapes, SlotInv, program' = program, NEW t \in Threads, FramesKept(t),
         Added(t) \/ Woken(t) \/ FreeSet(t) \/ Joined(t)
  PROVE  KeepsSlots(t)
<1>1. UNCHANGED <<outcome, avail, jobs>> /\ api[t].pc \in Without /\ ~undefined
  BY DEF Added, Woken, FreeSet, Joined, fifos, At, Without
<1>2. call' = call \/ \E answer : Return(t, answer)
  BY DEF Added, Woken, FreeSet, Joined
<1>3. MastersKept /\ LostKept
  BY <1>2, CallSame, ReturnSame
<1>4. api'[t].pc \in Without
  <2>1. ASSUME NEW answer, Return(t, answer)
        PROVE  api'[t].pc \in Without
    <3>1. api'[t] = Idle(api[t].todo)
      BY <2>1, ReturnSame
    <3>2. QED
      BY <3>1 DEF Idle, Without
  <2>2. CASE api' = [api EXCEPT ![t].pc = "wait", ![t].held = {}]
    BY <2>2 DEF Shapes, ApiFields, Without
  <2>3. CASE FreeSet(t)
    BY <2>3 DEF FreeSet, Idle, Shapes, Without
  <2>4. QED
    BY <2>1, <2>2, <2>3 DEF Added, Woken, Joined
<1>5. QED
  BY <1>1, <1>3, <1>4, EmptyKeeps

(* A job that the thread runs itself. *)
LEMMA InlineGoesKeeps ==
  ASSUME Shapes, SlotInv, program' = program, NEW t \in Threads, FramesKept(t),
         InlineLock(t) \/ InlineLaunch(t) \/ InlinePolled(t), NEW e, e = api[t], NEW f, f = api'[t],
         NEW last, last = Len(RanksOf(e.id)), NEW need, need = Need(e.id)
  PROVE  KeepsSlots(t)
<1>1. /\ UNCHANGED <<outcome, avail, jobs, call>> /\ e.pc \in Inline /\ ~undefined
      /\ \E pc \in Inline : api' = [api EXCEPT ![t].pc = pc]
  BY DEF InlineLock, InlineLaunch, InlinePolled, fifos, At, Inline
<1>2. f.id = e.id /\ f.master = e.master /\ f.inline = e.inline /\ f.pc \in Inline
  BY <1>1 DEF Shapes, ApiFields
<1>3. MastersKept /\ LostKept
  BY <1>1, CallSame
<1>4. FrameOK(e)
  BY DEF SlotInv, SlotFrames
<1>5. FrameOK(f)
  BY <1>1, <1>2, <1>4 DEF FrameOK, Inline
<1>6. \A k : PlaceOf(f, k) = PlaceOf(e, k)
  BY <1>2, SamePlaces
<1>7. TakenBy(f) = TakenBy(e)
  <2>1. CASE e.inline
    <3>1. TakenBy(e) = {}
      BY <1>1, <2>1, TakenCases
    <3>2. TakenBy(f) = {}
      BY <1>2, <2>1, TakenCases
    <3>3. QED
      BY <3>1, <3>2
  <2>2. CASE ~e.inline
    <3>1. TakenBy(e) = (1..last) \X (1..need)
      BY <1>1, <2>2, TakenCases
    <3>2. TakenBy(f) = (1..last) \X (1..need)
      BY <1>2, <2>2, TakenCases
    <3>3. QED
      BY <3>1, <3>2
  <2>3. QED
    BY <2>1, <2>2
<1>8. Taken(t) = TakenBy(e) /\ \A k : PlaceRank(t, k) = PlaceOf(e, k)
  BY ByFrame
<1>9. Taken(t)' = TakenBy(f) /\ \A k : PlaceRank(t, k)' = PlaceOf(f, k)
  BY ByFrameThen
<1>10. Taken(t)' = Taken(t) /\ \A x \in Taken(t) : PlaceRank(t, x[1])' = PlaceRank(t, x[1])
  BY <1>6, <1>7, <1>8, <1>9
<1>11. api[t].pc \notin Submitting
  BY <1>1 DEF Inline, Submitting
<1>12. QED
  BY <1>1, <1>3, <1>5, <1>10, <1>11, NothingMoves

LEMMA InlineEndKeeps ==
  ASSUME Shapes, Frames, SlotInv, program' = program, NEW t \in Threads, FramesKept(t), InlineEnd(t),
         NEW e, e = api[t], NEW f, f = api'[t], NEW id, id = e.id, NEW last, last = Len(RanksOf(id)),
         NEW need, need = Need(id), NEW s, s = InlineRank(t),
         NEW lost, lost = IF e.inline THEN call[id].lost ELSE call[id].lost \cup {s}
  PROVE  KeepsSlots(t)
<1>1. /\ UNCHANGED <<outcome, avail, jobs, undefined>> /\ e.pc \in Inline /\ ~undefined
  BY DEF InlineEnd, flags, fifos, At, Inline
<1>2. SlotTypes /\ MasterOf /\ Balance /\ SlotFrames /\ FrameOK(e)
  BY DEF SlotInv, SlotFrames
<1>3. /\ id \in Ids(program) /\ need \in {1, 2}
      /\ \A x \in 1..last : PlaceRank(t, x) = RanksOf(id)[x] /\ RanksOf(id)[x] \in Ranks
  <2>1. e.pc \notin {"idle", "join"}
    BY <1>1 DEF Inline
  <2>2. /\ id \in Ids(program) /\ Call(id).op # "free"
        /\ RanksOf(id) \in Seq(Ranks) /\ last \in Nat \ {0} /\ need \in {1, 2}
        /\ RankSet(id) \subseteq Ranks
        /\ \A x \in 1..last : PlaceRank(t, x) = RanksOf(id)[x] /\ RanksOf(id)[x] \in Ranks
    BY <1>2, <2>1, PlaceFacts
  <2>3. QED
    BY <2>2
<1>4. last = 1
  BY <1>1, <1>2 DEF FrameOK
<1>5. s \in Ranks /\ s = PlaceRank(t, 1)
  <2>1. s = RanksOf(id)[1] /\ 1 \in 1..last
    BY <1>4 DEF InlineRank
  <2>2. QED
    BY <1>3, <2>1
<1>6. /\ f.pc = "idle"
      /\ \E answer : call' = [call EXCEPT ![id].answer = answer, ![id].lost = lost]
  <2>1. f.pc = "idle"
    BY DEF InlineEnd, Idle, Shapes
  <2>2. PICK failed :
          call' = [call EXCEPT ![api[t].id].answer = IF failed THEN "error" ELSE "ok",
                               ![api[t].id].lost =
                                 IF api[t].inline THEN @ ELSE @ \cup {InlineRank(t)}]
    BY DEF InlineEnd
  <2>3. PICK answer : answer = IF failed THEN "error" ELSE "ok"
    OBVIOUS
  <2>4. DOMAIN call = Ids(program) /\ DOMAIN call[id] = CallFields
    BY <1>3 DEF Shapes
  <2>5. call' = [call EXCEPT ![id].answer = answer, ![id].lost = lost]
    BY <1>3, <2>2, <2>3, <2>4 DEF CallFields
  <2>6. QED
    BY <2>1, <2>5
<1>7. /\ DOMAIN call = Ids(program) /\ DOMAIN call' = Ids(program)
      /\ call'[id].lost = lost
      /\ \A x \in Ids(program) : call'[x].master = call[x].master
      /\ \A x \in Ids(program) : x # id => call'[x].lost = call[x].lost
  <2>1. DOMAIN call = Ids(program) /\ DOMAIN call[id] = CallFields
    BY <1>3 DEF Shapes
  <2>2. PICK answer : call' = [call EXCEPT ![id].answer = answer, ![id].lost = lost]
    BY <1>6
  <2>3. DOMAIN call' = Ids(program) /\ \A x \in Ids(program) \ {id} : call'[x] = call[x]
    BY <2>1, <2>2
  <2>4. call'[id] = [call[id] EXCEPT !.answer = answer, !.lost = lost]
    BY <1>3, <2>1, <2>2
  <2>5. call'[id].lost = lost /\ call'[id].master = call[id].master
    BY <2>1, <2>4 DEF CallFields
  <2>6. QED
    BY <2>1, <2>3, <2>5
<1>8. MastersKept /\ LostGrows
  <2>1. call[id].lost \subseteq lost
    OBVIOUS
  <2>2. QED
    BY <1>7, <2>1 DEF MastersKept, LostGrows
<1>9. TakenBy(f) = {} /\ FrameOK(f)
  BY <1>6, TakenCases DEF FrameOK, Inline
<1>10. CASE e.inline
  <2>1. TakenBy(e) = {}
    BY <1>1, <1>10, TakenCases
  <2>2. Taken(t) = {}
    BY <2>1, ByFrame
  <2>3. Taken(t)' = {}
    BY <1>9, ByFrameThen
  <2>4. LostKept
    BY <1>7, <1>10 DEF LostKept
  <2>5. api[t].pc \notin Submitting
    BY <1>1 DEF Inline, Submitting
  <2>6. QED
    BY <1>1, <1>8, <1>9, <2>2, <2>3, <2>4, <2>5, NothingMoves
<1>11. CASE ~e.inline
  <2>1. TakenBy(e) = {1} \X (1..need)
    <3>1. TakenBy(e) = (1..last) \X (1..need)
      BY <1>1, <1>11, TakenCases
    <3>2. 1..1 = {1}
      OBVIOUS
    <3>3. QED
      BY <1>4, <3>1, <3>2
  <2>2. Parts(t, 1, 1, need)
    <3>1. 1 \in Int /\ need \in Int /\ 1 <= need + 1
      BY <1>3
    <3>2. TakenBy(e) = TakenBy(f) \cup ({1} \X (1..need)) /\ TakenBy(f) \cap ({1} \X (1..need)) = {}
      BY <1>9, <2>1
    <3>3. \A x \in TakenBy(f) : PlaceOf(f, x[1]) = PlaceOf(e, x[1])
      BY <1>9
    <3>4. QED
      BY <3>1, <3>2, <3>3, PartsIs
  <2>3. s \in call'[id].lost /\ Robbed(s)'
    BY <1>3, <1>7, <1>11 DEF Robbed
  <2>4. SlotTypes'
    <3>1. call'[id].lost \subseteq Ranks
      <4>1. call[id].lost \subseteq Ranks
        BY <1>2, <1>3 DEF SlotTypes
      <4>2. lost = call[id].lost \cup {s}
        BY <1>11
      <4>3. QED
        BY <1>5, <1>7, <4>1, <4>2
    <3>2. QED
      BY <1>1, <1>2, <1>7, <3>1 DEF SlotTypes
  <2>5. MasterOf'
    <3>1. api[t].pc \notin Submitting
      BY <1>1 DEF Inline, Submitting
    <3>2. QED
      BY <1>1, <1>2, <1>8, <3>1, MasterStays, StaysFresh
  <2>6. ASSUME NEW r \in Ranks
        PROVE  Balanced(r)'
    <3>1. Balanced(r)
      BY <1>1, <1>2 DEF Balance
    <3>2. need \in Nat /\ need = (need - 1) + 1
      BY <1>3
    <3>3. OthersSame(t)
      BY FrameSlots
    <3>4. jobs' = jobs /\ avail' = avail /\ SlotTypes /\ MastersKept /\ LostGrows
      BY <1>1, <1>2, <1>8
    <3>5. ASSUME NEW k, k = 1, NEW a, a = 1, NEW b, b = need
          PROVE  Balanced(r)'
      <4>1. Parts(t, k, a, b) /\ need = (b - a) + 1 /\ s = PlaceRank(t, k)
        BY <1>5, <2>2, <3>2, <3>5
      <4>2. QED
        BY <2>3, <3>1, <3>2, <3>3, <3>4, <4>1, BalanceLoses, ZenonT(60)
    <3>6. QED
      BY <3>5
  <2>7. QED
    BY <1>9, <2>4, <2>5, <2>6 DEF KeepsSlots
<1>12. QED
  BY <1>10, <1>11

LEMMA BothLong ==
  ASSUME NEW S, NEW q \in Seq(S), NEW b \in Seq(S)
  PROVE  /\ Len(q \o b) = Len(q) + Len(b)
         /\ Len(b) \in {1, 2} => q \o b # q
<1>1. Len(q \o b) = Len(q) + Len(b) /\ Len(q) \in Nat
  OBVIOUS
<1>2. ASSUME Len(b) \in {1, 2}, q \o b = q PROVE FALSE
  <2>1. Len(q) = Len(q) + Len(b)
    BY <1>1, <1>2
  <2>2. QED
    BY <1>1, <1>2, <2>1
<1>3. QED
  BY <1>1, <1>2

(* The jobs of a call are enqueued on a rank, in the slots it has of it. *)
LEMMA AppendsKeeps ==
  ASSUME Good, Frames, PendingFresh, Locked, SlotInv, NEW t \in Threads, Appends(t),
         avail' = avail, undefined' = undefined, ~undefined,
         NEW e, e = api[t], NEW f, f = api'[t], NEW id, id = e.id, NEW last, last = Len(RanksOf(id)),
         NEW need, need = Need(id), NEW i, i = e.i, NEW s, s = AddRank(t)
  PROVE  KeepsSlots(t)
<1>1. /\ e.pc \in {"add", "addqueue"} /\ program' = program /\ call' = call /\ FramesKept(t)
      /\ jobs' = [jobs EXCEPT ![s] = @ \o JobsOf(program, id)]
      /\ f.id = id /\ f.i = i + 1 /\ f.pc = (IF i = last THEN "added" ELSE "add")
  BY DEF Appends, Append2
<1>2. Shapes /\ SlotTypes /\ MasterOf /\ Balance /\ SlotFrames /\ FrameOK(e)
  BY DEF SlotInv, SlotFrames, Good
<1>3. /\ id \in Ids(program) /\ Call(id).op # "free" /\ last \in Nat \ {0} /\ need \in {1, 2}
      /\ \A x \in 1..last : PlaceRank(t, x) = RanksOf(id)[x] /\ RanksOf(id)[x] \in Ranks
      /\ RanksOf(id) \in Seq(Ranks)
  <2>1. e.pc \notin {"idle", "join"}
    BY <1>1
  <2>2. /\ id \in Ids(program) /\ Call(id).op # "free"
        /\ RanksOf(id) \in Seq(Ranks) /\ last \in Nat \ {0} /\ need \in {1, 2}
        /\ RankSet(id) \subseteq Ranks
        /\ \A x \in 1..last : PlaceRank(t, x) = RanksOf(id)[x] /\ RanksOf(id)[x] \in Ranks
    BY <1>2, <2>1, PlaceFacts
  <2>3. QED
    BY <2>2
<1>4. /\ s \in Ranks /\ FifoAdds(s, id) /\ \A r \in Ranks \ {s} : FifoSame(r)
  BY AppendsFifo
<1>5. i \in 1..last /\ s = RanksOf(id)[i] /\ i \in Nat /\ i <= last
  <2>1. i \in DOMAIN RanksOf(id) /\ s = RanksOf(id)[i]
    BY <1>1, <1>2, AddFacts
  <2>2. DOMAIN RanksOf(id) = 1..last
    BY <1>3
  <2>3. QED
    BY <1>3, <2>1, <2>2
<1>6. s = PlaceRank(t, i)
  BY <1>3, <1>5
<1>7. MastersKept /\ LostKept /\ LostGrows
  BY <1>1, <1>2, CallSame
<1>8. SlotTypes'
  BY <1>1, <1>2 DEF SlotTypes
<1>9. FrameOK(f)
  BY <1>1 DEF FrameOK, Inline
<1>10. DOMAIN jobs' = Ranks /\ (\A x \in Ranks : x # s => jobs'[x] = jobs[x])
       /\ Len(jobs'[s]) = Len(jobs[s]) + need
  <2>1. /\ jobs \in [Ranks -> Seq(JobSet)] /\ JobsOf(program, id) \in Seq(JobSet)
        /\ Len(JobsOf(program, id)) = need
    BY <1>2, <1>3, BatchFacts DEF Shapes
  <2>2. jobs'[s] = jobs[s] \o JobsOf(program, id) /\ jobs[s] \in Seq(JobSet)
    BY <1>1, <1>4, <2>1
  <2>3. Len(jobs[s] \o JobsOf(program, id)) = Len(jobs[s]) + Len(JobsOf(program, id))
    BY <2>1, <2>2, BothLong
  <2>4. QED
    BY <1>1, <2>1, <2>2, <2>3
<1>11. MasterOf'
  <2>1. ASSUME NEW x, Fresh(x)' PROVE Fresh(x) /\ x # id
    <3>1. \A r \in Ranks \ {s} : outcome'[r] = outcome[r]
      BY <1>4 DEF FifoSame
    <3>2. /\ \A j \in DOMAIN outcome[s] : j \in DOMAIN outcome'[s]
          /\ MainJob(id) \in DOMAIN outcome'[s]
      BY <1>2, <1>3, <1>4, AddedJobs
    <3>3. MainJob(id).id = id
      BY DEF MainJob
    <3>4. QED
      BY <1>4, <2>1, <3>1, <3>2, <3>3 DEF Fresh
  <2>2. ~Fresh(id)'
    BY <2>1
  <2>3. QED
    BY <1>1, <1>2, <1>7, <2>1, <2>2, MasterStays
<1>12. TakenBy(e) = (i..last) \X (1..need)
  BY <1>1, TakenCases
<1>13. TakenBy(f) = ((i + 1)..last) \X (1..need)
  <2>1. CASE i = last
    <3>1. f.pc = "added"
      BY <1>1, <2>1
    <3>2. TakenBy(f) = {}
      BY <3>1, TakenCases DEF Inline
    <3>3. (i + 1)..last = {}
      BY <1>5, <2>1
    <3>4. QED
      BY <3>2, <3>3
  <2>2. CASE i # last
    <3>1. f.pc = "add" /\ f.i = i + 1 /\ f.id = id
      BY <1>1, <2>2
    <3>2. QED
      BY <3>1, TakenCases
  <2>3. QED
    BY <2>1, <2>2
<1>14. \A x \in TakenBy(f) : PlaceOf(f, x[1]) = PlaceOf(e, x[1])
  <2>1. \A x \in TakenBy(f) : x[1] <= last
    BY <1>3, <1>5, <1>13
  <2>2. \A x : x <= last \/ f.master = e.master => PlaceOf(f, x) = PlaceOf(e, x)
    BY <1>1, SamePlaces
  <2>3. QED
    BY <2>1, <2>2
<1>15. Parts(t, i, 1, need)
  <2>1. 1 \in Int /\ need \in Int /\ 1 <= need + 1
    BY <1>3
  <2>2. TakenBy(e) = TakenBy(f) \cup ({i} \X (1..need)) /\ TakenBy(f) \cap ({i} \X (1..need)) = {}
    BY <1>3, <1>5, <1>12, <1>13, RangeHead
  <2>3. QED
    BY <1>1, <1>14, <2>1, <2>2, PartsIs
<1>16. ASSUME NEW r \in Ranks
       PROVE  Balanced(r)'
  <2>1. Balanced(r)
    BY <1>2 DEF Balance
  <2>2. OthersSame(t)
    BY <1>1, FrameSlots
  <2>3. need \in Int /\ need = (need - 1) + 1
    BY <1>3
  <2>4. Shapes /\ SlotTypes
    BY <1>2
  <2>5. ASSUME NEW a, a = 1, NEW b, b = need
        PROVE  Balanced(r)'
    <3>1. Parts(t, i, a, b) /\ need = (b - a) + 1
      BY <1>15, <2>3, <2>5
    <3>2. s \in Ranks /\ s = PlaceRank(t, i) /\ MastersKept /\ LostGrows
      BY <1>4, <1>6, <1>7
    <3>3. /\ DOMAIN jobs' = Ranks /\ Len(jobs'[s]) = Len(jobs[s]) + need
          /\ \A x \in Ranks : x # s => jobs'[x] = jobs[x]
      BY <1>10
    <3>4. QED
      BY <2>1, <2>2, <2>3, <2>4, <3>1, <3>2, <3>3, BalanceSubmits
  <2>6. QED
    BY <2>5
<1>17. QED
  BY <1>8, <1>9, <1>11, <1>16 DEF KeepsSlots

(* add_jobs: the jobs are enqueued, or the mutex of the queue is awaited. *)
LEMMA AddKeeps ==
  ASSUME Good, Frames, PendingFresh, Locked, SlotInv, program' = program, NEW t \in Threads, FramesKept(t),
         AddJobs(t) \/ AddQueue(t), Calm(t) \/ Appends(t),
         NEW e, e = api[t], NEW f, f = api'[t], NEW id, id = e.id, NEW s, s = AddRank(t),
         NEW last, last = Len(RanksOf(id)), NEW need, need = Need(id)
  PROVE  KeepsSlots(t)
<1>1. /\ e.pc \in {"add", "addqueue"} /\ ~undefined
      /\ undefined' = undefined /\ avail' = avail /\ call' = call
  BY DEF AddJobs, AddQueue, At, flags
<1>2. CASE Appends(t)
  BY <1>1, <1>2, AppendsKeeps
<1>3. CASE Calm(t)
  <2>1. jobs' = jobs /\ outcome' = outcome
    BY <1>3 DEF Calm
  <2>2. Shapes
    BY DEF Good
  <2>3. id \in Ids(program) /\ s \in Ranks /\ Call(id).op # "free"
    BY <1>1, <2>2, AddFacts
  <2>4. ~Append2(s, id)
    <3>1. SUFFICES ASSUME Append2(s, id) PROVE FALSE
      OBVIOUS
    <3>2. /\ jobs \in [Ranks -> Seq(JobSet)] /\ JobsOf(program, id) \in Seq(JobSet)
          /\ Len(JobsOf(program, id)) \in {1, 2}
      BY <2>2, <2>3, BatchFacts DEF Shapes
    <3>3. jobs'[s] = jobs[s] \o JobsOf(program, id) /\ jobs[s] \in Seq(JobSet)
      BY <2>3, <3>1, <3>2 DEF Append2
    <3>4. jobs[s] \o JobsOf(program, id) # jobs[s]
      BY <3>2, <3>3, BothLong
    <3>5. QED
      BY <2>1, <3>3, <3>4
  <2>5. e.pc = "add" /\ api' = [api EXCEPT ![t].pc = "addqueue"]
    BY <2>4 DEF AddJobs, AddQueue, At
  <2>6. f.pc = "addqueue" /\ f.id = e.id /\ f.i = e.i /\ f.master = e.master
    BY <2>2, <2>5 DEF Shapes, ApiFields
  <2>7. TakenBy(f) = TakenBy(e)
    <3>1. TakenBy(e) = (e.i..last) \X (1..need)
      BY <1>1, TakenCases
    <3>2. TakenBy(f) = (f.i..last) \X (1..need)
      BY <2>6, TakenCases
    <3>3. QED
      BY <2>6, <3>1, <3>2
  <2>8. \A k : PlaceOf(f, k) = PlaceOf(e, k)
    BY <2>6, SamePlaces
  <2>9. Taken(t) = TakenBy(e) /\ \A k : PlaceRank(t, k) = PlaceOf(e, k)
    BY ByFrame
  <2>10. Taken(t)' = TakenBy(f) /\ \A k : PlaceRank(t, k)' = PlaceOf(f, k)
    BY ByFrameThen
  <2>11. Taken(t)' = Taken(t) /\ \A x \in Taken(t) : PlaceRank(t, x[1])' = PlaceRank(t, x[1])
    BY <2>7, <2>8, <2>9, <2>10
  <2>12. FrameOK(f)
    BY <2>6 DEF FrameOK, Inline
  <2>13. MastersKept /\ LostKept
    BY <1>1, <2>2, CallSame
  <2>14. f.pc \in Submitting /\ f.id = api[t].id
    BY <2>6 DEF Submitting
  <2>15. QED
    BY <1>1, <2>1, <2>2, <2>11, <2>12, <2>13, <2>14, NothingMoves
<1>4. QED
  BY <1>2, <1>3

(* Every step of the API keeps the invariant. *)
LEMMA ApiSlotInv ==
  ASSUME JobInv, SlotInv, NEW t \in Threads, ApiStep(t)
  PROVE  SlotInv'
<1>1. /\ Good /\ Shapes /\ Mindful /\ Locked /\ Frames /\ Names /\ PendingFresh
  BY DEF JobInv, Good, Mindful
<1>2. program' = program
  BY ApiSameProgram
<1>3. Calm(t) \/ Appends(t)
  BY <1>1, <1>2, ApiKinds
<1>4. FramesKept(t)
  BY <1>3 DEF Calm, Appends
<1>5. KeepsSlots(t)
  <2>1. CASE Begin(t)
    BY <1>1, <1>2, <1>4, <2>1, BeginSlots
  <2>2. CASE GetSlots(t)
    BY <1>1, <1>2, <1>4, <2>2, GetSlotsKeeps
  <2>3. CASE GetFails(t)
    BY <1>1, <1>2, <1>4, <2>3, GetFailsKeeps
  <2>4. CASE Unget(t)
    BY <1>1, <1>2, <1>4, <2>4, UngetKeeps
  <2>5. CASE SetJobs(t)
    BY <1>1, <1>2, <1>4, <2>5, SetJobsKeeps
  <2>6. CASE DoJobs(t)
    BY <1>1, <1>2, <1>4, <2>6, DoJobsKeeps
  <2>7. CASE AddJobs(t) \/ AddQueue(t)
    BY <1>1, <1>2, <1>3, <1>4, <2>7, AddKeeps
  <2>8. CASE Added(t) \/ Woken(t) \/ FreeSet(t) \/ Joined(t)
    BY <1>1, <1>2, <1>4, <2>8, QuietKeeps
  <2>9. CASE InlineLock(t) \/ InlineLaunch(t) \/ InlinePolled(t)
    BY <1>1, <1>2, <1>4, <2>9, InlineGoesKeeps
  <2>10. CASE InlineEnd(t)
    BY <1>1, <1>2, <1>4, <2>10, InlineEndKeeps
  <2>11. QED
    BY <2>1, <2>2, <2>3, <2>4, <2>5, <2>6, <2>7, <2>8, <2>9, <2>10 DEF ApiStep
<1>6. SlotFrames'
  BY <1>2, <1>4, <1>5, FrameSlots DEF KeepsSlots, SlotInv
<1>7. QED
  BY <1>5, <1>6 DEF KeepsSlots, SlotInv, Balance

-----------------------------------------------------------------------------
(* The initial states, and all steps.                                       *)
LEMMA InitSlots ==
  ASSUME Init
  PROVE  SlotInv
<1>1. /\ program \in Programs /\ ~undefined /\ DOMAIN call = Ids(program)
      /\ \A id \in Ids(program) : call[id].master = None /\ call[id].lost = {}
      /\ avail = [r \in Ranks |-> NrJobs] /\ \A r \in Ranks : jobs[r] = <<>>
      /\ \A t \in Threads : api[t].pc = "idle"
  BY DEF Init, Idle
<1>2. SlotTypes
  BY <1>1, JobCallsAssumption DEF SlotTypes
<1>3. SlotFrames
  BY <1>1 DEF SlotFrames, FrameOK, Inline
<1>4. MasterOf
  BY <1>1 DEF MasterOf
<1>5. ASSUME NEW r \in Ranks PROVE Balanced(r)
  <2>1. \A t \in Threads : Taken(t) = {}
    <3>1. ASSUME NEW t \in Threads, NEW f, f = api[t] PROVE Taken(t) = {}
      <4>1. f.pc = "idle"
        BY <1>1, <3>1
      <4>2. TakenBy(f) = {}
        BY <4>1, TakenCases DEF Inline
      <4>3. QED
        BY <3>1, <4>2, ByFrame
    <3>2. QED
      BY <3>1
  <2>2. Held(r) = {}
    BY <2>1 DEF Held
  <2>3. Masters(r) = {}
    BY <1>1, JobCallsAssumption DEF Masters
  <2>4. IsFiniteSet({}) /\ Cardinality({}) = 0
    BY FS_EmptySet
  <2>5. avail[r] = NrJobs /\ Len(jobs[r]) = 0 /\ NrJobs \in Nat
    BY <1>1, JobCallsAssumption
  <2>6. Slots(r) = NrJobs
    BY <2>2, <2>3, <2>4, <2>5 DEF Slots
  <2>7. QED
    BY <2>2, <2>3, <2>4, <2>5, <2>6 DEF Balanced
<1>6. QED
  BY <1>2, <1>3, <1>4, <1>5 DEF SlotInv, Balance

LEMMA NextSlots ==
  ASSUME JobInv, SlotInv, [Next]_vars
  PROVE  SlotInv'
<1>1. CASE \E t \in Threads : ApiStep(t)
  BY <1>1, ApiSlotInv
<1>2. CASE \E w \in Workers : WorkStep(w)
  BY <1>2, WorkSlotInv
<1>3. CASE UNCHANGED vars
  <2>1. UNCHANGED <<program, call, jobs, avail, api, outcome, undefined>>
    BY <1>3 DEF vars
  <2>2. /\ \A id : Call(id)' = Call(id) /\ RanksOf(id)' = RanksOf(id) /\ Need(id)' = Need(id)
                   /\ RankSet(id)' = RankSet(id) /\ (Fresh(id)' <=> Fresh(id))
        /\ \A t : Taken(t)' = Taken(t) /\ \A k : PlaceRank(t, k)' = PlaceRank(t, k)
        /\ \A f : FrameOK(f)' <=> FrameOK(f)
    BY <2>1, SameProgram, StaysFresh DEF Taken, PlaceRank
  <2>3. \A r : Balanced(r)' <=> Balanced(r)
    <3>1. \A r : Held(r)' = Held(r)
      BY <2>2, OfSame, HeldSame
    <3>2. \A r : Masters(r)' = Masters(r) /\ (Robbed(r)' <=> Robbed(r))
      BY <2>1 DEF Masters, Robbed
    <3>3. \A r : Slots(r)' = Slots(r)
      BY <2>1, <3>1, <3>2 DEF Slots
    <3>4. QED
      BY <3>1, <3>2, <3>3 DEF Balanced
  <2>4. SlotTypes' /\ Balance'
    BY <2>1, <2>3 DEF SlotInv, SlotTypes, Balance
  <2>5. SlotFrames'
    BY <2>1, FramesThen DEF SlotInv, SlotFrames
  <2>6. MasterOf'
    BY <2>1, <2>2 DEF SlotInv, MasterOf
  <2>7. QED
    BY <2>4, <2>5, <2>6 DEF SlotInv
<1>4. QED
  BY <1>1, <1>2, <1>3 DEF Next

(* The inductive invariant of the slots, beside that of the FIFOs: the      *)
(* frame of a thread tells what slots it has (get_jobs, unget_jobs,         *)
(* add_jobs), a master job is owned by a call that has a callback           *)
(* submitted, and the four parts of each rank add up.                       *)
THEOREM SlotInvariant == Spec => []SlotInv
<1>1. Init => SlotInv
  BY InitSlots
<1>2. JobInv /\ SlotInv /\ [Next]_vars => SlotInv'
  BY NextSlots
<1>3. QED
  BY <1>1, <1>2, JobInvariant, PTL DEF Spec

(* Every slot of a rank is available, in its FIFO, with one thread, or a    *)
(* master job, and none is given back twice; slots are missing only where a *)
(* call has lost them: it had some when the rank failed (GetFails), or      *)
(* found the beginning of a callback after taking them (InlineEnd).         *)
THEOREM SlotsAreAccounted == Spec => []SlotsAccounted
<1>1. ASSUME SlotInv
      PROVE  SlotsAccounted
  <2>1. ASSUME ~undefined, NEW r \in Ranks
        PROVE  LET slots == avail[r] + Len(jobs[r]) + Cardinality(Held(r)) + Cardinality(Masters(r))
               IN  slots <= NrJobs /\ (slots = NrJobs \/ \E id \in DOMAIN call : r \in call[id].lost)
    <3>1. Balanced(r)
      BY <1>1, <2>1 DEF SlotInv, Balance
    <3>2. QED
      BY <3>1, Zenon DEF Balanced, Slots, Robbed
  <2>2. QED
    BY <2>1, Zenon DEF SlotsAccounted
<1>2. SlotInv => SlotsAccounted
  BY <1>1
<1>3. QED
  BY <1>2, SlotInvariant, PTL

-----------------------------------------------------------------------------
(***************************************************************************)
(* The mutexes of the ranks.                                                *)
(***************************************************************************)
(* A callback in whose function somebody waits for a launch on rank r, for  *)
(* which the worker has let go of its only level.                           *)
Suspended(r) == \E w \in Workers : Base(w, r) = 1 /\ Polls(w, r)

(* Who has a level of a mutex owns it, and it is as deep as the levels say. *)
Kept(r) ==
  /\ \A t \in Threads : Holds(t, r) > 0 => rankLock[r].owner = t
  /\ \/ rankLock[r] = Free
     \/ \E t \in Threads : \E d \in Nat \ {0} :
          /\ rankLock[r] = [owner |-> t, depth |-> d]
          /\ d = Holds(t, r) \/ (d = Holds(t, r) + 1 /\ Base(t, r) = 0 /\ Suspended(r))

(* The function of a blocking callback runs on the rank, by worker w. *)
Under(w, r) == work[w].pc = "cbrun" /\ Blocking(w) /\ InCbRanks(w, r)

(* callback_tid_set says so. *)
Marked == \A r \in Ranks : tidSet[r] <=> \E w \in Workers : Under(w, r)

(* The next rank to lock is one of the callback. *)
LocksNext == \A w \in Workers : work[w].pc = "cblock" => work[w].k \in DOMAIN CbRanks(w)

(* The inductive invariant of the mutexes. *)
LockInv ==
  /\ DOMAIN rankLock = Ranks /\ DOMAIN tidSet = Ranks
  /\ Marked /\ LocksNext
  /\ ~undefined => \A r \in Ranks : Kept(r)


LEMMA HoldFacts ==
  ASSUME NEW t, NEW r
  PROVE  /\ Base(t, r) \in 0..2 /\ Holds(t, r) \in 0..3
         /\ Inlines(t, r) => Holds(t, r) = Base(t, r) + 1 /\ ~Polls(t, r)
         /\ Polls(t, r) => Holds(t, r) = IF Base(t, r) = 0 THEN 0 ELSE Base(t, r) - 1
         /\ ~Inlines(t, r) /\ ~Polls(t, r) => Holds(t, r) = Base(t, r)
<1>1. Base(t, r) \in 0..2
  BY DEF Base
<1>2. Inlines(t, r) => ~Polls(t, r)
  BY DEF Inlines, Polls
<1>3. QED
  BY <1>1, <1>2 DEF Holds

LEMMA HoldThen ==
  ASSUME NEW t, NEW r
  PROVE  /\ Base(t, r)' \in 0..2 /\ Holds(t, r)' \in 0..3
         /\ Inlines(t, r)' => Holds(t, r)' = Base(t, r)' + 1 /\ ~Polls(t, r)'
         /\ Polls(t, r)' => Holds(t, r)' = IF Base(t, r)' = 0 THEN 0 ELSE Base(t, r)' - 1
         /\ ~Inlines(t, r)' /\ ~Polls(t, r)' => Holds(t, r)' = Base(t, r)'
<1>1. Base(t, r)' \in 0..2
  BY DEF Base
<1>2. Inlines(t, r)' => ~Polls(t, r)'
  BY DEF Inlines, Polls
<1>3. QED
  BY <1>1, <1>2 DEF Holds

(* The levels of thread t of the mutex of r stay as they are. *)
SameLevels(t, r) ==
  /\ Base(t, r)' = Base(t, r)
  /\ Inlines(t, r)' <=> Inlines(t, r)
  /\ Polls(t, r)' <=> Polls(t, r)

LEMMA SameHolds ==
  ASSUME NEW t, NEW r, SameLevels(t, r)
  PROVE  Holds(t, r)' = Holds(t, r)
BY DEF SameLevels, Holds

(* A rank on which nobody does anything. *)
LEMMA KeptAlone ==
  ASSUME NEW r, Kept(r), rankLock'[r] = rankLock[r],
         \A t \in Threads : SameLevels(t, r)
  PROVE  Kept(r)'
<1>1. \A t \in Threads : Holds(t, r)' = Holds(t, r)
  BY SameHolds
<1>2. \A w \in Workers : w \in Threads
  BY DEF Threads
<1>3. Suspended(r) => Suspended(r)'
  BY <1>2 DEF Suspended, SameLevels
<1>4. \A t \in Threads : Base(t, r)' = Base(t, r)
  BY DEF SameLevels
<1>5. QED
  BY <1>1, <1>3, <1>4, Zenon DEF Kept

(* Who has a level of a mutex. *)
LEMMA KeptOwner ==
  ASSUME NEW r, Kept(r), NEW x \in Threads, rankLock[r] # Free, rankLock[r].owner = x
  PROVE  \E d \in Nat \ {0} :
           /\ rankLock[r] = [owner |-> x, depth |-> d]
           /\ d = Holds(x, r) \/ (d = Holds(x, r) + 1 /\ Base(x, r) = 0 /\ Suspended(r))
<1>1. PICK t \in Threads, d \in Nat \ {0} :
          /\ rankLock[r] = [owner |-> t, depth |-> d]
          /\ d = Holds(t, r) \/ (d = Holds(t, r) + 1 /\ Base(t, r) = 0 /\ Suspended(r))
  BY DEF Kept
<1>2. t = x
  BY <1>1
<1>3. QED
  BY <1>1, <1>2

LEMMA KeptHolder ==
  ASSUME NEW r, Kept(r), NEW x \in Threads, Holds(x, r) > 0
  PROVE  \E d \in Nat \ {0} :
           /\ rankLock[r] = [owner |-> x, depth |-> d]
           /\ d = Holds(x, r) \/ (d = Holds(x, r) + 1 /\ Base(x, r) = 0 /\ Suspended(r))
<1>1. rankLock[r].owner = x
  BY DEF Kept
<1>2. x # None
  BY JobCallsAssumption DEF Threads
<1>3. rankLock[r] # Free
  BY <1>1, <1>2 DEF Free
<1>4. QED
  BY <1>1, <1>3, KeptOwner

(* A mutex at depth 0 is free, and nobody has a level of it. *)
LEMMA KeptFree ==
  ASSUME NEW r, Kept(r), rankLock[r].depth = 0 \/ rankLock[r].owner = None \/ rankLock[r] = Free
  PROVE  rankLock[r] = Free /\ \A t \in Threads : Holds(t, r) = 0
<1>1. None \notin Threads
  BY JobCallsAssumption DEF Threads
<1>2. rankLock[r] = Free
  <2>1. SUFFICES ASSUME rankLock[r] # Free PROVE FALSE
    OBVIOUS
  <2>2. PICK t \in Threads, d \in Nat \ {0} : rankLock[r] = [owner |-> t, depth |-> d]
    BY <2>1 DEF Kept
  <2>3. rankLock[r].owner = t /\ rankLock[r].depth = d
    BY <2>2
  <2>4. QED
    BY <1>1, <2>1, <2>2, <2>3
<1>3. rankLock[r].owner = None
  BY <1>2 DEF Free
<1>4. \A t \in Threads : ~(Holds(t, r) > 0)
  BY <1>1, <1>3 DEF Kept
<1>5. QED
  BY <1>2, <1>4, HoldFacts

(* Thread x, which has the mutex or finds it free, leaves it as deep as it  *)
(* says afterwards.                                                         *)
LEMMA KeptBy ==
  ASSUME NEW r, Kept(r), NEW x \in Threads,
         \A t \in Threads \ {x} : SameLevels(t, r),
         rankLock[r] = Free \/ rankLock[r].owner = x,
         \/ rankLock'[r] = Free /\ Holds(x, r)' = 0
         \/ \E d \in Nat \ {0} :
              /\ rankLock'[r] = [owner |-> x, depth |-> d]
              /\ d = Holds(x, r)' \/ (d = Holds(x, r)' + 1 /\ Base(x, r)' = 0 /\ Suspended(r)')
  PROVE  Kept(r)'
<1>1. \A t \in Threads \ {x} : Holds(t, r)' = 0
  <2>1. TAKE t \in Threads \ {x}
  <2>2. ~(Holds(t, r) > 0)
    <3>1. rankLock[r].owner # t
      BY JobCallsAssumption DEF Free, Threads
    <3>2. QED
      BY <3>1 DEF Kept
  <2>3. Holds(t, r) = 0
    BY <2>2, HoldFacts
  <2>4. QED
    BY <2>3, SameHolds
<1>2. \A t \in Threads : Holds(t, r)' > 0 => rankLock'[r].owner = t
  <2>1. TAKE t \in Threads
  <2>2. HAVE Holds(t, r)' > 0
  <2>3. t = x /\ Holds(x, r)' # 0
    BY <1>1, <2>2
  <2>4. PICK d \in Nat \ {0} : rankLock'[r] = [owner |-> x, depth |-> d]
    BY <2>3
  <2>5. rankLock'[r].owner = x
    BY <2>4
  <2>6. QED
    BY <2>3, <2>5
<1>3. QED
  BY <1>2, Zenon DEF Kept


-----------------------------------------------------------------------------
(* Locking, and running a job inline.                                       *)
Takes1(r, x) ==
  /\ rankLock[r].owner \in {None, x}
  /\ rankLock'[r] = [owner |-> x, depth |-> rankLock[r].depth + 1]

(* A level more, for who has no level too many. *)
LEMMA KeptLocks ==
  ASSUME NEW r, Kept(r), NEW x \in Threads, \A t \in Threads \ {x} : SameLevels(t, r),
         Takes1(r, x), Holds(x, r)' = Holds(x, r) + 1,
         Base(x, r) = 0 /\ Suspended(r) => Base(x, r)' = 0 /\ Suspended(r)'
  PROVE  Kept(r)'
<1>1. CASE rankLock[r] = Free
  <2>1. Holds(x, r) = 0
    BY <1>1, KeptFree
  <2>2. rankLock'[r] = [owner |-> x, depth |-> 1] /\ Holds(x, r)' = 1
    BY <1>1, <2>1 DEF Takes1, Free
  <2>3. QED
    BY <1>1, <2>2, KeptBy
<1>2. CASE rankLock[r] # Free
  <2>1. rankLock[r].owner = x
    BY <1>2, KeptFree DEF Takes1
  <2>2. PICK d \in Nat \ {0} :
          /\ rankLock[r] = [owner |-> x, depth |-> d]
          /\ d = Holds(x, r) \/ (d = Holds(x, r) + 1 /\ Base(x, r) = 0 /\ Suspended(r))
    BY <1>2, <2>1, KeptOwner
  <2>3. rankLock'[r] = [owner |-> x, depth |-> d + 1]
    BY <2>2 DEF Takes1
  <2>4. d + 1 \in Nat \ {0} /\ Holds(x, r) \in Nat
    BY HoldFacts
  <2>5. d + 1 = Holds(x, r)' \/ (d + 1 = Holds(x, r)' + 1 /\ Base(x, r)' = 0 /\ Suspended(r)')
    BY <2>2, <2>4
  <2>6. QED
    BY <2>1, <2>3, <2>4, <2>5, KeptBy
<1>3. QED
  BY <1>1, <1>2

(* A level fewer. *)
LEMMA KeptUnlocks ==
  ASSUME NEW r, Kept(r), NEW x \in Threads, \A t \in Threads \ {x} : SameLevels(t, r),
         rankLock'[r] = Released(rankLock[r], 1), Holds(x, r) = Holds(x, r)' + 1,
         Base(x, r) = 0 /\ Suspended(r) => Base(x, r)' = 0 /\ Suspended(r)'
  PROVE  Kept(r)'
<1>0. Holds(x, r)' \in Nat /\ Holds(x, r) \in Nat
  BY HoldFacts, HoldThen
<1>1. Holds(x, r) > 0
  BY <1>0
<1>2. PICK d \in Nat \ {0} :
          /\ rankLock[r] = [owner |-> x, depth |-> d]
          /\ d = Holds(x, r) \/ (d = Holds(x, r) + 1 /\ Base(x, r) = 0 /\ Suspended(r))
  BY <1>1, KeptHolder
<1>3. rankLock[r].owner = x
  BY <1>2
<1>4. CASE d = 1
  <2>1. rankLock'[r] = Free
    BY <1>2, <1>4 DEF Released
  <2>2. Holds(x, r)' = 0
    BY <1>0, <1>2, <1>4
  <2>3. QED
    BY <1>3, <2>1, <2>2, KeptBy
<1>5. CASE d # 1
  <2>1. rankLock'[r] = [owner |-> x, depth |-> d - 1]
    BY <1>2, <1>5 DEF Released
  <2>2. d - 1 \in Nat \ {0}
    BY <1>5
  <2>3. d - 1 = Holds(x, r)' \/ (d - 1 = Holds(x, r)' + 1 /\ Base(x, r)' = 0 /\ Suspended(r)')
    BY <1>0, <1>2
  <2>4. QED
    BY <1>3, <2>1, <2>2, <2>3, KeptBy
<1>6. QED
  BY <1>4, <1>5


(* A worker in the function of a callback has the ranks of a blocking one,  *)
(* and no other.                                                            *)
LEMMA UnderHas ==
  ASSUME Calling, NEW w \in Workers, work[w].pc = "cbrun", NEW r
  PROVE  Base(w, r) > 0 <=> Under(w, r)
<1>1. work[w].rank \in RankSet(Cb(w))
  BY DEF Calling, CbPhase
<1>2. HasRank(w, r) <=> work[w].rank = r /\ Blocking(w)
  BY DEF HasRank
<1>3. HasAgain(w, r) <=> Blocking(w) /\ Single(w) /\ InCbRanks(w, r)
  BY DEF HasAgain, InCbRanks
<1>4. CASE Single(w)
  <2>1. CbRanks(w) = RanksOf(Cb(w))
    BY <1>4 DEF CbRanks, Single
  <2>2. work[w].rank = r => InCbRanks(w, r)
    BY <1>1, <2>1 DEF InCbRanks, RankSet
  <2>3. Base(w, r) > 0 <=> HasRank(w, r) \/ HasAgain(w, r)
    BY DEF Base
  <2>4. QED
    BY <1>2, <1>3, <1>4, <2>2, <2>3 DEF Under
<1>5. CASE ~Single(w)
  <2>1. CbRanks(w) = <<work[w].rank>>
    BY <1>5 DEF CbRanks, Single
  <2>2. InCbRanks(w, r) <=> work[w].rank = r
    BY <2>1 DEF InCbRanks
  <2>3. Base(w, r) > 0 <=> HasRank(w, r) \/ HasAgain(w, r)
    BY DEF Base
  <2>4. QED
    BY <1>2, <1>3, <1>5, <2>2, <2>3 DEF Under
<1>6. QED
  BY <1>4, <1>5

(* Who makes a call with levels of its own makes it in a callback.          *)
LEMMA CallsUnder ==
  ASSUME Calling, Frames, NEW x \in Threads, NEW r,
         Inlines(x, r) \/ Polls(x, r), Base(x, r) > 0
  PROVE  x \in Workers /\ Under(x, r)
<1>1. x \in Workers
  BY DEF Base
<1>2. api[x].pc # "idle"
  BY DEF Inlines, Polls
<1>3. work[x].pc = "cbrun"
  BY <1>1, <1>2 DEF Frames, Idle
<1>4. QED
  BY <1>1, <1>3, UnderHas

(* Who runs a launch inline lets go of the mutex: of all its levels, unless *)
(* it has the rank twice by a callback.                                     *)
LEMMA KeptLaunches ==
  ASSUME Calling, Frames, Marked, NEW r \in Ranks, Kept(r), NEW x \in Threads,
         \A t \in Threads \ {x} : SameLevels(t, r),
         Inlines(x, r), Polls(x, r)', Base(x, r)' = Base(x, r),
         rankLock[r].depth >= Levels(r), rankLock'[r] = Released(rankLock[r], Levels(r))
  PROVE  Kept(r)'
<1>0. Base(x, r) \in 0..2 /\ Holds(x, r) = Base(x, r) + 1
      /\ Holds(x, r)' = IF Base(x, r) = 0 THEN 0 ELSE Base(x, r) - 1
  BY HoldFacts, HoldThen
<1>1. PICK d \in Nat \ {0} :
          /\ rankLock[r] = [owner |-> x, depth |-> d]
          /\ d = Holds(x, r) \/ (d = Holds(x, r) + 1 /\ Base(x, r) = 0 /\ Suspended(r))
  BY <1>0, KeptHolder
<1>2. rankLock[r].owner = x /\ rankLock[r].depth = d
  BY <1>1
<1>3. CASE Base(x, r) = 0
  <2>1. d = Levels(r)
    <3>1. CASE tidSet[r]
      BY <1>0, <1>1, <1>2, <1>3, <3>1 DEF Levels
    <3>2. CASE ~tidSet[r]
      <4>1. ~Suspended(r)
        <5>1. SUFFICES ASSUME NEW w \in Workers, Base(w, r) = 1, Polls(w, r) PROVE FALSE
          BY DEF Suspended
        <5>2. Under(w, r)
          BY <5>1, CallsUnder DEF Threads
        <5>3. QED
          BY <3>2, <5>2 DEF Marked
      <4>2. QED
        BY <1>0, <1>1, <1>3, <3>2, <4>1 DEF Levels
    <3>3. QED
      BY <3>1, <3>2
  <2>2. rankLock'[r] = Free
    BY <1>2, <2>1 DEF Released
  <2>3. Holds(x, r)' = 0
    BY <1>0, <1>3
  <2>4. QED
    BY <1>2, <2>2, <2>3, KeptBy
<1>4. CASE Base(x, r) # 0
  <2>1. Base(x, r) > 0
    BY <1>0, <1>4
  <2>2. x \in Workers /\ Under(x, r)
    BY <2>1, CallsUnder
  <2>3. Levels(r) = 2
    BY <2>2 DEF Marked, Levels
  <2>4. d = Holds(x, r)
    BY <1>1, <1>4
  <2>5. CASE Base(x, r) = 1
    <3>1. rankLock'[r] = Free
      BY <1>0, <1>2, <2>3, <2>4, <2>5 DEF Released
    <3>2. Holds(x, r)' = 0
      BY <1>0, <2>5
    <3>3. QED
      BY <1>2, <3>1, <3>2, KeptBy
  <2>6. CASE Base(x, r) = 2
    <3>1. d = 3 /\ Holds(x, r)' = 1
      BY <1>0, <2>4, <2>6
    <3>2. rankLock'[r] = [owner |-> x, depth |-> 1]
      BY <1>1, <2>3, <3>1 DEF Released
    <3>3. QED
      BY <1>2, <3>1, <3>2, KeptBy
  <2>7. QED
    BY <1>0, <1>4, <2>5, <2>6
<1>5. QED
  BY <1>3, <1>4

(* At the end of the launch it may have got back one level too many, if a   *)
(* callback has begun on the rank meanwhile.                                *)
LEMMA KeptRegains ==
  ASSUME Calling, Frames, Marked, NEW r \in Ranks, Kept(r), NEW x \in Threads,
         \A t \in Threads \ {x} : SameLevels(t, r),
         Polls(x, r), Inlines(x, r)', Base(x, r)' = Base(x, r),
         rankLock[r].depth = 0, rankLock'[r] = [owner |-> x, depth |-> Levels(r)]
  PROVE  Kept(r)'
<1>0. Base(x, r) \in 0..2 /\ Holds(x, r)' = Base(x, r) + 1
      /\ Holds(x, r) = IF Base(x, r) = 0 THEN 0 ELSE Base(x, r) - 1
  BY HoldFacts, HoldThen
<1>1. rankLock[r] = Free /\ \A t \in Threads : Holds(t, r) = 0
  BY KeptFree
<1>2. Levels(r) \in Nat \ {0}
  BY DEF Levels
<1>3. CASE Base(x, r) # 0
  <2>1. Base(x, r) > 0 /\ Base(x, r) = 1
    BY <1>0, <1>1, <1>3
  <2>2. x \in Workers /\ Under(x, r)
    BY <2>1, CallsUnder
  <2>3. Levels(r) = 2
    BY <2>2 DEF Marked, Levels
  <2>4. Levels(r) = Holds(x, r)'
    BY <1>0, <2>1, <2>3
  <2>5. QED
    BY <1>1, <1>2, <2>4, KeptBy
<1>4. CASE Base(x, r) = 0 /\ ~tidSet[r]
  <2>1. Levels(r) = Holds(x, r)'
    BY <1>0, <1>4 DEF Levels
  <2>2. QED
    BY <1>1, <1>2, <2>1, KeptBy
<1>5. CASE Base(x, r) = 0 /\ tidSet[r]
  <2>1. PICK w \in Workers : Under(w, r)
    BY <1>5 DEF Marked
  <2>2. Base(w, r) > 0 /\ w \in Threads
    BY <2>1, UnderHas DEF Under, Threads
  <2>3. Polls(w, r) /\ Base(w, r) = 1
    BY <1>1, <2>2, HoldFacts
  <2>4. w # x
    BY <1>5, <2>2
  <2>5. SameLevels(w, r)
    BY <2>2, <2>4
  <2>6. Suspended(r)'
    BY <2>3, <2>5 DEF SameLevels, Suspended
  <2>7. Levels(r) = Holds(x, r)' + 1
    BY <1>0, <1>5 DEF Levels
  <2>8. QED
    BY <1>1, <1>2, <1>5, <2>6, <2>7, KeptBy
<1>6. QED
  BY <1>3, <1>4, <1>5


-----------------------------------------------------------------------------
(* Steps of the API.                                                        *)
Inlined == {"inlinerun", "inlinepoll", "inlineend"}

LEMMA BaseKept ==
  ASSUME program' = program, NEW t, t \in Workers => work'[t] = work[t], NEW r
  PROVE  Base(t, r)' = Base(t, r)
<1>1. CASE t \notin Workers
  BY <1>1 DEF Base
<1>2. CASE t \in Workers
  <2>1. Cb(t)' = Cb(t) /\ (Single(t)' <=> Single(t)) /\ (Blocking(t)' <=> Blocking(t))
    BY <1>2, SameWorker
  <2>2. CbRanks(t)' = CbRanks(t)
    BY <1>2, <2>1, SameProgram DEF CbRanks
  <2>3. HasRank(t, r)' <=> HasRank(t, r)
    BY <1>2, <2>1 DEF HasRank
  <2>4. HasAgain(t, r)' <=> HasAgain(t, r)
    BY <1>2, <2>1, <2>2 DEF HasAgain
  <2>5. QED
    BY <2>3, <2>4 DEF Base
<1>3. QED
  BY <1>1, <1>2

(* The inline places of a thread that stays in its call, or in none. *)
LEMMA InlineKept ==
  ASSUME program' = program, NEW t, NEW r,
         \/ api'[t] = api[t]
         \/ api[t].pc \notin Inlined /\ api'[t].pc \notin Inlined
  PROVE  (Inlines(t, r)' <=> Inlines(t, r)) /\ (Polls(t, r)' <=> Polls(t, r))
<1>1. CASE api'[t] = api[t]
  <2>1. InlineRank(t)' = InlineRank(t)
    BY <1>1, SameProgram DEF InlineRank
  <2>2. QED
    BY <1>1, <2>1 DEF Inlines, Polls
<1>2. CASE api[t].pc \notin Inlined /\ api'[t].pc \notin Inlined
  BY <1>2 DEF Inlines, Polls, Inlined
<1>3. QED
  BY <1>1, <1>2

(* The steps that leave the mutexes of the ranks alone. *)
LEMMA ApiElsewhere ==
  ASSUME Shapes, NEW t \in Threads, ApiStep(t), FramesKept(t), ~InlineLock(t), ~InlineLaunch(t),
         ~InlinePolled(t), ~InlineEnd(t)
  PROVE  /\ rankLock' = rankLock /\ tidSet' = tidSet
         /\ api[t].pc \notin Inlined /\ api'[t].pc \notin Inlined
<1> USE DEF flags, Inlined, At
<1>1. CASE Begin(t)
  BY <1>1 DEF Begin, Idle, Shapes, ApiFields
<1>2. CASE GetSlots(t)
  BY <1>2 DEF GetSlots, Shapes, ApiFields
<1>3. CASE GetFails(t)
  BY <1>3 DEF GetFails, Idle, Shapes, ApiFields
<1>4. CASE Unget(t)
  <2>1. api[t].pc = "unget" /\ rankLock' = rankLock /\ tidSet' = tidSet
    BY <1>4 DEF Unget
  <2>2. \/ \E k : api' = [api EXCEPT ![t].got = k]
        \/ api' = [api EXCEPT ![t] = Idle(@.todo)]
    BY <1>4 DEF Unget, Return
  <2>3. QED
    BY <2>1, <2>2 DEF Idle, Shapes, ApiFields
<1>5. CASE SetJobs(t)
  BY <1>5 DEF SetJobs, Shapes, ApiFields
<1>6. CASE DoJobs(t)
  BY <1>6 DEF DoJobs, Shapes, ApiFields
<1>7. CASE AddJobs(t)
  <2>1. api[t].pc = "add" /\ rankLock' = rankLock /\ tidSet' = tidSet
    BY <1>7 DEF AddJobs
  <2>2. api' = [api EXCEPT ![t] = AddedTo(t)] \/ api' = [api EXCEPT ![t].pc = "addqueue"]
    BY <1>7 DEF AddJobs
  <2>3. QED
    BY <2>1, <2>2 DEF AddedTo, Shapes, ApiFields
<1>8. CASE AddQueue(t)
  <2>1. api[t].pc = "addqueue" /\ rankLock' = rankLock /\ tidSet' = tidSet
    BY <1>8 DEF AddQueue
  <2>2. PICK q : api' = [api EXCEPT ![t] = [AddedTo(t) EXCEPT !.held = @ \cup {q}]]
    BY <1>8 DEF AddQueue
  <2>3. QED
    BY <2>1, <2>2 DEF AddedTo, Shapes, ApiFields
<1>9. CASE Added(t)
  BY <1>9 DEF Added, Return, Idle, Shapes, ApiFields
<1>10. CASE Woken(t)
  BY <1>10 DEF Woken, Return, Idle, Shapes, ApiFields
<1>11. CASE FreeSet(t)
  BY <1>11 DEF FreeSet, Idle, Shapes, ApiFields
<1>12. CASE Joined(t)
  BY <1>12 DEF Joined, Return, Idle, Shapes, ApiFields
<1>13. QED
  BY <1>1, <1>2, <1>3, <1>4, <1>5, <1>6, <1>7, <1>8, <1>9, <1>10, <1>11, <1>12 DEF ApiStep


(* Thread t runs a job inline: it goes from one place of Inlines and Polls  *)
(* to another, for the rank of its call.                                    *)
LEMMA InlinePlaces ==
  ASSUME Shapes, NEW t \in Threads, NEW pc, api' = [api EXCEPT ![t].pc = pc], program' = program
  PROVE  /\ InlineRank(t)' = InlineRank(t) /\ api'[t].pc = pc
         /\ \A r : /\ Inlines(t, r)' <=> pc \in {"inlinerun", "inlineend"} /\ InlineRank(t) = r
                   /\ Polls(t, r)' <=> pc = "inlinepoll" /\ InlineRank(t) = r
<1>1. api'[t].pc = pc /\ api'[t].id = api[t].id
  BY DEF Shapes, ApiFields
<1>2. InlineRank(t)' = InlineRank(t)
  BY <1>1, SameProgram DEF InlineRank
<1>3. QED
  BY <1>1, <1>2 DEF Inlines, Polls

LEMMA ApiKept ==
  ASSUME JobInv, LockInv, NEW t \in Threads, ApiStep(t), ~undefined'
  PROVE  /\ tidSet' = tidSet /\ DOMAIN rankLock' = Ranks
         /\ \A r \in Ranks : Kept(r)'
<1> USE DEF flags, At
<1>1. /\ Shapes /\ Locked /\ Frames /\ Calling /\ Marked /\ DOMAIN rankLock = Ranks
      /\ program' = program
  BY ApiSameProgram DEF JobInv, Good, LockInv
<1>2. ~undefined /\ \A r \in Ranks : Kept(r)
  <2>1. ~undefined
    BY DEF ApiStep, Begin, GetSlots, GetFails, Unget, SetJobs, DoJobs, AddJobs, AddQueue, Added,
         Woken, InlineLock, InlineLaunch, InlinePolled, InlineEnd, FreeSet, Joined
  <2>2. QED
    BY <2>1 DEF LockInv
<1>3. FramesKept(t) /\ work' = work
  BY <1>1, ApiKinds DEF Calm, Appends
<1>4. \A u \in Threads : \A r : Base(u, r)' = Base(u, r)
  BY <1>1, <1>3, BaseKept
<1>5. \A u \in Threads \ {t} : \A r : SameLevels(u, r)
  BY <1>1, <1>3, <1>4, InlineKept DEF FramesKept, SameLevels
<1>6. CASE ~InlineLock(t) /\ ~InlineLaunch(t) /\ ~InlinePolled(t) /\ ~InlineEnd(t)
  <2>1. /\ rankLock' = rankLock /\ tidSet' = tidSet
        /\ api[t].pc \notin Inlined /\ api'[t].pc \notin Inlined
    BY <1>1, <1>3, <1>6, ApiElsewhere
  <2>2. \A r : SameLevels(t, r)
    BY <1>1, <1>4, <2>1, InlineKept DEF SameLevels
  <2>3. \A r \in Ranks : \A u \in Threads : SameLevels(u, r)
    BY <1>5, <2>2
  <2>4. QED
    BY <1>1, <1>2, <2>1, <2>3, KeptAlone
<1>7. ASSUME InlineLock(t) \/ InlineLaunch(t) \/ InlinePolled(t) \/ InlineEnd(t)
      PROVE  /\ tidSet' = tidSet
             /\ \A r \in Ranks : r # InlineRank(t) => rankLock'[r] = rankLock[r] /\ SameLevels(t, r)
  <2>1. tidSet' = tidSet
    BY <1>7 DEF InlineLock, InlineLaunch, InlinePolled, InlineEnd
  <2>2. \A r \in Ranks : r # InlineRank(t) => rankLock'[r] = rankLock[r]
    BY <1>1, <1>7 DEF InlineLock, InlineLaunch, InlinePolled, InlineEnd, LockRank, LetGo, Regain, UnlockRank
  <2>3. \A r : r # InlineRank(t) => ~Inlines(t, r) /\ ~Polls(t, r)
    BY DEF Inlines, Polls
  <2>4. \A r : r # InlineRank(t) => ~Inlines(t, r)' /\ ~Polls(t, r)'
    <3>1. CASE \E pc : api' = [api EXCEPT ![t].pc = pc]
      BY <1>1, <3>1, InlinePlaces
    <3>2. CASE InlineEnd(t)
      <4>1. api'[t] = Idle(api[t].todo)
        BY <1>1, <3>2 DEF InlineEnd, Shapes
      <4>2. QED
        BY <4>1 DEF Inlines, Polls, Idle
    <3>3. QED
      BY <1>7, <3>1, <3>2 DEF InlineLock, InlineLaunch, InlinePolled
  <2>5. QED
    BY <1>4, <2>1, <2>2, <2>3, <2>4 DEF SameLevels
<1>8. ASSUME NEW r, r = InlineRank(t), InlineLock(t) \/ InlineLaunch(t) \/ InlinePolled(t) \/ InlineEnd(t)
      PROVE  Kept(r)' /\ DOMAIN rankLock' = Ranks
  <2>1. r \in Ranks
    <3>1. api[t].id \in Ids(program) /\ Call(api[t].id).op # "free"
      BY <1>1, <1>8 DEF Frames, InlineLock, InlineLaunch, InlinePolled, InlineEnd
    <3>2. 1 \in 1..Len(RanksOf(api[t].id))
      BY <1>1, <3>1, CallSlots
    <3>3. QED
      BY <1>1, <1>8, <3>1, <3>2, CallSlots DEF InlineRank
  <2>2. Kept(r) /\ \A u \in Threads \ {t} : SameLevels(u, r)
    BY <1>2, <1>5, <2>1
  <2>3. Base(t, r)' = Base(t, r)
    BY <1>4
  <2>4. CASE InlineLock(t)
    <3>1. /\ api[t].pc = "inline" /\ LockRank(r, t)
          /\ api' = [api EXCEPT ![t].pc = "inlinerun"]
      BY <1>8, <2>4 DEF InlineLock
    <3>2. ~Inlines(t, r) /\ ~Polls(t, r)
      BY <3>1 DEF Inlines, Polls
    <3>3. Inlines(t, r)' /\ ~Polls(t, r)'
      BY <1>1, <1>8, <3>1, InlinePlaces
    <3>4. Holds(t, r)' = Holds(t, r) + 1
      BY <2>3, <3>2, <3>3, HoldFacts, HoldThen
    <3>5. Takes1(r, t) /\ DOMAIN rankLock' = Ranks
      BY <1>1, <2>1, <3>1 DEF LockRank, Takes1
    <3>6. Base(t, r) = 0 /\ Suspended(r) => Base(t, r)' = 0 /\ Suspended(r)'
      <4>1. HAVE Base(t, r) = 0 /\ Suspended(r)
      <4>2. PICK w \in Workers : Base(w, r) = 1 /\ Polls(w, r)
        BY <4>1 DEF Suspended
      <4>3. SameLevels(w, r)
        BY <2>2, <4>1, <4>2 DEF Threads
      <4>4. QED
        BY <2>3, <4>1, <4>2, <4>3 DEF SameLevels, Suspended
    <3>7. QED
      BY <2>2, <3>4, <3>5, <3>6, KeptLocks
  <2>5. CASE InlineLaunch(t)
    <3>1. /\ api[t].pc = "inlinerun" /\ LetGo(r)
          /\ api' = [api EXCEPT ![t].pc = "inlinepoll"]
      BY <1>8, <2>5 DEF InlineLaunch
    <3>2. Inlines(t, r)
      BY <1>8, <3>1 DEF Inlines
    <3>3. Polls(t, r)'
      BY <1>1, <1>8, <3>1, InlinePlaces
    <3>4. /\ rankLock[r].depth >= Levels(r) /\ rankLock'[r] = Released(rankLock[r], Levels(r))
          /\ DOMAIN rankLock' = Ranks
      BY <1>1, <2>1, <3>1 DEF LetGo
    <3>5. QED
      BY <1>1, <2>1, <2>2, <2>3, <3>2, <3>3, <3>4, KeptLaunches
  <2>6. CASE InlinePolled(t)
    <3>1. /\ api[t].pc = "inlinepoll" /\ Regain(r, t)
          /\ api' = [api EXCEPT ![t].pc = "inlineend"]
      BY <1>8, <2>6 DEF InlinePolled
    <3>2. Polls(t, r)
      BY <1>8, <3>1 DEF Polls
    <3>3. Inlines(t, r)'
      BY <1>1, <1>8, <3>1, InlinePlaces
    <3>4. /\ rankLock[r].depth = 0 /\ rankLock'[r] = [owner |-> t, depth |-> Levels(r)]
          /\ DOMAIN rankLock' = Ranks
      BY <1>1, <2>1, <3>1 DEF Regain
    <3>5. QED
      BY <1>1, <2>1, <2>2, <2>3, <3>2, <3>3, <3>4, KeptRegains
  <2>7. CASE InlineEnd(t)
    <3>1. /\ api[t].pc \in {"inlinerun", "inlineend"} /\ UnlockRank(r)
          /\ api' = [api EXCEPT ![t] = Idle(@.todo)]
      BY <1>8, <2>7 DEF InlineEnd
    <3>2. Inlines(t, r)
      BY <1>8, <3>1 DEF Inlines
    <3>3. ~Inlines(t, r)' /\ ~Polls(t, r)'
      <4>1. api'[t].pc = "idle"
        BY <1>1, <3>1 DEF Idle, Shapes
      <4>2. QED
        BY <4>1 DEF Inlines, Polls
    <3>4. Holds(t, r) = Holds(t, r)' + 1
      BY <2>3, <3>2, <3>3, HoldFacts, HoldThen
    <3>5. rankLock'[r] = Released(rankLock[r], 1) /\ DOMAIN rankLock' = Ranks
      BY <1>1, <2>1, <3>1 DEF UnlockRank
    <3>6. Base(t, r) = 0 /\ Suspended(r) => Base(t, r)' = 0 /\ Suspended(r)'
      <4>1. HAVE Base(t, r) = 0 /\ Suspended(r)
      <4>2. PICK w \in Workers : Base(w, r) = 1 /\ Polls(w, r)
        BY <4>1 DEF Suspended
      <4>3. SameLevels(w, r)
        BY <2>2, <4>1, <4>2 DEF Threads
      <4>4. QED
        BY <2>3, <4>1, <4>2, <4>3 DEF SameLevels, Suspended
    <3>7. QED
      BY <2>2, <3>4, <3>5, <3>6, KeptUnlocks
  <2>8. QED
    BY <1>8, <2>4, <2>5, <2>6, <2>7
<1>9. ASSUME InlineLock(t) \/ InlineLaunch(t) \/ InlinePolled(t) \/ InlineEnd(t), NEW r \in Ranks
      PROVE  Kept(r)'
  <2>1. CASE r = InlineRank(t)
    BY <1>8, <1>9, <2>1
  <2>2. CASE r # InlineRank(t)
    <3>1. rankLock'[r] = rankLock[r] /\ \A u \in Threads : SameLevels(u, r)
      BY <1>5, <1>7, <1>9, <2>2
    <3>2. QED
      BY <1>2, <3>1, KeptAlone
  <2>3. QED
    BY <2>1, <2>2
<1>10. QED
  BY <1>6, <1>7, <1>8, <1>9


-----------------------------------------------------------------------------
(* Steps of the workers.                                                    *)
(* Worker w has the FIFO of rank r, or its callback has parked it. *)
Claims(w, r) ==
  \/ work[w].rank = r /\ HasFifo(w)
  \/ /\ work[w].pc \in {"cblock", "cbstart", "cbrun"} /\ Blocking(w) /\ Single(w)
     /\ r \in RankSet(Cb(w))

(* No two workers do, of one rank. *)
LEMMA OneClaim ==
  ASSUME JobInv, NEW v \in Workers, NEW w \in Workers, NEW r, Claims(v, r), Claims(w, r)
  PROVE  v = w
<1>1. Places /\ Gathered /\ Apart /\ OneWorker
  BY DEF JobInv, Good, Places
<1>2. ASSUME NEW u \in Workers, Claims(u, r), ~(work[u].rank = r /\ HasFifo(u))
      PROVE  /\ ParkedUnder(r, Cb(u)) /\ Single(u) /\ work[u].pc \in CbPhase
  <2>1. /\ work[u].pc \in {"cblock", "cbstart", "cbrun"} /\ Blocking(u) /\ Single(u)
        /\ r \in RankSet(Cb(u))
    BY <1>2 DEF Claims
  <2>2. HasFifo(u)
    BY <2>1 DEF HasFifo
  <2>3. PICK i \in DOMAIN RanksOf(Cb(u)) : RanksOf(Cb(u))[i] = r
    BY <2>1 DEF RankSet
  <2>4. ParkedUnder(RanksOf(Cb(u))[i], Cb(u))
    BY <1>1, <1>2, <2>1, <2>2, <2>3 DEF Gathered
  <2>5. \A q : q = RanksOf(Cb(u))[i] => ParkedUnder(q, Cb(u))
    BY <2>4
  <2>6. ParkedUnder(r, Cb(u))
    BY <2>3, <2>5
  <2>7. QED
    BY <2>1, <2>6 DEF CbPhase
<1>3. CASE work[v].rank = r /\ HasFifo(v) /\ work[w].rank = r /\ HasFifo(w)
  BY <1>1, <1>3 DEF OneWorker
<1>4. CASE work[v].rank = r /\ HasFifo(v) /\ ~(work[w].rank = r /\ HasFifo(w))
  BY <1>2, <1>4 DEF ParkedUnder, Served
<1>5. CASE work[w].rank = r /\ HasFifo(w) /\ ~(work[v].rank = r /\ HasFifo(v))
  BY <1>2, <1>5 DEF ParkedUnder, Served
<1>6. CASE ~(work[w].rank = r /\ HasFifo(w)) /\ ~(work[v].rank = r /\ HasFifo(v))
  <2>1. ParkedUnder(r, Cb(v)) /\ ParkedUnder(r, Cb(w))
    BY <1>2, <1>6
  <2>2. CbJob(Cb(v)) = CbJob(Cb(w))
    BY <2>1 DEF ParkedUnder
  <2>3. Cb(v) = Cb(w)
    BY <2>2 DEF CbJob
  <2>4. QED
    BY <1>1, <1>2, <1>6, <2>3 DEF Apart
<1>7. QED
  BY <1>3, <1>4, <1>5, <1>6

LEMMA UnderClaims ==
  ASSUME Calling, NEW w \in Workers, NEW r, Under(w, r)
  PROVE  Claims(w, r)
<1>1. work[w].pc = "cbrun" /\ Blocking(w) /\ InCbRanks(w, r)
  BY DEF Under
<1>2. CASE Single(w)
  BY <1>1, <1>2 DEF InCbRanks, CbRanks, Single, RankSet, Claims
<1>3. CASE ~Single(w)
  <2>1. CbRanks(w) = <<work[w].rank>>
    BY <1>3 DEF CbRanks, Single
  <2>2. work[w].rank = r
    BY <1>1, <2>1 DEF InCbRanks
  <2>3. QED
    BY <1>1, <2>2 DEF HasFifo, Claims
<1>4. QED
  BY <1>2, <1>3

(* On a rank that a worker has, and runs no function on, no callback is     *)
(* marked, and nobody is suspended.                                         *)
LEMMA Unmarked ==
  ASSUME JobInv, Marked, NEW w \in Workers, NEW r \in Ranks, Claims(w, r), work[w].pc # "cbrun"
  PROVE  ~tidSet[r] /\ Levels(r) = 1 /\ ~Suspended(r)
<1>1. Calling /\ Frames
  BY DEF JobInv, Good
<1>2. ASSUME NEW v \in Workers, Under(v, r) PROVE FALSE
  <2>1. v = w
    BY <1>1, <1>2, UnderClaims, OneClaim
  <2>2. QED
    BY <1>2, <2>1 DEF Under
<1>3. ~tidSet[r]
  BY <1>2 DEF Marked
<1>4. ~Suspended(r)
  <2>1. SUFFICES ASSUME NEW v \in Workers, Base(v, r) = 1, Polls(v, r) PROVE FALSE
    BY DEF Suspended
  <2>2. v \in Threads
    BY DEF Threads
  <2>3. Under(v, r)
    BY <1>1, <2>1, <2>2, CallsUnder
  <2>4. QED
    BY <1>2, <2>3
<1>5. QED
  BY <1>3, <1>4 DEF Levels

(* What a worker does to the mutex of rank r. *)
Keeps1(w, r) == rankLock'[r] = rankLock[r] /\ Base(w, r)' = Base(w, r)
Locks1(w, r) ==
  /\ Takes1(r, w) /\ Base(w, r)' = Base(w, r) + 1 /\ Claims(w, r) /\ work[w].pc # "cbrun"
Regains1(w, r) ==
  /\ rankLock[r].depth = 0 /\ rankLock'[r] = [owner |-> w, depth |-> 1]
  /\ Base(w, r)' = Base(w, r) + 1
Unlocks1(w, r) ==
  /\ rankLock'[r] = Released(rankLock[r], 1) /\ Base(w, r) = Base(w, r)' + 1

LEMMA WorkerKept ==
  ASSUME JobInv, Marked, NEW r \in Ranks, Kept(r), NEW w \in Workers, api[w].pc = "idle", api'[w].pc = "idle",
         \A t \in Threads \ {w} : SameLevels(t, r),
         Keeps1(w, r) \/ Locks1(w, r) \/ Regains1(w, r) \/ Unlocks1(w, r)
  PROVE  Kept(r)'
<1>1. w \in Threads /\ ~Inlines(w, r) /\ ~Polls(w, r) /\ ~Inlines(w, r)' /\ ~Polls(w, r)'
  BY DEF Threads, Inlines, Polls
<1>2. Holds(w, r) = Base(w, r) /\ Holds(w, r)' = Base(w, r)' /\ Base(w, r) \in Nat /\ Base(w, r)' \in Nat
  BY <1>1, HoldFacts, HoldThen
<1>3. CASE Keeps1(w, r)
  <2>1. SameLevels(w, r)
    BY <1>1, <1>3 DEF Keeps1, SameLevels
  <2>2. \A t \in Threads : SameLevels(t, r)
    BY <2>1
  <2>3. QED
    BY <1>3, <2>2, KeptAlone DEF Keeps1
<1>4. CASE Locks1(w, r)
  <2>1. ~Suspended(r)
    BY <1>4, Unmarked DEF Locks1
  <2>2. Takes1(r, w) /\ Holds(w, r)' = Holds(w, r) + 1
    BY <1>2, <1>4 DEF Locks1
  <2>3. QED
    BY <1>1, <2>1, <2>2, KeptLocks
<1>5. CASE Regains1(w, r)
  <2>1. rankLock[r].depth = 0 /\ rankLock'[r] = [owner |-> w, depth |-> 1]
        /\ Base(w, r)' = Base(w, r) + 1
    BY <1>5 DEF Regains1
  <2>2. rankLock[r] = Free /\ Holds(w, r) = 0
    BY <1>1, <2>1, KeptFree
  <2>3. 1 = Holds(w, r)'
    BY <1>2, <2>1, <2>2
  <2>4. QED
    BY <1>1, <2>1, <2>2, <2>3, KeptBy
<1>6. CASE Unlocks1(w, r)
  <2>1. rankLock'[r] = Released(rankLock[r], 1) /\ Holds(w, r) = Holds(w, r)' + 1
    BY <1>2, <1>6 DEF Unlocks1
  <2>2. Base(w, r) # 0
    BY <1>2, <1>6 DEF Unlocks1
  <2>3. QED
    BY <1>1, <2>1, <2>2, KeptUnlocks
<1>7. QED
  BY <1>3, <1>4, <1>5, <1>6


(* The levels of worker w, by where it is. *)
HasOne == {"run", "polled", "advance", "fail", "drop", "unlock"}
HasNone == {"take", "exit", "lock", "poll", "cbpop", "cbinsert"}
InCallback == {"cblock", "cbstart", "cbrun", "global", "master"}

Own(w, r) == IF work[w].rank = r THEN 1 ELSE 0
Again(w, r) == IF Single(w) /\ InCbRanks(w, r) THEN 1 ELSE 0
LockedUpTo(w, r) == \E i \in DOMAIN CbRanks(w) : CbRanks(w)[i] = r /\ i < work[w].k

LEMMA BaseAt ==
  ASSUME NEW w \in Workers, NEW r
  PROVE  /\ work[w].pc \in HasOne => Base(w, r) = Own(w, r)
         /\ work[w].pc \in HasNone => Base(w, r) = 0
         /\ work[w].pc \in InCallback /\ ~Blocking(w) => Base(w, r) = 0
         /\ work[w].pc \in {"global", "master"} /\ Blocking(w) => Base(w, r) = Own(w, r)
         /\ work[w].pc \in {"cbstart", "cbrun"} /\ Blocking(w) => Base(w, r) = Own(w, r) + Again(w, r)
         /\ work[w].pc = "cblock" /\ Blocking(w) /\ Single(w) =>
              Base(w, r) = Own(w, r) + IF LockedUpTo(w, r) THEN 1 ELSE 0
<1>1. work[w].pc \in HasOne =>
        (HasRank(w, r) <=> work[w].rank = r) /\ ~HasAgain(w, r)
  BY DEF HasRank, HasAgain, HasOne
<1>2. work[w].pc \in HasNone => ~HasRank(w, r) /\ ~HasAgain(w, r)
  BY DEF HasRank, HasAgain, HasNone
<1>3. work[w].pc \in InCallback /\ ~Blocking(w) => ~HasRank(w, r) /\ ~HasAgain(w, r)
  BY DEF HasRank, HasAgain, InCallback
<1>4. work[w].pc \in {"global", "master"} /\ Blocking(w) =>
        (HasRank(w, r) <=> work[w].rank = r) /\ ~HasAgain(w, r)
  BY DEF HasRank, HasAgain
<1>5. work[w].pc \in {"cbstart", "cbrun"} /\ Blocking(w) =>
        (HasRank(w, r) <=> work[w].rank = r) /\ (HasAgain(w, r) <=> Single(w) /\ InCbRanks(w, r))
  BY DEF HasRank, HasAgain, InCbRanks
<1>6. work[w].pc = "cblock" /\ Blocking(w) /\ Single(w) =>
        (HasRank(w, r) <=> work[w].rank = r) /\ (HasAgain(w, r) <=> LockedUpTo(w, r))
  BY DEF HasRank, HasAgain, LockedUpTo
<1>7. QED
  BY <1>1, <1>2, <1>3, <1>4, <1>5, <1>6 DEF Base, Own, Again

LEMMA BaseThen ==
  ASSUME program' = program, NEW w \in Workers, NEW r
  PROVE  /\ work'[w].pc \in HasNone => Base(w, r)' = 0
         /\ work'[w].pc \in HasOne /\ work'[w].rank = work[w].rank => Base(w, r)' = Own(w, r)
         /\ SameJob(w) /\ work'[w].pc \in InCallback /\ ~Blocking(w) => Base(w, r)' = 0
         /\ SameJob(w) /\ work'[w].pc \in {"global", "master"} /\ Blocking(w) => Base(w, r)' = Own(w, r)
         /\ SameJob(w) /\ work'[w].pc \in {"cbstart", "cbrun"} /\ Blocking(w) =>
              Base(w, r)' = Own(w, r) + Again(w, r)
         /\ SameJob(w) /\ work'[w].pc = "cblock" /\ Blocking(w) /\ Single(w) =>
              \A k : work'[w].k = k =>
                Base(w, r)' = Own(w, r) +
                  IF \E i \in DOMAIN CbRanks(w) : CbRanks(w)[i] = r /\ i < k THEN 1 ELSE 0
<1>1. work'[w].pc \in HasOne /\ work'[w].rank = work[w].rank =>
        (HasRank(w, r)' <=> work[w].rank = r) /\ ~HasAgain(w, r)'
  BY DEF HasRank, HasAgain, HasOne
<1>2. work'[w].pc \in HasNone => ~HasRank(w, r)' /\ ~HasAgain(w, r)'
  BY DEF HasRank, HasAgain, HasNone
<1>3. SameJob(w) => /\ work'[w].rank = work[w].rank
                    /\ (Single(w)' <=> Single(w)) /\ (Blocking(w)' <=> Blocking(w))
                    /\ CbRanks(w)' = CbRanks(w) /\ (InCbRanks(w, r)' <=> InCbRanks(w, r))
  <2>1. HAVE SameJob(w)
  <2>2. work'[w].rank = work[w].rank /\ Cb(w)' = Cb(w)
        /\ (Single(w)' <=> Single(w)) /\ (Blocking(w)' <=> Blocking(w))
    BY <2>1, SameWorker DEF SameJob
  <2>3. CbRanks(w)' = CbRanks(w)
    BY <2>2, SameProgram DEF CbRanks
  <2>4. QED
    BY <2>2, <2>3 DEF InCbRanks
<1>4. SameJob(w) /\ work'[w].pc \in InCallback /\ ~Blocking(w) => ~HasRank(w, r)' /\ ~HasAgain(w, r)'
  BY <1>3 DEF HasRank, HasAgain, InCallback
<1>5. SameJob(w) /\ work'[w].pc \in {"global", "master"} /\ Blocking(w) =>
        (HasRank(w, r)' <=> work[w].rank = r) /\ ~HasAgain(w, r)'
  BY <1>3 DEF HasRank, HasAgain
<1>6. SameJob(w) /\ work'[w].pc \in {"cbstart", "cbrun"} /\ Blocking(w) =>
        (HasRank(w, r)' <=> work[w].rank = r) /\ (HasAgain(w, r)' <=> Single(w) /\ InCbRanks(w, r))
  BY <1>3 DEF HasRank, HasAgain, InCbRanks
<1>7. SameJob(w) /\ work'[w].pc = "cblock" /\ Blocking(w) /\ Single(w) =>
        (HasRank(w, r)' <=> work[w].rank = r)
        /\ (HasAgain(w, r)' <=> \E i \in DOMAIN CbRanks(w) : CbRanks(w)[i] = r /\ i < work'[w].k)
  BY <1>3 DEF HasRank, HasAgain
<1>8. QED
  BY <1>1, <1>2, <1>4, <1>5, <1>6, <1>7 DEF Base, Own, Again

Held1(w, r) == Keeps1(w, r) \/ Locks1(w, r) \/ Regains1(w, r) \/ Unlocks1(w, r)

(* Only the rank of the worker is touched. *)
Locally(w) == \A r \in Ranks : r # work[w].rank => rankLock'[r] = rankLock[r]


(* Taking a rank, running a job and letting go of the rank. *)
LEMMA RunHolds ==
  ASSUME JobInv, LockInv, NEW w \in Workers, program' = program, Does(w),
         \/ Take(w) \/ Exit(w) \/ Lock(w) \/ RunCopy(w) \/ RunLaunch(w) \/ Polled(w)
         \/ RunSync(w) \/ Advance(w) \/ Fail(w) \/ Drop(w) \/ Unlock(w)
  PROVE  /\ DOMAIN rankLock' = Ranks /\ tidSet' = tidSet
         /\ work[w].pc # "cbrun" /\ work'[w].pc \notin {"cbrun", "cblock"}
         /\ \A r \in Ranks : Held1(w, r)
<1> USE DEF flags, Held1, Running, Doing
<1>0. /\ Shapes /\ Worked(w) /\ DOMAIN rankLock = Ranks /\ Marked /\ Calling
      /\ \A r : Own(w, r) = IF work[w].rank = r THEN 1 ELSE 0
  BY DEF JobInv, Good, LockInv, Does, Own
<1>1. CASE Take(w) \/ Exit(w)
  <2>1. /\ rankLock' = rankLock /\ tidSet' = tidSet /\ work[w].pc = "take"
        /\ work'[w].pc \in {"lock", "exit"}
    BY <1>0, <1>1 DEF Take, Exit, Goes, Shapes, WorkFields, Resting
  <2>2. \A r : Base(w, r) = 0 /\ Base(w, r)' = 0
    BY <1>0, <2>1, BaseAt, BaseThen DEF HasNone
  <2>3. QED
    BY <1>0, <2>1, <2>2 DEF Keeps1
<1>2. CASE RunCopy(w) \/ RunSync(w) \/ Advance(w) \/ Fail(w) \/ Drop(w)
  <2>1. /\ rankLock' = rankLock /\ tidSet' = tidSet /\ work[w].pc \in HasOne
    BY <1>2 DEF RunCopy, RunSync, Advance, Fail, Drop, HasOne
  <2>2. work'[w].pc \in HasOne /\ work'[w].rank = work[w].rank
    <3>1. CASE RunCopy(w) \/ RunSync(w) \/ Fail(w) \/ Drop(w)
      <4>1. (\E pc \in HasOne : Goes(w, pc)) \/ work' = work
        BY <3>1 DEF RunCopy, RunSync, Fail, Drop, HasOne
      <4>2. QED
        BY <1>0, <2>1, <4>1, GoesWorks DEF SameJob
    <3>2. CASE Advance(w)
      BY <1>0, <3>2 DEF Advance, Shapes, WorkFields, HasOne
    <3>3. QED
      BY <1>2, <3>1, <3>2
  <2>3. \A r : Base(w, r)' = Base(w, r)
    BY <1>0, <2>1, <2>2, BaseAt, BaseThen
  <2>4. QED
    BY <1>0, <2>1, <2>2, <2>3 DEF Keeps1, HasOne
<1>3. ASSUME Lock(w) \/ RunLaunch(w) \/ Polled(w) \/ Unlock(w)
      PROVE  /\ DOMAIN rankLock' = Ranks /\ tidSet' = tidSet /\ Locally(w)
             /\ work[w].pc \in HasOne \cup HasNone
             /\ work'[w].pc \in HasNone \cup {"run", "polled"}
             /\ work'[w].pc \in HasOne => work'[w].rank = work[w].rank
             /\ work[w].pc \in {"lock", "run", "poll"} => HasFifo(w)
  <2>1. DOMAIN rankLock' = Ranks /\ tidSet' = tidSet /\ Locally(w)
    BY <1>0, <1>3 DEF Lock, RunLaunch, Polled, Unlock, LockRank, LetGo, Regain, UnlockRank, Locally
  <2>2. CASE Lock(w) \/ RunLaunch(w) \/ Polled(w)
    <3>1. /\ work[w].pc \in {"lock", "run", "poll"}
          /\ \E pc \in {"run", "poll", "polled"} : Goes(w, pc)
      BY <2>2 DEF Lock, RunLaunch, Polled
    <3>2. QED
      BY <1>0, <2>1, <3>1, GoesWorks DEF SameJob, HasOne, HasNone, HasFifo
  <2>3. CASE Unlock(w)
    BY <1>0, <2>1, <2>3 DEF Unlock, Shapes, Resting, HasOne, HasNone
  <2>4. QED
    BY <1>3, <2>2, <2>3
<1>4. ASSUME Lock(w) \/ RunLaunch(w) \/ Polled(w) \/ Unlock(w), NEW r \in Ranks, r # work[w].rank
      PROVE  Keeps1(w, r)
  <2>1. Base(w, r) = 0
    BY <1>0, <1>3, <1>4, BaseAt
  <2>2. Base(w, r)' = 0
    BY <1>0, <1>3, <1>4, BaseThen DEF HasOne
  <2>3. QED
    BY <1>3, <1>4, <2>1, <2>2 DEF Locally, Keeps1
<1>5. ASSUME NEW r \in Ranks, r = work[w].rank, Lock(w) \/ RunLaunch(w) \/ Polled(w) \/ Unlock(w)
      PROVE  Held1(w, r)
  <2>1. \A x \in HasOne : work[w].pc = x => Base(w, r) = 1
    BY <1>0, <1>5, BaseAt
  <2>2. \A x \in HasNone : work[w].pc = x => Base(w, r) = 0
    BY BaseAt
  <2>3. /\ work'[w].pc \in HasOne => Base(w, r)' = 1
        /\ work'[w].pc \in HasNone => Base(w, r)' = 0
    BY <1>0, <1>3, <1>5, BaseThen
  <2>4. CASE Lock(w)
    <3>1. work[w].pc = "lock" /\ work'[w].pc = "run" /\ LockRank(r, w)
      BY <1>0, <1>5, <2>4, GoesWorks DEF Lock
    <3>2. Takes1(r, w)
      BY <1>0, <3>1 DEF LockRank, Takes1
    <3>3. Base(w, r)' = Base(w, r) + 1
      BY <2>2, <2>3, <3>1 DEF HasOne, HasNone
    <3>4. Claims(w, r)
      BY <1>3, <1>5, <3>1 DEF Claims
    <3>5. QED
      BY <3>1, <3>2, <3>3, <3>4 DEF Locks1
  <2>5. CASE RunLaunch(w)
    <3>1. work[w].pc = "run" /\ work'[w].pc = "poll" /\ LetGo(r)
      BY <1>0, <1>5, <2>5, GoesWorks DEF RunLaunch
    <3>2. Claims(w, r)
      BY <1>3, <1>5, <3>1 DEF Claims
    <3>3. Levels(r) = 1
      BY <1>0, <1>5, <3>1, <3>2, Unmarked
    <3>4. rankLock'[r] = Released(rankLock[r], 1)
      BY <1>0, <3>1, <3>3 DEF LetGo
    <3>5. Base(w, r) = Base(w, r)' + 1
      BY <2>1, <2>3, <3>1 DEF HasOne, HasNone
    <3>6. QED
      BY <3>4, <3>5 DEF Unlocks1
  <2>6. CASE Polled(w)
    <3>1. work[w].pc = "poll" /\ work'[w].pc = "polled" /\ Regain(r, w)
      BY <1>0, <1>5, <2>6, GoesWorks DEF Polled
    <3>2. Claims(w, r)
      BY <1>3, <1>5, <3>1 DEF Claims
    <3>3. Levels(r) = 1
      BY <1>0, <1>5, <3>1, <3>2, Unmarked
    <3>4. rankLock[r].depth = 0 /\ rankLock'[r] = [owner |-> w, depth |-> 1]
      BY <1>0, <3>1, <3>3 DEF Regain
    <3>5. Base(w, r)' = Base(w, r) + 1
      BY <2>2, <2>3, <3>1 DEF HasOne, HasNone
    <3>6. QED
      BY <3>4, <3>5 DEF Regains1
  <2>7. CASE Unlock(w)
    <3>1. work[w].pc = "unlock" /\ work'[w].pc = "take" /\ UnlockRank(r)
      BY <1>0, <1>5, <2>7 DEF Unlock, Shapes, Resting
    <3>2. rankLock'[r] = Released(rankLock[r], 1)
      BY <1>0, <3>1 DEF UnlockRank
    <3>3. Base(w, r) = Base(w, r)' + 1
      BY <2>1, <2>3, <3>1 DEF HasOne, HasNone
    <3>4. QED
      BY <3>2, <3>3 DEF Unlocks1
  <2>8. QED
    BY <1>5, <2>4, <2>5, <2>6, <2>7
<1>6. ASSUME Lock(w) \/ RunLaunch(w) \/ Polled(w) \/ Unlock(w)
      PROVE  /\ DOMAIN rankLock' = Ranks /\ tidSet' = tidSet
             /\ work[w].pc # "cbrun" /\ work'[w].pc \notin {"cbrun", "cblock"}
             /\ \A r \in Ranks : Held1(w, r)
  BY <1>3, <1>4, <1>5, <1>6 DEF HasOne, HasNone
<1>7. QED
  BY <1>1, <1>2, <1>6


(* A callback job: the worker arrives at it, and goes on to its function. *)
LEMMA ArrivalHolds ==
  ASSUME JobInv, LockInv, NEW w \in Workers, program' = program, Does(w),
         CbArrive(w) \/ CbLast(w) \/ CbPop(w) \/ CbInsert(w)
  PROVE  /\ DOMAIN rankLock' = Ranks /\ tidSet' = tidSet
         /\ work[w].pc # "cbrun" /\ work'[w].pc # "cbrun"
         /\ work'[w].pc = "cblock" => work'[w].k \in DOMAIN CbRanks(w)'
         /\ \A r \in Ranks : Held1(w, r)
<1> USE DEF flags, Held1, Running, Doing
<1>0. /\ Shapes /\ Worked(w) /\ DOMAIN rankLock = Ranks /\ Calling /\ WorkHeads
      /\ \A r : Own(w, r) = IF work[w].rank = r THEN 1 ELSE 0
  BY DEF JobInv, Good, LockInv, Does, Own
<1>1. CASE CbArrive(w) /\ ~Blocking(w)
  <2>1. /\ rankLock' = rankLock /\ tidSet' = tidSet /\ work[w].pc = "run" /\ Goes(w, "advance")
    BY <1>1 DEF CbArrive
  <2>2. work'[w].pc = "advance" /\ work'[w].rank = work[w].rank
    BY <1>0, <2>1, GoesWorks DEF SameJob
  <2>3. \A r : Base(w, r)' = Base(w, r)
    BY <1>0, <2>1, <2>2, BaseAt, BaseThen DEF HasOne
  <2>4. QED
    BY <1>0, <2>1, <2>2, <2>3 DEF Keeps1
<1>2. CASE (CbArrive(w) /\ Blocking(w)) \/ (CbLast(w) /\ ~Blocking(w))
  <2>1. /\ UnlockRank(work[w].rank) /\ tidSet' = tidSet /\ work[w].pc = "run"
        /\ work' = [work EXCEPT ![w] = Resting] \/ Goes(w, "cbpop")
    BY <1>2 DEF CbArrive, CbLast
  <2>2. work'[w].pc \in {"take", "cbpop"}
    <3>1. CASE work' = [work EXCEPT ![w] = Resting]
      BY <1>0, <3>1 DEF Resting, Shapes
    <3>2. CASE Goes(w, "cbpop")
      BY <1>0, <3>2, GoesWorks
    <3>3. QED
      BY <2>1, <3>1, <3>2
  <2>3. \A r : Base(w, r)' = 0 /\ Base(w, r) = Own(w, r)
    BY <1>0, <2>1, <2>2, BaseAt, BaseThen DEF HasOne, HasNone
  <2>4. \A r \in Ranks : r # work[w].rank => Keeps1(w, r)
    BY <1>0, <2>1, <2>3 DEF UnlockRank, Keeps1
  <2>5. \A r \in Ranks : r = work[w].rank => Unlocks1(w, r)
    BY <1>0, <2>1, <2>3 DEF UnlockRank, Unlocks1
  <2>6. DOMAIN rankLock' = Ranks
    BY <1>0, <2>1 DEF UnlockRank
  <2>7. QED
    BY <2>1, <2>2, <2>4, <2>5, <2>6
<1>3. CASE CbLast(w) /\ Blocking(w)
  <2>1. /\ rankLock' = rankLock /\ tidSet' = tidSet /\ work[w].pc = "run"
        /\ work[w].job.type = "callback"
        /\ work' = [work EXCEPT ![w].k = 1, ![w].pc = IF Single(w) THEN "cblock" ELSE "cbstart"]
    BY <1>3 DEF CbLast
  <2>2. /\ SameJob(w) /\ work'[w].k = 1
        /\ work'[w].pc = IF Single(w) THEN "cblock" ELSE "cbstart"
    BY <1>0, <2>1 DEF Shapes, WorkFields, SameJob
  <2>3. Single(w) => 1 \in DOMAIN CbRanks(w) /\ CbRanks(w)' = CbRanks(w)
    <3>1. HAVE Single(w)
    <3>2. Cb(w) \in Ids(program) /\ Call(Cb(w)).op # "free"
      <4>1. HasFifo(w)
        BY <2>1 DEF HasFifo
      <4>2. work[w].rank \in Ranks /\ jobs[work[w].rank] # <<>> /\ work[w].job = Head(jobs[work[w].rank])
        BY <1>0, <2>1, <4>1 DEF WorkHeads
      <4>3. work[w].job.id \in Ids(program)
        BY <1>0, <4>2, HeadFacts DEF JobInv, Aside, Distinct
      <4>4. QED
        BY <3>1, <4>3 DEF Cb, Single, UsesMaster
    <3>3. CbRanks(w) = RanksOf(Cb(w))
      BY <3>1 DEF CbRanks, Single
    <3>4. Len(RanksOf(Cb(w))) \in Nat \ {0} /\ RanksOf(Cb(w)) \in Seq(Ranks)
      BY <1>0, <3>2, CallSlots
    <3>5. 1 \in DOMAIN CbRanks(w)
      <4>1. ASSUME NEW q \in Seq(Ranks), Len(q) \in Nat \ {0} PROVE 1 \in DOMAIN q
        BY <4>1
      <4>2. QED
        BY <3>3, <3>4, <4>1
    <3>6. CbRanks(w)' = CbRanks(w)
      BY <2>2, SameWorker, SameProgram DEF SameJob, CbRanks
    <3>7. QED
      BY <3>5, <3>6
  <2>4. \A r : Base(w, r) = Own(w, r)
    BY <2>1, BaseAt DEF HasOne
  <2>5. \A r : Base(w, r)' = Own(w, r)
    <3>1. CASE Single(w)
      <4>1. TAKE r
      <4>2. Base(w, r)' = Own(w, r) +
                  IF \E i \in DOMAIN CbRanks(w) : CbRanks(w)[i] = r /\ i < 1 THEN 1 ELSE 0
        BY <1>3, <2>2, <3>1, BaseThen
      <4>3. ~\E i \in DOMAIN CbRanks(w) : CbRanks(w)[i] = r /\ i < 1
        <5>1. DOMAIN CbRanks(w) \subseteq Nat \ {0}
          <6>1. Cb(w) \in Ids(program)
            <7>1. HasFifo(w)
              BY <2>1 DEF HasFifo
            <7>2. work[w].rank \in Ranks /\ jobs[work[w].rank] # <<>> /\ work[w].job = Head(jobs[work[w].rank])
              BY <1>0, <2>1, <7>1 DEF WorkHeads
            <7>3. QED
              BY <1>0, <7>2, HeadFacts DEF JobInv, Aside, Distinct, Cb
          <6>2. RanksOf(Cb(w)) \in Seq(Ranks)
            BY <1>0, <6>1, CallFacts
          <6>3. CbRanks(w) = RanksOf(Cb(w))
            BY <3>1 DEF CbRanks, Single
          <6>4. ASSUME NEW q \in Seq(Ranks) PROVE DOMAIN q \subseteq Nat \ {0}
            BY <6>4
          <6>5. QED
            BY <6>2, <6>3, <6>4
        <5>2. QED
          BY <5>1
      <4>4. QED
        BY <4>2, <4>3, <1>0
    <3>2. CASE ~Single(w)
      BY <1>0, <1>3, <2>2, <3>2, BaseThen DEF Again
    <3>3. QED
      BY <3>1, <3>2
  <2>6. QED
    BY <1>0, <2>1, <2>2, <2>3, <2>4, <2>5 DEF Keeps1
<1>4. CASE CbPop(w) \/ CbInsert(w)
  <2>1. /\ rankLock' = rankLock /\ tidSet' = tidSet /\ work[w].pc \in {"cbpop", "cbinsert"}
    BY <1>4 DEF CbPop, CbInsert
  <2>2. SameJob(w) /\ work'[w].pc \in {"cbstart", "cbinsert"}
    <3>1. CASE CbPop(w)
      BY <1>0, <3>1 DEF CbPop, Shapes, WorkFields, SameJob
    <3>2. CASE CbInsert(w)
      BY <1>0, <3>2, GoesWorks DEF CbInsert, Shapes, WorkFields, SameJob
    <3>3. QED
      BY <1>4, <3>1, <3>2
  <2>3. ~Blocking(w)
    BY <1>0, <2>1 DEF Calling, CbPhase
  <2>4. \A r : Base(w, r) = 0 /\ Base(w, r)' = 0
    BY <1>0, <2>1, <2>2, <2>3, BaseAt, BaseThen DEF HasNone, InCallback
  <2>5. QED
    BY <1>0, <2>1, <2>2, <2>4 DEF Keeps1
<1>5. QED
  BY <1>1, <1>2, <1>3, <1>4


(* A worker locks the next rank of a blocking callback. *)
LEMMA CbLockHolds ==
  ASSUME JobInv, LockInv, NEW w \in Workers, program' = program, Does(w), CbLock(w)
  PROVE  /\ DOMAIN rankLock' = Ranks /\ tidSet' = tidSet
         /\ work[w].pc # "cbrun" /\ work'[w].pc # "cbrun"
         /\ work'[w].pc = "cblock" => work'[w].k \in DOMAIN CbRanks(w)'
         /\ \A r \in Ranks : Held1(w, r)
<1> DEFINE k == work[w].k
           ranks == CbRanks(w)
<1>a. PICK s : s = ranks[k]
  OBVIOUS
<1>0. /\ Shapes /\ Worked(w) /\ DOMAIN rankLock = Ranks /\ Calling
      /\ \A r : Own(w, r) = IF work[w].rank = r THEN 1 ELSE 0
  BY DEF JobInv, Good, LockInv, Does, Own
<1>1. /\ work[w].pc = "cblock" /\ tidSet' = tidSet /\ LockRank(s, w)
      /\ work' = [work EXCEPT ![w].k = @ + 1,
                    ![w].pc = IF k = Len(ranks) THEN "cbstart" ELSE "cblock"]
  BY <1>a DEF CbLock, Doing, flags
<1>2. /\ SameJob(w) /\ work'[w].k = k + 1
      /\ work'[w].pc = IF k = Len(ranks) THEN "cbstart" ELSE "cblock"
  BY <1>0, <1>1 DEF Shapes, WorkFields, SameJob
<1>3. Blocking(w) /\ Single(w) /\ Cb(w) \in Ids(program) /\ Call(Cb(w)).op # "free" /\ k \in DOMAIN ranks
  BY <1>0, <1>1 DEF Calling, CbPhase, LockInv, LocksNext
<1>4. /\ ranks \in Seq(Ranks) /\ Len(ranks) \in Nat /\ DOMAIN ranks = 1..Len(ranks)
      /\ k \in 1..Len(ranks) /\ s \in Ranks
      /\ \A i, j \in DOMAIN ranks : ranks[i] = ranks[j] => i = j
  <2>1. ranks = RanksOf(Cb(w)) /\ ranks \in Seq(Ranks)
    BY <1>0, <1>3, CallSlots DEF CbRanks, Single
  <2>2. \A i, j \in DOMAIN ranks : ranks[i] = ranks[j] => i = j
    BY <1>0, <1>3, <2>1, CallFacts DEF CallOK, RanksOf
  <2> HIDE DEF ranks
  <2>3. Len(ranks) \in Nat /\ DOMAIN ranks = 1..Len(ranks)
    BY <2>1
  <2>4. QED
    BY <1>a, <1>3, <2>1, <2>2, <2>3
<1>5. ranks' = ranks
  BY <1>2, SameWorker, SameProgram DEF SameJob, CbRanks
<1>6. \A r : Base(w, r) = Own(w, r) + IF LockedUpTo(w, r) THEN 1 ELSE 0
  BY <1>1, <1>3, BaseAt
<1>7. \A r : LockedUpTo(w, r) <=> \E i \in 1..Len(ranks) : ranks[i] = r /\ i < k
  BY <1>4 DEF LockedUpTo
<1>8. \A r : Base(w, r)' = Own(w, r) + IF \E i \in 1..Len(ranks) : ranks[i] = r /\ i < k + 1 THEN 1 ELSE 0
  <2>1. CASE k = Len(ranks)
    <3>1. \A r : Base(w, r)' = Own(w, r) + Again(w, r)
      BY <1>0, <1>2, <1>3, <2>1, BaseThen
    <3>2. \A r : InCbRanks(w, r) <=> \E i \in 1..Len(ranks) : ranks[i] = r /\ i < k + 1
      BY <1>4, <2>1 DEF InCbRanks
    <3>3. QED
      BY <1>3, <3>1, <3>2 DEF Again
  <2>2. CASE k # Len(ranks)
    <3>1. \A r : Base(w, r)' = Own(w, r) +
                   IF \E i \in DOMAIN ranks : ranks[i] = r /\ i < k + 1 THEN 1 ELSE 0
      BY <1>0, <1>2, <1>3, <2>2, BaseThen
    <3>2. QED
      BY <1>4, <3>1
  <2>3. QED
    BY <2>1, <2>2
<1> HIDE DEF k, ranks
<1>9. \A r \in Ranks : r # s => Base(w, r)' = Base(w, r)
  <2>1. TAKE r \in Ranks
  <2>2. HAVE r # s
  <2>3. (\E i \in 1..Len(ranks) : ranks[i] = r /\ i < k + 1) <=> LockedUpTo(w, r)
    <3>1. \A i \in 1..Len(ranks) : ranks[i] = r => i # k
      BY <1>a, <2>2
    <3>2. \A i \in 1..Len(ranks) : i # k => (i < k + 1 <=> i < k)
      BY <1>4
    <3>3. QED
      BY <1>7, <3>1, <3>2
  <2>4. QED
    BY <1>6, <1>8, <2>3
<1>10. Base(w, s)' = Base(w, s) + 1
  <2>1. ~LockedUpTo(w, s)
    <3>1. \A i \in 1..Len(ranks) : ranks[i] = s => i = k
      BY <1>a, <1>4
    <3>2. ~(k < k)
      BY <1>4
    <3>3. QED
      BY <1>7, <3>1, <3>2
  <2>2. \E i \in 1..Len(ranks) : ranks[i] = s /\ i < k + 1
    BY <1>a, <1>4
  <2>3. Own(w, s) \in {0, 1}
    BY DEF Own
  <2>4. Base(w, s) = Own(w, s) /\ Base(w, s)' = Own(w, s) + 1
    BY <1>6, <1>8, <2>1, <2>2, <2>3
  <2>5. QED
    BY <2>4
<1>11. Takes1(s, w) /\ DOMAIN rankLock' = Ranks /\ \A r \in Ranks : r # s => rankLock'[r] = rankLock[r]
  BY <1>0, <1>1, <1>4 DEF LockRank, Takes1
<1>12. Claims(w, s)
  <2>1. s \in RankSet(Cb(w))
    BY <1>a, <1>3, <1>4 DEF ranks, CbRanks, Single, RankSet
  <2>2. QED
    BY <1>1, <1>3, <2>1 DEF Claims
<1>13. \A r \in Ranks : Held1(w, r)
  BY <1>1, <1>9, <1>10, <1>11, <1>12 DEF Held1, Keeps1, Locks1
<1>14. work'[w].pc = "cblock" => work'[w].k \in DOMAIN CbRanks(w)'
  <2>1. k # Len(ranks) => k + 1 \in DOMAIN ranks
    <3>1. ASSUME NEW n \in Nat, NEW m \in 1..n, m # n PROVE m + 1 \in 1..n
      BY <3>1
    <3>2. QED
      BY <1>4, <3>1
  <2>2. QED
    BY <1>2, <1>5, <2>1 DEF ranks
<1>15. QED
  BY <1>1, <1>2, <1>11, <1>13, <1>14

(* The function of a callback begins and returns. *)
LEMMA FunctionHolds ==
  ASSUME JobInv, LockInv, NEW w \in Workers, program' = program, Does(w), CbStart(w) \/ CbEnd(w)
  PROVE  /\ DOMAIN rankLock' = Ranks /\ DOMAIN tidSet' = Ranks /\ work'[w].pc # "cblock"
         /\ Marked'
         /\ \A r \in Ranks : Held1(w, r)
<1>0. /\ Shapes /\ Worked(w) /\ DOMAIN rankLock = Ranks /\ Calling /\ Marked
      /\ \A r : Own(w, r) = IF work[w].rank = r THEN 1 ELSE 0
  BY DEF JobInv, Good, LockInv, Does, Own
<1>1. \A v \in Workers \ {w} : \A r : Under(v, r)' <=> Under(v, r)
  <2>1. TAKE v \in Workers \ {w}
  <2>2. work'[v] = work[v]
    BY <1>0 DEF Worked
  <2>3. Cb(v)' = Cb(v) /\ (Single(v)' <=> Single(v)) /\ (Blocking(v)' <=> Blocking(v))
    BY <2>2, SameWorker
  <2>4. CbRanks(v)' = CbRanks(v)
    BY <2>2, <2>3, SameProgram DEF CbRanks
  <2>5. QED
    BY <2>2, <2>3, <2>4 DEF Under, InCbRanks
<1>2. CASE CbStart(w)
  <2>1. /\ work[w].pc = "cbstart" /\ Goes(w, "cbrun") /\ rankLock' = rankLock
        /\ tidSet' = [r \in Ranks |-> tidSet[r] \/ (Blocking(w) /\ InCbRanks(w, r))]
    BY <1>2 DEF CbStart, Doing
  <2>2. SameJob(w) /\ work'[w].pc = "cbrun"
    BY <1>0, <2>1, GoesWorks
  <2>3. \A r : Base(w, r)' = Base(w, r)
    BY <1>0, <2>1, <2>2, BaseAt, BaseThen DEF InCallback
  <2>4. \A r : Under(w, r)' <=> Blocking(w) /\ InCbRanks(w, r)
    <3>1. (Blocking(w)' <=> Blocking(w)) /\ CbRanks(w)' = CbRanks(w)
      BY <2>2, SameWorker, SameProgram DEF SameJob, CbRanks
    <3>2. QED
      BY <2>2, <3>1 DEF Under, InCbRanks
  <2>5. \A r : ~Under(w, r)
    BY <2>1 DEF Under
  <2>6. \A r \in Ranks : tidSet'[r] <=> tidSet[r] \/ (Blocking(w) /\ InCbRanks(w, r))
    BY <2>1
  <2>7. \A r \in Ranks : tidSet'[r] <=> \E v \in Workers : Under(v, r)'
    <3>1. TAKE r \in Ranks
    <3>2. tidSet[r] <=> \E v \in Workers : Under(v, r)
      BY <1>0 DEF Marked
    <3>3. QED
      BY <1>1, <2>4, <2>5, <2>6, <3>2
  <2>8. QED
    BY <1>0, <2>1, <2>2, <2>3, <2>7 DEF Marked, Held1, Keeps1
<1>3. CASE CbEnd(w)
  <2>1. /\ work[w].pc = "cbrun" /\ tidSet' = [r \in Ranks |-> tidSet[r] /\ ~(Blocking(w) /\ InCbRanks(w, r))]
        /\ rankLock' = [r \in Ranks |-> IF Blocking(w) /\ Single(w) /\ InCbRanks(w, r)
                                        THEN Released(rankLock[r], 1) ELSE rankLock[r]]
        /\ \E failed : work' = IF Single(w)
               THEN [work EXCEPT ![w].pc = IF Blocking(w) THEN "global" ELSE "master",
                                 ![w].k = 1, ![w].failed = failed]
               ELSE CbOver(w, failed)
    BY <1>3 DEF CbEnd, Doing
  <2>2. /\ Blocking(w) /\ Single(w) => SameJob(w) /\ work'[w].pc = "global"
        /\ ~Blocking(w) /\ Single(w) => SameJob(w) /\ work'[w].pc = "master"
        /\ Blocking(w) /\ ~Single(w) => SameJob(w) /\ work'[w].pc \in {"fail", "advance"}
        /\ ~Blocking(w) /\ ~Single(w) => work'[w].pc = "take"
    <3>1. CASE Single(w)
      BY <1>0, <2>1, <3>1 DEF Shapes, WorkFields, SameJob
    <3>2. CASE ~Single(w)
      <4>1. PICK failed : work' = CbOver(w, failed)
        BY <2>1, <3>2
      <4>2. QED
        BY <1>0, <3>2, <4>1 DEF CbOver, Shapes, WorkFields, SameJob, Resting
    <3>3. QED
      BY <3>1, <3>2
  <2>3. \A r \in Ranks : Held1(w, r)
    <3>1. TAKE r \in Ranks
    <3>2. CASE Blocking(w) /\ Single(w)
      <4>1. Base(w, r) = Own(w, r) + Again(w, r) /\ Base(w, r)' = Own(w, r)
        BY <2>1, <2>2, <3>2, BaseAt, BaseThen
      <4>2. CASE InCbRanks(w, r)
        <5>1. rankLock'[r] = Released(rankLock[r], 1)
          BY <2>1, <3>2, <4>2
        <5>2. Base(w, r) = Base(w, r)' + 1
          BY <3>2, <4>1, <4>2 DEF Again
        <5>3. QED
          BY <5>1, <5>2 DEF Held1, Unlocks1
      <4>3. CASE ~InCbRanks(w, r)
        <5>1. rankLock'[r] = rankLock[r]
          BY <2>1, <4>3
        <5>2. Base(w, r) = Base(w, r)'
          BY <1>0, <4>1, <4>3 DEF Again
        <5>3. QED
          BY <5>1, <5>2 DEF Held1, Keeps1
      <4>4. QED
        BY <4>2, <4>3
    <3>3. CASE ~Blocking(w)
      <4>1. Base(w, r) = 0 /\ Base(w, r)' = 0
        BY <2>1, <2>2, <3>3, BaseAt, BaseThen DEF InCallback, HasNone
      <4>2. QED
        BY <2>1, <3>3, <4>1 DEF Held1, Keeps1
    <3>4. CASE Blocking(w) /\ ~Single(w)
      <4>1. Base(w, r) = Own(w, r) + 0 /\ Base(w, r)' = Own(w, r)
        BY <2>1, <2>2, <3>4, BaseAt, BaseThen DEF Again, HasOne, SameJob
      <4>2. QED
        BY <1>0, <2>1, <3>4, <4>1 DEF Held1, Keeps1
    <3>5. QED
      BY <3>2, <3>3, <3>4
  <2>4. \A r : ~Under(w, r)'
    BY <2>2 DEF Under
  <2>5. \A r : Under(w, r) <=> Blocking(w) /\ InCbRanks(w, r)
    BY <2>1 DEF Under
  <2>6. \A r \in Ranks : tidSet'[r] <=> \E v \in Workers : Under(v, r)'
    <3>1. TAKE r \in Ranks
    <3>2. tidSet[r] <=> \E v \in Workers : Under(v, r)
      BY <1>0 DEF Marked
    <3>3. ASSUME Under(w, r), NEW v \in Workers \ {w}, Under(v, r) PROVE FALSE
      BY <1>0, <3>3, UnderClaims, OneClaim
    <3>4. tidSet'[r] <=> tidSet[r] /\ ~Under(w, r)
      BY <2>1, <2>5
    <3>5. QED
      BY <1>1, <2>4, <3>2, <3>3, <3>4
  <2>7. QED
    BY <2>1, <2>2, <2>3, <2>6 DEF Marked
<1>4. QED
  BY <1>2, <1>3


(* The end of a callback: the other FIFOs go on, the master job is freed. *)
LEMMA GlobalHolds ==
  ASSUME JobInv, LockInv, NEW w \in Workers, program' = program, Does(w),
         \/ GlobalQueue(w) \/ GlobalAdvance(w) \/ GlobalSkip(w) \/ GlobalEnd(w) \/ FreeMaster(w)
  PROVE  /\ DOMAIN rankLock' = Ranks /\ tidSet' = tidSet
         /\ work[w].pc # "cbrun" /\ work'[w].pc \notin {"cbrun", "cblock"}
         /\ \A r \in Ranks : Held1(w, r)
<1> USE DEF flags, Doing
<1>0. /\ Shapes /\ Worked(w) /\ DOMAIN rankLock = Ranks /\ Calling
  BY DEF JobInv, Good, LockInv, Does
<1>1. rankLock' = rankLock /\ tidSet' = tidSet /\ work[w].pc \in {"global", "master"}
  BY DEF GlobalQueue, GlobalAdvance, GlobalSkip, GlobalEnd, FreeMaster
<1>2. CASE GlobalQueue(w) \/ GlobalAdvance(w) \/ GlobalSkip(w) \/ GlobalEnd(w)
  <2>1. SameJob(w) /\ work'[w].pc \in {"global", "master"} /\ work[w].pc = "global"
    BY <1>0, <1>2 DEF GlobalQueue, GlobalAdvance, GlobalSkip, GlobalEnd, Shapes, WorkFields, SameJob
  <2>2. Blocking(w)
    BY <1>0, <2>1 DEF Calling, CbPhase
  <2>3. \A r : Base(w, r)' = Base(w, r)
    BY <1>0, <1>1, <2>1, <2>2, BaseAt, BaseThen
  <2>4. QED
    BY <1>0, <1>1, <2>1, <2>3 DEF Held1, Keeps1
<1>3. CASE FreeMaster(w)
  <2>1. work' = CbOver(w, work[w].failed) /\ work[w].pc = "master"
    BY <1>3 DEF FreeMaster
  <2>2. /\ Blocking(w) => work'[w].rank = work[w].rank /\ work'[w].pc \in {"fail", "advance"}
        /\ ~Blocking(w) => work'[w].pc = "take"
    BY <1>0, <2>1 DEF CbOver, Shapes, WorkFields, Resting
  <2>3. \A r : Base(w, r)' = Base(w, r)
    BY <1>0, <2>1, <2>2, BaseAt, BaseThen DEF HasOne, HasNone, InCallback
  <2>4. QED
    BY <1>0, <1>1, <2>1, <2>2, <2>3 DEF Held1, Keeps1
<1>4. QED
  BY <1>2, <1>3

LEMMA WorkHolds ==
  ASSUME JobInv, LockInv, NEW w \in Workers, WorkStep(w), program' = program, Does(w)
  PROVE  /\ DOMAIN rankLock' = Ranks /\ DOMAIN tidSet' = Ranks /\ Marked'
         /\ work'[w].pc = "cblock" => work'[w].k \in DOMAIN CbRanks(w)'
         /\ \A r \in Ranks : Held1(w, r)
<1>1. ASSUME tidSet' = tidSet, work[w].pc # "cbrun", work'[w].pc # "cbrun"
      PROVE  DOMAIN tidSet' = Ranks /\ Marked'
  <2>1. \A v \in Workers : \A r : Under(v, r)' <=> Under(v, r)
    <3>1. \A r : ~Under(w, r) /\ ~Under(w, r)'
      BY <1>1 DEF Under
    <3>2. ASSUME NEW v \in Workers \ {w}, NEW r PROVE Under(v, r)' <=> Under(v, r)
      <4>1. work'[v] = work[v]
        BY DEF Does, Worked
      <4>2. Cb(v)' = Cb(v) /\ (Single(v)' <=> Single(v)) /\ (Blocking(v)' <=> Blocking(v))
        BY <4>1, SameWorker
      <4>3. CbRanks(v)' = CbRanks(v)
        BY <4>1, <4>2, SameProgram DEF CbRanks
      <4>4. QED
        BY <4>1, <4>2, <4>3 DEF Under, InCbRanks
    <3>3. QED
      BY <3>1, <3>2
  <2>2. QED
    BY <1>1, <2>1 DEF Marked, LockInv
<1>2. CASE \/ Take(w) \/ Exit(w) \/ Lock(w) \/ RunCopy(w) \/ RunLaunch(w) \/ Polled(w)
           \/ RunSync(w) \/ Advance(w) \/ Fail(w) \/ Drop(w) \/ Unlock(w)
  BY <1>1, <1>2, RunHolds
<1>3. CASE CbArrive(w) \/ CbLast(w) \/ CbPop(w) \/ CbInsert(w)
  BY <1>1, <1>3, ArrivalHolds
<1>4. CASE CbLock(w)
  BY <1>1, <1>4, CbLockHolds
<1>5. CASE CbStart(w) \/ CbEnd(w)
  BY <1>5, FunctionHolds
<1>6. CASE \/ GlobalQueue(w) \/ GlobalAdvance(w) \/ GlobalSkip(w) \/ GlobalEnd(w) \/ FreeMaster(w)
  BY <1>1, <1>6, GlobalHolds
<1>7. QED
  BY <1>2, <1>3, <1>4, <1>5, <1>6 DEF WorkStep, CallbackStep

LEMMA WorkKept ==
  ASSUME JobInv, LockInv, NEW w \in Workers, WorkStep(w)
  PROVE  LockInv'
<1>1. /\ Shapes /\ Frames /\ Marked /\ LocksNext /\ program' = program
  BY WorkSameProgram DEF JobInv, Good, LockInv
<1>2. Does(w)
  BY <1>1, WorkKinds DEF JobInv, Good
<1>3. /\ DOMAIN rankLock' = Ranks /\ DOMAIN tidSet' = Ranks /\ Marked'
      /\ work'[w].pc = "cblock" => work'[w].k \in DOMAIN CbRanks(w)'
      /\ \A r \in Ranks : Held1(w, r)
  BY <1>1, <1>2, WorkHolds
<1>4. LocksNext'
  <2>1. ASSUME NEW v \in Workers \ {w}, work'[v].pc = "cblock" PROVE work'[v].k \in DOMAIN CbRanks(v)'
    <3>1. work'[v] = work[v]
      BY <1>2 DEF Does, Worked
    <3>2. CbRanks(v)' = CbRanks(v)
      BY <1>1, <3>1, SameWorker, SameProgram DEF CbRanks
    <3>3. QED
      BY <1>1, <2>1, <3>1, <3>2 DEF LocksNext
  <2>2. QED
    BY <1>3, <2>1 DEF LocksNext
<1>5. \A r \in Ranks : Kept(r)
  <2>1. ~undefined
    BY DEF WorkStep, CallbackStep, Take, Exit, Lock, RunCopy, RunLaunch, Polled, RunSync, Advance,
       Fail, Drop, Unlock, CbArrive, CbLast, CbPop, CbInsert, CbLock, CbStart, CbEnd,
       GlobalQueue, GlobalAdvance, GlobalSkip, GlobalEnd, FreeMaster, Doing, Running
  <2>2. QED
    BY <2>1 DEF LockInv
<1>6. api[w].pc = "idle" /\ api'[w].pc = "idle"
  <2>1. api[w] = Idle(<<>>) /\ (api'[w] = Idle(<<>>) \/ Opens(w, w))
    BY <1>1, <1>2, WorkerIdle
  <2>2. QED
    BY <2>1 DEF Opens, Idle
<1>7. ASSUME NEW t \in Threads \ {w}, NEW r PROVE SameLevels(t, r)
  <2>1. Base(t, r)' = Base(t, r)
    BY <1>1, <1>2, BaseKept DEF Does, Worked
  <2>2. api'[t] = api[t] \/ (api[t].pc \notin Inlined /\ api'[t].pc \notin Inlined)
    <3>1. Stirs(t)
      BY <1>1, WorkStirs
    <3>2. QED
      BY <3>1 DEF Stirs, Inlined
  <2>3. QED
    BY <1>1, <2>1, <2>2, InlineKept DEF SameLevels
<1>8. \A r \in Ranks : Kept(r)'
  BY <1>1, <1>3, <1>5, <1>6, <1>7, WorkerKept DEF Held1
<1>9. QED
  BY <1>3, <1>4, <1>8 DEF LockInv


(* An API step keeps the marks and the workers. *)
LEMMA ApiLocks ==
  ASSUME JobInv, LockInv, NEW t \in Threads, ApiStep(t)
  PROVE  LockInv'
<1>1. /\ Shapes /\ Locked /\ Marked /\ LocksNext /\ DOMAIN rankLock = Ranks /\ DOMAIN tidSet = Ranks
      /\ program' = program
  BY ApiSameProgram DEF JobInv, Good, LockInv
<1>2. work' = work
  BY <1>1, ApiKinds DEF Calm, Appends
<1>3. tidSet' = tidSet /\ DOMAIN rankLock' = Ranks
  <2>1. CASE ~undefined'
    BY <2>1, ApiKept
  <2>2. CASE undefined'
    <3>1. SetJobs(t) \/ DoJobs(t) \/ InlineLaunch(t)
      BY <2>2 DEF ApiStep, Begin, GetSlots, GetFails, Unget, SetJobs, DoJobs, AddJobs, AddQueue, Added,
         Woken, InlineLock, InlineLaunch, InlinePolled, InlineEnd, FreeSet, Joined, At, flags
    <3>2. QED
      BY <1>1, <3>1 DEF SetJobs, DoJobs, InlineLaunch, LetGo
  <2>3. QED
    BY <2>1, <2>2
<1>4. \A v : /\ CbRanks(v)' = CbRanks(v) /\ (Blocking(v)' <=> Blocking(v))
             /\ \A r : InCbRanks(v, r)' <=> InCbRanks(v, r)
  <2>1. TAKE v
  <2>2. CbRanks(v)' = CbRanks(v) /\ (Blocking(v)' <=> Blocking(v))
    BY <1>1, <1>2, SameWorker, SameProgram DEF CbRanks
  <2>3. QED
    BY <2>2 DEF InCbRanks
<1>5. Marked'
  <2>1. \A v \in Workers : \A r : Under(v, r)' <=> Under(v, r)
    BY <1>2, <1>4 DEF Under
  <2>2. QED
    BY <1>1, <1>3, <2>1 DEF Marked
<1>6. LocksNext'
  BY <1>1, <1>2, <1>4 DEF LocksNext
<1>7. ~undefined' => \A r \in Ranks : Kept(r)'
  BY ApiKept
<1>8. QED
  BY <1>1, <1>3, <1>5, <1>6, <1>7 DEF LockInv

LEMMA InitLocks ==
  ASSUME Init
  PROVE  LockInv
<1>1. /\ \A w \in Workers : work[w].pc = "take" /\ api[w].pc = "idle"
      /\ \A t \in Threads : api[t].pc = "idle"
  BY InitFacts DEF Threads
<1>2. /\ DOMAIN rankLock = Ranks /\ DOMAIN tidSet = Ranks
      /\ \A r \in Ranks : rankLock[r] = Free /\ ~tidSet[r]
  BY DEF Init
<1>3. \A t \in Threads : \A r : Holds(t, r) = 0
  <2>1. TAKE t \in Threads
  <2>2. TAKE r
  <2>3. ~Inlines(t, r) /\ ~Polls(t, r)
    BY <1>1 DEF Inlines, Polls
  <2>4. Base(t, r) = 0
    <3>1. CASE t \in Workers
      BY <1>1, <3>1, BaseAt DEF HasNone
    <3>2. CASE t \notin Workers
      BY <3>2 DEF Base
    <3>3. QED
      BY <3>1, <3>2
  <2>5. QED
    BY <2>3, <2>4, HoldFacts
<1>4. Marked /\ LocksNext
  BY <1>1, <1>2 DEF Marked, LocksNext, Under
<1>5. \A r \in Ranks : Kept(r)
  BY <1>2, <1>3 DEF Kept
<1>6. QED
  BY <1>2, <1>4, <1>5 DEF LockInv

LEMMA NextLocks ==
  ASSUME JobInv, LockInv, [Next]_vars
  PROVE  LockInv'
<1>1. CASE \E t \in Threads : ApiStep(t)
  BY <1>1, ApiLocks
<1>2. CASE \E w \in Workers : WorkStep(w)
  BY <1>2, WorkKept
<1>3. CASE UNCHANGED vars
  <2>1. UNCHANGED <<program, tidSet, rankLock, api, work, undefined>>
    BY <1>3 DEF vars
  <2>2. \A v : /\ CbRanks(v)' = CbRanks(v) /\ (Blocking(v)' <=> Blocking(v))
               /\ \A r : InCbRanks(v, r)' <=> InCbRanks(v, r)
    <3>1. TAKE v
    <3>2. CbRanks(v)' = CbRanks(v) /\ (Blocking(v)' <=> Blocking(v))
      BY <2>1, SameWorker, SameProgram DEF CbRanks
    <3>3. QED
      BY <3>2 DEF InCbRanks
  <2>3. \A v : \A r : Under(v, r)' <=> Under(v, r)
    BY <2>1, <2>2 DEF Under
  <2>4. Marked' /\ LocksNext'
    BY <2>1, <2>2, <2>3 DEF LockInv, Marked, LocksNext
  <2>5. \A t \in Threads : \A r : SameLevels(t, r)
    <3>1. TAKE t \in Threads
    <3>2. TAKE r
    <3>3. Base(t, r)' = Base(t, r)
      BY <2>1, BaseKept
    <3>4. QED
      BY <2>1, <3>3, InlineKept DEF SameLevels
  <2>6. \A r \in Ranks : Kept(r) => Kept(r)'
    BY <2>1, <2>5, KeptAlone
  <2>7. QED
    BY <2>1, <2>4, <2>6 DEF LockInv
<1>4. QED
  BY <1>1, <1>2, <1>3 DEF Next

(* The inductive invariant of the mutexes of the ranks: whoever has levels  *)
(* of one owns it, and callback_tid_set is true exactly on the ranks of the *)
(* blocking callbacks whose function runs (dpu_thread_job_fct,              *)
(* dpu_thread_compute_job, do_jobs).                                        *)
THEOREM LockInvariant == Spec => []LockInv
<1>1. Init => LockInv
  BY InitLocks
<1>2. JobInv /\ LockInv /\ [Next]_vars => LockInv'
  BY NextLocks
<1>3. QED
  BY <1>1, <1>2, JobInvariant, PTL DEF Spec

(* Every rank mutex is as deep as the thread that has it has locked it and  *)
(* not unlocked, whoever waits for a launch has let go, and one level too   *)
(* many is there only when a launch outlived the beginning of a callback    *)
(* (callback_tid_set is read twice in dpu_thread_compute_job).              *)
THEOREM LocksAreAccounted == Spec => []LocksAccounted
<1>1. ASSUME LockInv, ~undefined, NEW r \in Ranks, NEW t \in Threads
      PROVE  IF rankLock[r].owner = t
             THEN \/ rankLock[r].depth = Holds(t, r)
                  \/ /\ rankLock[r].depth = Holds(t, r) + 1 /\ Base(t, r) = 0
                     /\ \E w \in Workers : Base(w, r) = 1 /\ Polls(w, r)
             ELSE Holds(t, r) = 0
  <2>1. Kept(r)
    BY <1>1 DEF LockInv
  <2>2. CASE rankLock[r].owner = t
    <3>1. rankLock[r] # Free
      BY <2>2, JobCallsAssumption DEF Free, Threads
    <3>2. PICK d \in Nat \ {0} :
           /\ rankLock[r] = [owner |-> t, depth |-> d]
           /\ d = Holds(t, r) \/ (d = Holds(t, r) + 1 /\ Base(t, r) = 0 /\ Suspended(r))
      BY <2>1, <2>2, <3>1, KeptOwner
    <3>3. rankLock[r].depth = d
      BY <3>2
    <3>4. QED
      BY <2>2, <3>2, <3>3 DEF Suspended
  <2>3. CASE rankLock[r].owner # t
    <3>1. ~(Holds(t, r) > 0)
      BY <2>1, <2>3 DEF Kept
    <3>2. QED
      BY <2>3, <3>1, HoldFacts
  <2>4. QED
    BY <2>2, <2>3
<1>2. LockInv => LocksAccounted
  BY <1>1 DEF LocksAccounted
<1>3. QED
  BY <1>2, LockInvariant, PTL

-----------------------------------------------------------------------------
(***************************************************************************)
(* The types.                                                               *)
(***************************************************************************)
PcTypes ==
  /\ \A t \in Threads : api[t].pc \in ApiPcs
  /\ \A w \in Workers : work[w].pc \in WorkPcs /\ work[w].rank \in Ranks \cup {None}

FlagTypes ==
  /\ jobsLock \in [Ranks -> Threads \cup {None}]
  /\ queueLock \in [Queues -> Threads \cup {None}]
  /\ jobError \in [Ranks -> BOOLEAN] /\ tidSet \in [Ranks -> BOOLEAN]

(* What the counters of TypeOK need of the records of the calls, *)
CallTypes ==
  \A id \in Ids(program) :
    /\ Arrived(id) \subseteq RankSet(id)
    /\ call[id].master \in RankSet(id) \cup {None}
    /\ call[id].answer \in {"none", "ok", "error"}

(* and of the jobs, the slots and the mutexes of the ranks. *)
RankTypes(r) ==
  /\ DOMAIN outcome[r] \subseteq AllJobs
  /\ Len(jobs[r]) <= NrJobs /\ avail[r] \in 0..NrJobs
  /\ rankLock[r].depth \in 0..3 /\ (rankLock[r].depth = 0 <=> rankLock[r] = Free)

TypeInv == PcTypes /\ FlagTypes /\ CallTypes /\ \A r \in Ranks : RankTypes(r)

(* The program counters of the threads, *)
LEMMA ApiPcsStay ==
  ASSUME JobInv, PcTypes, NEW t \in Threads, ApiStep(t)
  PROVE  PcTypes'
<1>1. Shapes /\ Locked /\ program' = program
  BY ApiSameProgram DEF JobInv, Good
<1>2. (Calm(t) \/ Appends(t))
  BY <1>1, ApiKinds
<1>3. work' = work /\ \A u \in Threads \ {t} : api'[u] = api[u]
  BY <1>2 DEF Calm, Appends, FramesKept
<1>4. ASSUME GoesOnWith(t) PROVE api'[t].pc \in ApiPcs
  <2>1. api'[t].pc # "idle" /\ DOMAIN api = Threads /\ DOMAIN api[t] = ApiFields /\ api[t].pc \in ApiPcs
    BY <1>1, <1>4 DEF GoesOnWith, Shapes, PcTypes
  <2>2. CASE Begin(t) \/ FreeSet(t) \/ Joined(t)
    BY <1>4, <2>2 DEF Begin, FreeSet, Joined, GoesOnWith, At
  <2>3. CASE GetSlots(t) \/ GetFails(t) \/ Unget(t)
    BY <2>1, <2>3 DEF GetSlots, GetFails, Unget, Return, ApiPcs, ApiFields, Idle, At
  <2>4. CASE SetJobs(t) \/ DoJobs(t) \/ Added(t) \/ Woken(t)
    BY <2>1, <2>4 DEF SetJobs, DoJobs, Added, Woken, Return, ApiPcs, ApiFields, Idle, At
  <2>5. CASE AddJobs(t) \/ AddQueue(t)
    BY <2>1, <2>5 DEF AddJobs, AddQueue, AddedTo, ApiPcs, ApiFields, At
  <2>6. CASE InlineLock(t) \/ InlineLaunch(t) \/ InlinePolled(t) \/ InlineEnd(t)
    <3>1. \/ \E pc \in {"inlinerun", "inlinepoll", "inlineend"} : api' = [api EXCEPT ![t].pc = pc]
          \/ api' = [api EXCEPT ![t] = Idle(@.todo)]
      BY <2>6, Zenon DEF InlineLock, InlineLaunch, InlinePolled, InlineEnd
    <3>2. QED
      BY <2>1, <3>1 DEF ApiPcs, ApiFields, Idle
  <2>7. QED
    BY <2>2, <2>3, <2>4, <2>5, <2>6 DEF ApiStep
<1>5. api'[t].pc \in ApiPcs
  <2>1. CASE Begins(t) \/ ReturnsTo(t) \/ Halts(t)
    BY <2>1 DEF Begins, ReturnsTo, Halts, Idle, ApiPcs, PcTypes
  <2>2. CASE Appends(t)
    BY <2>2 DEF Appends, ApiPcs
  <2>3. QED
    BY <1>2, <1>4, <2>1, <2>2 DEF Calm
<1>6. QED
  BY <1>3, <1>5 DEF PcTypes


(* and of the workers. *)
LEMMA WorkPcsStay ==
  ASSUME JobInv, PcTypes, NEW w \in Workers, WorkStep(w)
  PROVE  PcTypes'
<1>1. Shapes /\ Frames /\ WorkHeads /\ Locked /\ program' = program
  BY WorkSameProgram DEF JobInv, Good
<1>2. Does(w) /\ (\A t \in Threads : Stirs(t))
  BY <1>1, WorkKinds, WorkStirs
<1>3. \A t \in Threads : api'[t].pc \in ApiPcs
  <2>1. \A t \in Threads : api'[t].pc = api[t].pc \/ api'[t].pc \in {"get", "woken", "idle"}
    BY <1>2 DEF Stirs
  <2>2. QED
    BY <2>1 DEF PcTypes, ApiPcs
<1>4. Worked(w) /\ Kinds(w) /\ DOMAIN work[w] = WorkFields /\ DOMAIN work = Workers
  BY <1>1, <1>2 DEF Does, Shapes
<1>5. work'[w].pc \in WorkPcs
  BY <1>4 DEF Kinds, Moves, Rests, Takes, Parks, Passes, Lasts, Pops, Inserts, AdvancesOther, Fails,
     Drops, WorkPcs
<1>6. work'[w].rank \in Ranks \cup {None}
  <2>1. work[w].rank \in Ranks \cup {None}
    BY DEF PcTypes
  <2>2. CASE SameJob(w) \/ Pops(w)
    BY <2>1, <2>2 DEF SameJob, Pops
  <2>3. CASE Takes(w)
    <3>1. queue[ServesOf[w]] \in Seq([rank : Ranks, job : JobSet]) /\ queue[ServesOf[w]] # <<>>
      BY <1>1, <2>3, JobCallsAssumption DEF Takes, Shapes
    <3>2. \A S : \A s \in Seq(S) : s # <<>> => Head(s) \in S
      OBVIOUS
    <3>3. Head(queue[ServesOf[w]]) \in [rank : Ranks, job : JobSet]
      BY <3>1, <3>2
    <3>4. Head(queue[ServesOf[w]]).rank \in Ranks
      BY <3>3
    <3>5. QED
      BY <2>3, <3>4 DEF Takes
  <2>4. CASE Rests(w) \/ Parks(w)
    <3>1. \/ work' = [work EXCEPT ![w] = Resting]
          \/ \E pc : work' = [work EXCEPT ![w].pc = pc]
          \/ work' = work
          \/ Take(w)
          \/ work'[w].pc \notin {"take", "exit"}
      <4>1. CASE Take(w) \/ Exit(w) \/ Unlock(w) \/ CbArrive(w)
        BY <4>1, Zenon DEF Exit, Unlock, CbArrive, Goes
      <4>2. CASE Lock(w) \/ RunCopy(w) \/ RunLaunch(w) \/ Polled(w) \/ RunSync(w) \/ Fail(w) \/ Drop(w)
                 \/ CbInsert(w) \/ CbStart(w)
        BY <4>2, Zenon DEF Lock, RunCopy, RunLaunch, Polled, RunSync, Fail, Drop, CbInsert, CbStart, Goes
      <4>3. CASE CbEnd(w) \/ FreeMaster(w)
        <5>1. PICK failed :
                \/ work' = CbOver(w, failed)
                \/ work' = [work EXCEPT ![w].pc = IF Blocking(w) THEN "global" ELSE "master",
                                         ![w].k = 1, ![w].failed = failed]
          BY <4>3 DEF CbEnd, FreeMaster
        <5>2. CASE work' = CbOver(w, failed)
          BY <5>2 DEF CbOver
        <5>3. CASE work' = [work EXCEPT ![w].pc = IF Blocking(w) THEN "global" ELSE "master",
                                         ![w].k = 1, ![w].failed = failed]
          BY <1>4, <5>3 DEF WorkFields
        <5>4. QED
          BY <5>1, <5>2, <5>3
      <4>4. CASE Advance(w) \/ CbPop(w) \/ CbLast(w) \/ CbLock(w)
        BY <1>4, <4>4 DEF Advance, CbPop, CbLast, CbLock, Goes, WorkFields
      <4>5. CASE GlobalQueue(w) \/ GlobalAdvance(w) \/ GlobalSkip(w) \/ GlobalEnd(w)
        BY <1>4, <4>5 DEF GlobalQueue, GlobalAdvance, GlobalSkip, GlobalEnd, Doing, WorkFields
      <4>6. QED
        BY <4>1, <4>2, <4>3, <4>4, <4>5 DEF WorkStep, CallbackStep
    <3>2. CASE work' = [work EXCEPT ![w] = Resting]
      BY <1>4, <3>2 DEF Resting
    <3>3. CASE \E pc : work' = [work EXCEPT ![w].pc = pc]
      BY <1>4, <2>1, <3>3 DEF WorkFields
    <3>4. CASE Take(w)
      <4>1. work'[w].pc = "lock"
        BY <1>4, <3>4 DEF Take, Resting
      <4>2. QED
        BY <2>4, <4>1 DEF Rests, Parks
    <3>5. QED
      BY <2>1, <2>4, <3>1, <3>2, <3>3, <3>4 DEF Rests, Parks
  <2>5. QED
    BY <1>4, <2>2, <2>3, <2>4 DEF Kinds, Moves, Passes, Lasts, Inserts, AdvancesOther, Fails, Drops
<1>7. QED
  BY <1>3, <1>4, <1>5, <1>6 DEF PcTypes, Worked

(* The mutexes of the FIFOs and queues and the flags of the ranks. *)
LEMMA ApiFlags ==
  ASSUME FlagTypes, NEW t \in Threads, ApiStep(t)
  PROVE  FlagTypes'
<1>1. jobsLock' \in [Ranks -> Threads \cup {None}]
  <2>1. \/ jobsLock' = jobsLock \/ Unget(t)
        \/ \E r : \E o \in {t, None} : jobsLock' = [jobsLock EXCEPT ![r] = o]
    BY Zenon DEF ApiStep, Begin, GetSlots, GetFails, Unget, SetJobs, DoJobs, AddJobs, AddQueue, Added,
       Woken, InlineLock, InlineLaunch, InlinePolled, InlineEnd, FreeSet, Joined, locks
  <2>2. CASE Unget(t)
    BY <2>2 DEF Unget, FlagTypes
  <2>3. QED
    BY <2>1, <2>2 DEF FlagTypes
<1>2. queueLock' \in [Queues -> Threads \cup {None}]
  <2>1. CASE AddQueue(t) \/ Added(t)
    BY <2>1 DEF AddQueue, Added, Unheld, FlagTypes
  <2>2. CASE ~(AddQueue(t) \/ Added(t))
    <3>1. queueLock' = queueLock
      BY <2>2, Zenon DEF ApiStep, Begin, GetSlots, GetFails, Unget, SetJobs, DoJobs, AddJobs,
         Woken, InlineLock, InlineLaunch, InlinePolled, InlineEnd, FreeSet, Joined, locks
    <3>2. QED
      BY <3>1 DEF FlagTypes
  <2>3. QED
    BY <2>1, <2>2
<1>3. jobError' \in [Ranks -> BOOLEAN]
  <2>1. CASE Woken(t)
    <3>1. PICK failed : jobError' = [r \in Ranks |-> jobError[r] /\ ~(failed /\ r \in RankSet(api[t].id))]
      BY <2>1 DEF Woken
    <3>2. QED
      BY <3>1
  <2>2. CASE ~Woken(t)
    <3>1. jobError' = jobError
      BY <2>2, Zenon DEF ApiStep, Begin, GetSlots, GetFails, Unget, SetJobs, DoJobs, AddJobs, AddQueue,
         Added, InlineLock, InlineLaunch, InlinePolled, InlineEnd, FreeSet, Joined
    <3>2. QED
      BY <3>1 DEF FlagTypes
  <2>3. QED
    BY <2>1, <2>2
<1>4. tidSet' = tidSet
  BY DEF ApiStep, Begin, GetSlots, GetFails, Unget, SetJobs, DoJobs, AddJobs, AddQueue, Added,
     Woken, InlineLock, InlineLaunch, InlinePolled, InlineEnd, FreeSet, Joined, flags
<1>5. QED
  BY <1>1, <1>2, <1>3, <1>4 DEF FlagTypes

LEMMA WorkFlags ==
  ASSUME FlagTypes, NEW w \in Workers, WorkStep(w)
  PROVE  FlagTypes'
<1>1. jobsLock' \in [Ranks -> Threads \cup {None}]
  <2>1. \/ jobsLock' = jobsLock
        \/ \E r : \E o \in {w, None} : jobsLock' = [jobsLock EXCEPT ![r] = o]
    BY Zenon DEF WorkStep, CallbackStep, Take, Exit, Lock, RunCopy, RunLaunch, Polled, RunSync, Advance,
       Fail, Drop, Unlock, CbArrive, CbLast, CbPop, CbInsert, CbLock, CbStart, CbEnd,
       GlobalQueue, GlobalAdvance, GlobalSkip, GlobalEnd, FreeMaster, locks
  <2>2. QED
    BY <2>1 DEF FlagTypes, Threads
<1>2. queueLock' \in [Queues -> Threads \cup {None}]
  <2>1. CASE GlobalQueue(w) \/ GlobalEnd(w)
    BY <2>1 DEF GlobalQueue, GlobalEnd, Unheld, FlagTypes, Threads
  <2>2. CASE ~(GlobalQueue(w) \/ GlobalEnd(w))
    <3>1. queueLock' = queueLock
      BY <2>2, Zenon DEF WorkStep, CallbackStep, Take, Exit, Lock, RunCopy, RunLaunch, Polled, RunSync,
         Advance, Fail, Drop, Unlock, CbArrive, CbLast, CbPop, CbInsert, CbLock, CbStart, CbEnd,
         GlobalAdvance, GlobalSkip, FreeMaster, locks
    <3>2. QED
      BY <3>1 DEF FlagTypes
  <2>3. QED
    BY <2>1, <2>2
<1>3. jobError' \in [Ranks -> BOOLEAN]
  <2>1. jobError' = jobError \/ \E r : jobError' = [jobError EXCEPT ![r] = TRUE]
    BY Zenon DEF WorkStep, CallbackStep, Take, Exit, Lock, RunCopy, RunLaunch, Polled, RunSync, Advance,
       Fail, Drop, Unlock, CbArrive, CbLast, CbPop, CbInsert, CbLock, CbStart, CbEnd,
       GlobalQueue, GlobalAdvance, GlobalSkip, GlobalEnd, FreeMaster
  <2>2. QED
    BY <2>1 DEF FlagTypes
<1>4. tidSet' \in [Ranks -> BOOLEAN]
  <2>1. CASE CbStart(w)
    BY <2>1 DEF CbStart
  <2>2. CASE CbEnd(w)
    BY <2>2 DEF CbEnd
  <2>3. CASE ~(CbStart(w) \/ CbEnd(w))
    <3>1. tidSet' = tidSet
      BY <2>3, Zenon DEF WorkStep, CallbackStep, Take, Exit, Lock, RunCopy, RunLaunch, Polled, RunSync,
         Advance, Fail, Drop, Unlock, CbArrive, CbLast, CbPop, CbInsert, CbLock,
         GlobalQueue, GlobalAdvance, GlobalSkip, GlobalEnd, FreeMaster, flags
    <3>2. QED
      BY <3>1 DEF FlagTypes
  <2>4. QED
    BY <2>1, <2>2, <2>3
<1>5. QED
  BY <1>1, <1>2, <1>3, <1>4 DEF FlagTypes


(* The calls: an answer is given once, a master job is a slot of one of the *)
(* ranks of its call.                                                       *)
LEMMA ApiCallTypes ==
  ASSUME JobInv, SlotFrames, CallTypes, NEW t \in Threads, ApiStep(t)
  PROVE  CallTypes'
<1>1. Shapes /\ program' = program
  BY ApiSameProgram DEF JobInv, Good
<1>2. Ids(program)' = Ids(program) /\ \A id : RankSet(id)' = RankSet(id)
  BY <1>1, SameProgram
<1>3. \/ call' = call
      \/ \E a \in {"ok", "error"} : \E lost :
           \/ call' = [call EXCEPT ![api[t].id].answer = a]
           \/ call' = [call EXCEPT ![api[t].id].answer = a, ![api[t].id].lost = lost]
           \/ call' = [call EXCEPT ![api[t].id].lost = lost]
      \/ api[t].pc = "set" /\ call' = [call EXCEPT ![api[t].id].master = api[t].master]
  <2>1. CASE UNCHANGED call
    BY <2>1
  <2>2. CASE GetFails(t)
    BY <2>2, Zenon DEF GetFails
  <2>3. CASE Unget(t) \/ Added(t) \/ Joined(t)
    BY <2>3, Zenon DEF Unget, Added, Joined, Return
  <2>4. CASE Woken(t)
    BY <2>4 DEF Woken, Return
  <2>5. CASE SetJobs(t)
    BY <2>5, Zenon DEF SetJobs, At
  <2>6. CASE InlineEnd(t)
    <3>1. PICK failed : call' = [call EXCEPT ![api[t].id].answer = IF failed THEN "error" ELSE "ok",
                               ![api[t].id].lost =
                                 IF api[t].inline THEN @ ELSE @ \cup {InlineRank(t)}]
      BY <2>6, Zenon DEF InlineEnd
    <3>2. QED
      BY <3>1
  <2>7. QED
    BY <2>1, <2>2, <2>3, <2>4, <2>5, <2>6, Zenon DEF ApiStep, Begin, GetSlots, DoJobs, AddJobs, AddQueue,
       InlineLock, InlineLaunch, InlinePolled, FreeSet
<1>4. api[t].pc = "set" => api[t].master \in RankSet(api[t].id) \cup {None}
  BY DEF SlotFrames, FrameOK
<1>5. ASSUME NEW id \in Ids(program)
      PROVE  /\ call'[id].arrived = call[id].arrived
             /\ call'[id].master \in {call[id].master} \cup (RankSet(id) \cup {None})
             /\ call'[id].answer \in {call[id].answer, "ok", "error"}
  <2>1. DOMAIN call = Ids(program) /\ DOMAIN call[id] = CallFields
    BY <1>1 DEF Shapes
  <2>2. CASE call' = call
    BY <2>2
  <2>3. ASSUME NEW a \in {"ok", "error"}, NEW lost,
               \/ call' = [call EXCEPT ![api[t].id].answer = a]
               \/ call' = [call EXCEPT ![api[t].id].answer = a, ![api[t].id].lost = lost]
               \/ call' = [call EXCEPT ![api[t].id].lost = lost]
        PROVE  /\ call'[id].arrived = call[id].arrived /\ call'[id].master = call[id].master
               /\ call'[id].answer \in {call[id].answer, "ok", "error"}
    <3>1. CASE call' = [call EXCEPT ![api[t].id].answer = a]
      BY <2>1, <3>1 DEF CallFields
    <3>2. CASE call' = [call EXCEPT ![api[t].id].answer = a, ![api[t].id].lost = lost]
      BY <2>1, <3>2 DEF CallFields
    <3>3. CASE call' = [call EXCEPT ![api[t].id].lost = lost]
      BY <2>1, <3>3 DEF CallFields
    <3>4. QED
      BY <2>3, <3>1, <3>2, <3>3
  <2>4. CASE api[t].pc = "set" /\ call' = [call EXCEPT ![api[t].id].master = api[t].master]
    BY <1>4, <2>1, <2>4 DEF CallFields
  <2>5. QED
    BY <1>3, <2>2, <2>3, <2>4
<1>6. QED
  BY <1>2, <1>5 DEF CallTypes, Arrived

LEMMA WorkCallTypes ==
  ASSUME JobInv, CallTypes, NEW w \in Workers, WorkStep(w)
  PROVE  CallTypes'
<1>1. Shapes /\ WorkHeads /\ Distinct /\ program' = program
  BY WorkSameProgram DEF JobInv, Good, Aside
<1>2. Ids(program)' = Ids(program) /\ \A id : RankSet(id)' = RankSet(id)
  BY <1>1, SameProgram
<1>3. \/ call' = call
      \/ \E id, failed : Notified(id, failed)
      \/ Running(w, "callback") /\ Arrives(w)
      \/ call' = [call EXCEPT ![Cb(w)].master = None]
  BY Zenon DEF WorkStep, CallbackStep, Take, Exit, Lock, RunCopy, RunLaunch, Polled, RunSync, Advance,
       Fail, Drop, Unlock, CbArrive, CbLast, CbPop, CbInsert, CbLock, CbStart, CbEnd,
       GlobalQueue, GlobalAdvance, GlobalSkip, GlobalEnd, FreeMaster
<1>4. Running(w, "callback") => work[w].rank \in RankSet(Cb(w))
  <2>1. SUFFICES ASSUME Running(w, "callback"), NEW r, r = work[w].rank PROVE r \in RankSet(Cb(w))
    OBVIOUS
  <2>2. HasFifo(w) /\ work[w].pc = "run"
    BY <2>1 DEF Running, Doing, HasFifo
  <2>3. r \in Ranks /\ jobs[r] # <<>> /\ work[w].job = Head(jobs[r])
    BY <1>1, <2>1, <2>2 DEF WorkHeads
  <2>4. Head(jobs[r]) = jobs[r][1] /\ 1 \in DOMAIN jobs[r]
    BY <1>1, <2>3, HeadFacts
  <2>5. QED
    BY <1>1, <2>3, <2>4 DEF Distinct, Cb
<1>5. ASSUME NEW id \in Ids(program)
      PROVE  /\ call'[id].arrived \subseteq RankSet(id)
             /\ call'[id].master \in {call[id].master, None}
             /\ call'[id].answer = call[id].answer
  <2>1. DOMAIN call = Ids(program) /\ DOMAIN call[id] = CallFields /\ call[id].arrived \subseteq RankSet(id)
    BY <1>1 DEF Shapes, CallTypes, Arrived
  <2>2. CASE call' = call
    BY <2>1, <2>2
  <2>3. ASSUME NEW i, NEW failed, Notified(i, failed)
        PROVE  /\ call'[id].arrived = call[id].arrived /\ call'[id].master = call[id].master
               /\ call'[id].answer = call[id].answer
    BY <2>1, <2>3 DEF Notified, CallFields
  <2>4. CASE Running(w, "callback") /\ Arrives(w)
    BY <1>4, <2>1, <2>4 DEF Arrives, CallFields
  <2>5. CASE call' = [call EXCEPT ![Cb(w)].master = None]
    BY <2>1, <2>5 DEF CallFields
  <2>6. QED
    BY <1>3, <2>1, <2>2, <2>3, <2>4, <2>5
<1>6. QED
  BY <1>2, <1>5 DEF CallTypes, Arrived


(* The jobs of a program. *)
LEMMA BatchInAll ==
  ASSUME Shapes, NEW id \in Ids(program), Call(id).op # "free", NEW n \in 1..Need(id)
  PROVE  JobsOf(program, id)[n] \in AllJobs
<1>1. JobsOf(program, id) \in Seq(JobSet) /\ Len(JobsOf(program, id)) = Need(id)
  BY BatchFacts
<1>2. n \in DOMAIN JobsOf(program, id)
  BY <1>1
<1>3. JobsOf(program, id) \in AllBatches
  BY DEF AllBatches, BatchesIn, Call, Shapes
<1>4. QED
  BY <1>2, <1>3 DEF AllJobs

(* What is submitted are jobs of programs. *)
LEMMA SubmittedStay ==
  ASSUME Shapes, NEW r \in Ranks, FifoStep(r), DOMAIN outcome[r] \subseteq AllJobs
  PROVE  DOMAIN outcome'[r] \subseteq AllJobs
<1>1. CASE FifoServes(r)
  BY <1>1, ServesKeep
<1>2. ASSUME NEW id \in Ids(program), FifoAdds(r, id)
      PROVE  DOMAIN outcome'[r] \subseteq AllJobs
  <2>1. Call(id).op # "free" /\ DOMAIN outcome'[r] = DOMAIN outcome[r] \cup {JobsOf(program, id)[n] : n \in 1..Need(id)}
    BY <1>2 DEF FifoAdds, WithQueued
  <2>2. \A n \in 1..Need(id) : JobsOf(program, id)[n] \in AllJobs
    BY <2>1, BatchInAll
  <2>3. QED
    BY <2>1, <2>2
<1>3. QED
  BY <1>1, <1>2 DEF FifoStep

(* What the accounts of a rank say of its counters. *)
LEMMA RoomOf ==
  ASSUME NEW r \in Ranks, Balanced(r), avail[r] \in Nat, jobs[r] \in Seq(JobSet)
  PROVE  /\ Len(jobs[r]) <= NrJobs /\ avail[r] \in 0..NrJobs
         /\ avail[r] + Len(jobs[r]) <= NrJobs
<1>1. Cardinality(Held(r)) \in Nat /\ Cardinality(Masters(r)) \in Nat
  BY FS_CardinalityType DEF Balanced
<1>2. Len(jobs[r]) \in Nat /\ NrJobs \in Nat
  BY JobCallsAssumption
<1>3. avail[r] + Len(jobs[r]) + Cardinality(Held(r)) + Cardinality(Masters(r)) <= NrJobs
  BY DEF Balanced, Slots
<1>4. \A a, l, h, m, n \in Nat : a + l + h + m <= n => l <= n /\ a <= n /\ a + l <= n
  OBVIOUS
<1>5. Len(jobs[r]) <= NrJobs /\ avail[r] <= NrJobs /\ avail[r] + Len(jobs[r]) <= NrJobs
  BY <1>1, <1>2, <1>3, <1>4
<1>6. QED
  BY <1>2, <1>5

(* The same of the next state. *)
LEMMA RankThen ==
  ASSUME JobInv', SlotInv', LockInv', ~undefined', NEW r \in Ranks
  PROVE  /\ Len(jobs'[r]) <= NrJobs /\ avail'[r] \in 0..NrJobs
         /\ rankLock'[r].depth \in 0..3 /\ (rankLock'[r].depth = 0 <=> rankLock'[r] = Free)
<1>1. Balanced(r)' /\ Kept(r)' /\ avail'[r] \in Nat
  BY DEF SlotInv, Balance, LockInv, SlotTypes
<1>2. jobs'[r] \in Seq(JobSet')
  BY DEF JobInv, Good, Shapes
<1>3. Len(jobs'[r]) <= NrJobs /\ avail'[r] \in 0..NrJobs
  <2>1. Cardinality(Held(r)') \in Nat /\ Cardinality(Masters(r)') \in Nat
    BY <1>1, FS_CardinalityType DEF Balanced
  <2>2. Len(jobs'[r]) \in Nat /\ NrJobs \in Nat
    BY <1>2, JobCallsAssumption
  <2>3. avail'[r] + Len(jobs'[r]) + Cardinality(Held(r)') + Cardinality(Masters(r)') <= NrJobs
    BY <1>1 DEF Balanced, Slots
  <2>4. \A a, l, h, m, n \in Nat : a + l + h + m <= n => l <= n /\ a <= n
    OBVIOUS
  <2>5. Len(jobs'[r]) <= NrJobs /\ avail'[r] <= NrJobs
    BY <1>1, <2>1, <2>2, <2>3, <2>4
  <2>6. QED
    BY <1>1, <2>2, <2>5
<1>4. rankLock'[r].depth \in 0..3 /\ (rankLock'[r].depth = 0 <=> rankLock'[r] = Free)
  <2>1. CASE rankLock'[r] = Free
    BY <2>1 DEF Free
  <2>2. CASE rankLock'[r] # Free
    <3>1. PICK t \in Threads, d \in Nat \ {0} :
            /\ rankLock'[r] = [owner |-> t, depth |-> d]
            /\ d = Holds(t, r)' \/ (d = Holds(t, r)' + 1 /\ Base(t, r)' = 0)
      BY <1>1, <2>2 DEF Kept
    <3>2. /\ Holds(t, r)' \in 0..3
          /\ Base(t, r)' = 0 => Holds(t, r)' \in 0..1
      BY HoldThen
    <3>3. d \in 1..3
      BY <3>1, <3>2
    <3>4. rankLock'[r].depth = d
      BY <3>1
    <3>5. QED
      BY <2>2, <3>3, <3>4
  <2>3. QED
    BY <2>1, <2>2
<1>5. QED
  BY <1>3, <1>4


(* What the step that does something undefined leaves of a rank. *)
LEMMA RankLast ==
  ASSUME JobInv, SlotInv, \A r \in Ranks : RankTypes(r), Next, undefined', NEW r \in Ranks
  PROVE  /\ Len(jobs'[r]) <= NrJobs /\ avail'[r] \in 0..NrJobs
         /\ rankLock'[r].depth \in 0..3 /\ (rankLock'[r].depth = 0 <=> rankLock'[r] = Free)
<1>1. ~undefined
  <2>1. ASSUME NEW t \in Threads, ApiStep(t) PROVE ~undefined
    BY <2>1 DEF ApiStep, Begin, GetSlots, GetFails, Unget, SetJobs, DoJobs, AddJobs, AddQueue, Added,
       Woken, InlineLock, InlineLaunch, InlinePolled, InlineEnd, FreeSet, Joined, At
  <2>2. ASSUME NEW w \in Workers, WorkStep(w) PROVE ~undefined
    BY <2>2, Zenon DEF WorkStep, CallbackStep, Take, Exit, Lock, RunCopy, RunLaunch, Polled, RunSync,
       Advance, Fail, Drop, Unlock, CbArrive, CbLast, CbPop, CbInsert, CbLock, CbStart, CbEnd,
       GlobalQueue, GlobalAdvance, GlobalSkip, GlobalEnd, FreeMaster, Doing, Running
  <2>3. QED
    BY <2>1, <2>2 DEF Next
<1>2. \/ \E t \in Threads : SetJobs(t) \/ DoJobs(t) \/ InlineLaunch(t)
      \/ \E w \in Workers : GlobalAdvance(w)
  <2>1. ASSUME NEW t \in Threads, ApiStep(t) PROVE SetJobs(t) \/ DoJobs(t) \/ InlineLaunch(t)
    BY <1>1, <2>1 DEF ApiStep, Begin, GetSlots, GetFails, Unget, AddJobs, AddQueue, Added,
       Woken, InlineLock, InlinePolled, InlineEnd, FreeSet, Joined, flags
  <2>2. ASSUME NEW w \in Workers, WorkStep(w) PROVE GlobalAdvance(w)
    <3>1. GlobalAdvance(w) \/ undefined' = undefined
      BY <2>2 DEF WorkStep, CallbackStep, Take, Exit, Lock, RunCopy, RunLaunch, Polled, RunSync,
         Advance, Fail, Drop, Unlock, CbArrive, CbLast, CbPop, CbInsert, CbLock, CbStart, CbEnd,
         GlobalQueue, GlobalSkip, GlobalEnd, FreeMaster, flags
    <3>2. QED
      BY <1>1, <3>1
  <2>3. QED
    BY <2>1, <2>2 DEF Next
<1>3. RankTypes(r)
  OBVIOUS
<1>4. ASSUME NEW t \in Threads, SetJobs(t) \/ DoJobs(t) \/ InlineLaunch(t)
      PROVE  /\ jobs' = jobs /\ avail' = avail
             /\ rankLock' = rankLock \/ InlineLaunch(t)
  BY <1>4 DEF SetJobs, DoJobs, InlineLaunch, fifos
<1>5. ASSUME NEW t \in Threads, InlineLaunch(t)
      PROVE  rankLock' = rankLock
  BY <1>1, <1>5 DEF InlineLaunch
<1>6. ASSUME NEW w \in Workers, GlobalAdvance(w), NEW s, s = GlobalRank(w)
      PROVE  /\ Len(jobs'[r]) <= NrJobs /\ avail'[r] \in 0..NrJobs
             /\ rankLock' = rankLock
  <2>1. s \in Ranks /\ jobs[s] # <<>>
    BY <1>6, GlobalFacts DEF JobInv, Good
  <2>2. /\ jobs' = [jobs EXCEPT ![s] = Tail(@)] /\ avail' = [avail EXCEPT ![s] = @ + 1]
        /\ rankLock' = rankLock
    BY <1>6 DEF GlobalAdvance, Pop, ReleaseSlot
  <2>3. jobs \in [Ranks -> Seq(JobSet)] /\ avail \in [Ranks -> Nat]
    BY DEF JobInv, Good, Shapes, SlotInv, SlotTypes
  <2>4. CASE r # s
    BY <1>3, <2>1, <2>2, <2>3, <2>4 DEF RankTypes
  <2>5. CASE r = s
    <3>1. Balanced(r)
      BY <1>1 DEF SlotInv, Balance
    <3>2. avail[r] + Len(jobs[r]) <= NrJobs /\ avail[r] \in Nat /\ Len(jobs[r]) <= NrJobs
      BY <2>3, <3>1, RoomOf
    <3>3. Len(jobs[r]) \in Nat /\ Len(jobs[r]) > 0 /\ Len(Tail(jobs[r])) = Len(jobs[r]) - 1
      BY <2>1, <2>3, <2>5, TailFacts
    <3>4. jobs'[r] = Tail(jobs[r]) /\ avail'[r] = avail[r] + 1
      BY <2>2, <2>3, <2>5
    <3>5. NrJobs \in Nat
      BY JobCallsAssumption
    <3>6. QED
      BY <2>2, <3>2, <3>3, <3>4, <3>5
  <2>6. QED
    BY <2>2, <2>4, <2>5
<1>7. ASSUME NEW w \in Workers, GlobalAdvance(w)
      PROVE  /\ Len(jobs'[r]) <= NrJobs /\ avail'[r] \in 0..NrJobs
             /\ rankLock' = rankLock
  <2>1. \A s : s = GlobalRank(w) =>
          Len(jobs'[r]) <= NrJobs /\ avail'[r] \in 0..NrJobs /\ rankLock' = rankLock
    BY <1>6, <1>7
  <2>2. QED
    BY <2>1
<1>8. QED
  BY <1>2, <1>3, <1>4, <1>5, <1>7 DEF RankTypes

LEMMA InitTypes ==
  ASSUME Init
  PROVE  TypeInv
<1>1. /\ \A t \in Threads : api[t].pc = "idle"
      /\ \A w \in Workers : work[w].pc = "take" /\ work[w].rank = None
  BY DEF Init, Idle, Resting
<1>2. PcTypes
  BY <1>1 DEF PcTypes, ApiPcs, WorkPcs
<1>3. FlagTypes
  BY DEF Init, FlagTypes
<1>4. CallTypes
  BY DEF Init, CallTypes, Arrived
<1>5. \A r \in Ranks : RankTypes(r)
  <2>1. TAKE r \in Ranks
  <2>2. outcome[r] = <<>> /\ jobs[r] = <<>> /\ avail[r] = NrJobs /\ rankLock[r] = Free
    BY DEF Init
  <2>3. DOMAIN outcome[r] = {}
    BY InitFacts
  <2>4. QED
    BY <2>2, <2>3, JobCallsAssumption DEF RankTypes, Free
<1>6. QED
  BY <1>2, <1>3, <1>4, <1>5 DEF TypeInv

LEMMA NextTypes ==
  ASSUME JobInv, JobInv', SlotInv, SlotInv', LockInv', TypeInv, [Next]_vars
  PROVE  TypeInv'
<1>1. CASE Next
  <2>1. PcTypes' /\ FlagTypes' /\ CallTypes'
    BY <1>1, ApiPcsStay, WorkPcsStay, ApiFlags, WorkFlags, ApiCallTypes, WorkCallTypes
       DEF Next, TypeInv, SlotInv
  <2>2. \A r \in Ranks : FifoStep(r)
    <3>1. /\ Shapes /\ Good /\ Frames /\ PendingFresh /\ Locked /\ Gathered /\ WorkHeads
      BY DEF JobInv, Good
    <3>2. ASSUME NEW t \in Threads, ApiStep(t) PROVE \A r \in Ranks : FifoStep(r)
      <4>1. Calm(t) \/ Appends(t)
        BY <3>1, <3>2, ApiSameProgram, ApiKinds
      <4>2. QED
        BY <3>1, <4>1, ApiRans
    <3>3. ASSUME NEW w \in Workers, WorkStep(w) PROVE \A r \in Ranks : FifoStep(r)
      <4>1. Does(w)
        BY <3>1, <3>3, WorkSameProgram, WorkKinds
      <4>2. QED
        BY <3>1, <4>1, WorkFifos DEF FifoStep
    <3>4. QED
      BY <1>1, <3>2, <3>3 DEF Next
  <2>3. ASSUME NEW r \in Ranks PROVE RankTypes(r)'
    <3>1. DOMAIN outcome'[r] \subseteq AllJobs
      BY <2>2, SubmittedStay DEF TypeInv, RankTypes, JobInv, Good
    <3>2. /\ Len(jobs'[r]) <= NrJobs /\ avail'[r] \in 0..NrJobs
          /\ rankLock'[r].depth \in 0..3 /\ (rankLock'[r].depth = 0 <=> rankLock'[r] = Free)
      <4>1. CASE undefined'
        BY <1>1, <4>1, RankLast DEF TypeInv
      <4>2. CASE ~undefined'
        BY <4>2, RankThen
      <4>3. QED
        BY <4>1, <4>2
    <3>3. QED
      BY <3>1, <3>2 DEF RankTypes
  <2>4. QED
    BY <2>1, <2>3 DEF TypeInv
<1>2. CASE UNCHANGED vars
  <2>1. UNCHANGED <<program, call, jobs, avail, jobError, tidSet, jobsLock, queueLock, rankLock, api,
                    work, outcome>>
    BY <1>2 DEF vars
  <2>2. PcTypes' /\ FlagTypes' /\ \A r \in Ranks : RankTypes(r)'
    BY <2>1 DEF TypeInv, PcTypes, FlagTypes, RankTypes
  <2>3. CallTypes'
    <3>1. Ids(program)' = Ids(program) /\ \A id : RankSet(id)' = RankSet(id)
      BY <2>1, SameProgram
    <3>2. QED
      BY <2>1, <3>1 DEF TypeInv, CallTypes, Arrived
  <2>4. QED
    BY <2>2, <2>3 DEF TypeInv
<1>3. QED
  BY <1>1, <1>2

(* The types and bounds that the code relies on: the records of the calls,  *)
(* the counters of the slots, the levels of the mutexes (dpu_thread_job.c). *)
THEOREM TypeInvariant == Spec => []TypeInv
<1>1. Init => TypeInv
  BY InitTypes
<1>2. JobInv /\ JobInv' /\ SlotInv /\ SlotInv' /\ LockInv' /\ TypeInv /\ [Next]_vars => TypeInv'
  BY NextTypes
<1>3. QED
  BY <1>1, <1>2, JobInvariant, SlotInvariant, LockInvariant, PTL DEF Spec

(* Every variable has its type; a rank never has more jobs or free slots    *)
(* than nr_jobs, a counter of ranks never goes below zero, and a mutex is   *)
(* at most three levels deep and free when it has none.                     *)
THEOREM JobTypesCorrect == Spec => []TypeOK
<1>1. ASSUME JobInv, SyncInv, TypeInv
      PROVE  TypeOK
  <2>1. program \in Programs /\ DOMAIN call = Ids(program) /\ jobs \in [Ranks -> Seq(JobSet)]
    BY <1>1 DEF JobInv, Good, Shapes
  <2>2. ASSUME NEW id \in Ids(program)
        PROVE  call[id].left \in 0..Len(RanksOf(id))
    <3>1. RanksOf(id) \in Seq(Ranks)
      BY <1>1, CallFacts DEF JobInv, Good
    <3>2. Len(RanksOf(id)) \in Nat /\ DOMAIN RanksOf(id) = 1..Len(RanksOf(id))
      BY <3>1
    <3>3. call[id].left = Cardinality(Left(id)) /\ IsFiniteSet(RankSet(id)) /\ Left(id) \subseteq RankSet(id)
      BY <1>1 DEF SyncInv, Counting, Left
    <3>4. Cardinality(Left(id)) \in Nat /\ Cardinality(Left(id)) <= Cardinality(RankSet(id))
          /\ Cardinality(RankSet(id)) \in Nat
      BY <3>3, FS_Subset, FS_CardinalityType
    <3>5. Cardinality(RankSet(id)) <= Len(RanksOf(id))
      <4>1. \A n \in Nat : IsFiniteSet(1..n) /\ Cardinality(1..n) = n
        <5>1. TAKE n \in Nat
        <5>2. IsFiniteSet(1..n) /\ Cardinality(1..n) = IF 1 > n THEN 0 ELSE n - 1 + 1
          BY FS_Interval
        <5>3. QED
          BY <5>2
      <4>2. IsFiniteSet(1..Len(RanksOf(id))) /\ Cardinality(1..Len(RanksOf(id))) = Len(RanksOf(id))
        BY <3>2, <4>1
      <4>3. RanksOf(id) \in Surjection(1..Len(RanksOf(id)), RankSet(id))
        BY <3>1, <3>2 DEF RankSet, Surjection
      <4>4. QED
        BY <4>2, <4>3, FS_Surjection
    <3>6. QED
      BY <3>2, <3>3, <3>4, <3>5
  <2>3. \A id \in DOMAIN call :
          /\ call[id].left \in 0..Len(RanksOf(id)) /\ call[id].arrived \subseteq RankSet(id)
          /\ call[id].master \in RankSet(id) \cup {None}
          /\ call[id].answer \in {"none", "ok", "error"}
    BY <1>1, <2>1, <2>2 DEF TypeInv, CallTypes, Arrived
  <2>4. ASSUME NEW r \in Ranks PROVE jobs[r] \in Seq(AllJobs)
    <3>1. \A n \in DOMAIN jobs[r] : jobs[r][n] \in AllJobs
      BY <1>1, <2>4 DEF JobInv, Aside, Distinct, TypeInv, RankTypes
    <3>2. \A S, T : \A s \in Seq(S) : (\A n \in DOMAIN s : s[n] \in T) => s \in Seq(T)
      OBVIOUS
    <3>3. QED
      BY <2>1, <2>4, <3>1, <3>2
  <2>5. \A r \in Ranks :
          /\ jobs[r] \in Seq(AllJobs) /\ Len(jobs[r]) <= NrJobs
          /\ avail[r] \in 0..NrJobs
          /\ rankLock[r].depth \in 0..3 /\ (rankLock[r].depth = 0 <=> rankLock[r] = Free)
    BY <1>1, <2>4 DEF TypeInv, RankTypes
  <2>6. QED
    BY <1>1, <2>1, <2>3, <2>5, Zenon DEF TypeOK, TypeInv, PcTypes, FlagTypes
<1>2. JobInv /\ SyncInv /\ TypeInv => TypeOK
  BY <1>1
<1>3. QED
  BY <1>2, JobInvariant, SyncInvariant, TypeInvariant, PTL

=============================================================================
