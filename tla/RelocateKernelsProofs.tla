------------------------- MODULE RelocateKernelsProofs -------------------------
(***************************************************************************)
(* Facts about the loops of the relocation kernels, for every number of     *)
(* blocks, chunks and every PE number: where a pass reads and writes.       *)
(***************************************************************************)
EXTENDS RelocateKernels, TLAPS

(* Euclidean division, which the loops are made of. *)
LEMMA DivMod ==
  ASSUME NEW a \in Nat, NEW d \in Nat \ {0}
  PROVE  /\ a \div d \in Nat /\ a % d \in 0..(d - 1)
         /\ a = d * (a \div d) + (a % d)
  BY SMT

LEMMA DivModUnique ==
  ASSUME NEW d \in Nat \ {0}, NEW q \in Nat, NEW r \in 0..(d - 1),
         NEW a \in Nat, a = d * q + r
  PROVE  a \div d = q /\ a % d = r
  BY SMT

(* `offset' stays inside the group of its block. *)
LEMMA SlotInGroup ==
  ASSUME NEW p \in PassType, NEW b \in Nat
  PROVE  /\ Slot(p, b) \in Nat
         /\ Slot(p, b) \div p.group = b \div p.group
<1>1. p.group \in {1, 2, 4, 8} /\ p.sign \in {-1, 1} /\ p.shift \in Int
  BY DEF PassType
<1>2. CASE ~p.rotate
  BY <1>1, <1>2, SMT DEF Slot
<1>3. CASE p.rotate
  <2> DEFINE x == p.sign * b + p.shift
  <2>1. x \in Int
    BY <1>1, SMT
  <2>2. Slot(p, b) = (b \div p.group) * p.group + (x % p.group)
    BY <1>3 DEF Slot
  <2> HIDE DEF x
  <2>3. CASE p.group = 1
    BY <2>1, <2>2, <2>3, SMT
  <2>4. CASE p.group = 2
    BY <2>1, <2>2, <2>4, SMT
  <2>5. CASE p.group = 4
    BY <2>1, <2>2, <2>5, SMT
  <2>6. CASE p.group = 8
    BY <2>1, <2>2, <2>6, SMT
  <2>7. QED
    BY <1>1, <2>3, <2>4, <2>5, <2>6
<1>4. QED
  BY <1>2, <1>3

(* No two blocks go to the same slot: a rotation loses no block. *)
LEMMA SlotInjective ==
  ASSUME NEW p \in PassType, NEW b \in Nat, NEW c \in Nat,
         Slot(p, b) = Slot(p, c)
  PROVE  b = c
<1>1. p.group \in {1, 2, 4, 8} /\ p.sign \in {-1, 1} /\ p.shift \in Int
  BY DEF PassType
<1>2. CASE ~p.rotate
  BY <1>2 DEF Slot
<1>3. CASE p.rotate
  <2>1. b \div p.group = c \div p.group
    BY SlotInGroup
  <2>2. (p.sign * b + p.shift) % p.group = (p.sign * c + p.shift) % p.group
    <3>1. Slot(p, b) = (b \div p.group) * p.group + ((p.sign * b + p.shift) % p.group)
      BY <1>3 DEF Slot
    <3>2. Slot(p, c) = (c \div p.group) * p.group + ((p.sign * c + p.shift) % p.group)
      BY <1>3 DEF Slot
    <3> DEFINE x == (p.sign * b + p.shift) % p.group
               y == (p.sign * c + p.shift) % p.group
               q == (b \div p.group) * p.group
    <3>3. x \in Int /\ y \in Int /\ q \in Int
      BY <1>1, SMT
    <3>4. q + x = q + y
      BY <3>1, <3>2, <2>1
    <3> HIDE DEF x, y, q
    <3>5. x = y
      BY <3>3, <3>4, SMT
    <3>6. QED
      BY <3>5 DEF x, y
  <2>3. CASE p.sign = 1
    <3>1. CASE p.group = 1  BY <1>1, <2>1, <2>2, <2>3, <3>1, SMT
    <3>2. CASE p.group = 2  BY <1>1, <2>1, <2>2, <2>3, <3>2, SMT
    <3>3. CASE p.group = 4  BY <1>1, <2>1, <2>2, <2>3, <3>3, SMT
    <3>4. CASE p.group = 8  BY <1>1, <2>1, <2>2, <2>3, <3>4, SMT
    <3>5. QED  BY <1>1, <3>1, <3>2, <3>3, <3>4
  <2>4. CASE p.sign = -1
    <3>1. CASE p.group = 1  BY <1>1, <2>1, <2>2, <2>4, <3>1, SMT
    <3>2. CASE p.group = 2  BY <1>1, <2>1, <2>2, <2>4, <3>2, SMT
    <3>3. CASE p.group = 4  BY <1>1, <2>1, <2>2, <2>4, <3>3, SMT
    <3>4. CASE p.group = 8  BY <1>1, <2>1, <2>2, <2>4, <3>4, SMT
    <3>5. QED  BY <1>1, <3>1, <3>2, <3>3, <3>4
  <2>5. QED
    BY <1>1, <2>3, <2>4
<1>4. QED
  BY <1>2, <1>3

-----------------------------------------------------------------------------
(* The blocks a tasklet visits in its steps are blocks of the buffer.       *)
LEMMA BlockInRange ==
  ASSUME NEW p \in PassType, NEW t \in Nat, NEW s \in Nat, s < Steps(p, t)
  PROVE  /\ Block(p, t, s) \in 0..(p.blocks - 1)
         /\ s % p.iter \in 0..(p.iter - 1)
<1>1. p.workers \in {1, 2, 4, 8} /\ p.blocks \in Nat /\ p.iter \in Nat \ {0}
  BY DEF PassType
<1> DEFINE q == s \div p.iter
           r == s % p.iter
<1>2. q \in Nat /\ r \in 0..(p.iter - 1) /\ s = p.iter * q + r
  BY <1>1, DivMod
<1>3. t < p.blocks
  BY <1>1, SMT DEF Steps, Rounds
<1> DEFINE m == (p.blocks - 1 - t) \div p.workers
<1>4. m \in Nat /\ s < (m + 1) * p.iter
  <2>1. p.blocks - 1 - t \in Nat
    BY <1>1, <1>3, SMT
  <2>2. m \in Nat
    <3>1. p.workers \in Nat \ {0}
      BY <1>1, SMT
    <3>2. QED
      BY <2>1, <3>1, DivMod
  <2>3. QED
    BY <1>3, <2>2 DEF Steps, Rounds
<1>5. p.workers * m <= p.blocks - 1 - t
  <2>1. p.blocks - 1 - t \in Nat
    BY <1>1, <1>3, SMT
  <2>2. p.blocks - 1 - t = p.workers * m + ((p.blocks - 1 - t) % p.workers)
        /\ (p.blocks - 1 - t) % p.workers \in 0..(p.workers - 1)
    <3>1. p.workers \in Nat \ {0}
      BY <1>1, SMT
    <3>2. QED
      BY <2>1, <3>1, DivMod
  <2>3. QED
    BY <1>1, <1>4, <2>2, SMT
<1> HIDE DEF q, r, m
<1>6. q <= m
  BY <1>1, <1>2, <1>4, SMT
<1>7. p.workers * q <= p.workers * m
  BY <1>1, <1>2, <1>4, <1>6, SMT
<1>8. t + p.workers * q \in 0..(p.blocks - 1)
  BY <1>1, <1>2, <1>3, <1>4, <1>5, <1>7, SMT
<1>9. QED
  BY <1>2, <1>8 DEF Block, q, r

(* Two workers never copy the same chunk, and none copies it twice.         *)
LEMMA StepsDisjoint ==
  ASSUME NEW p \in PassType,
         NEW t \in 0..(p.workers - 1), NEW s \in Nat,
         NEW u \in 0..(p.workers - 1), NEW r \in Nat,
         Block(p, t, s) = Block(p, u, r), s % p.iter = r % p.iter
  PROVE  t = u /\ s = r
<1>1. p.workers \in {1, 2, 4, 8} /\ p.iter \in Nat \ {0}
  BY DEF PassType
<1>2. s \div p.iter \in Nat /\ r \div p.iter \in Nat
  BY <1>1, DivMod
<1> DEFINE q == s \div p.iter
           w == r \div p.iter
<1>3. t + p.workers * q = u + p.workers * w
  BY DEF Block
<1>4. q \in Nat /\ w \in Nat
  BY <1>2
<1>5. s = p.iter * q + (s % p.iter) /\ r = p.iter * w + (r % p.iter)
  BY <1>1, DivMod
<1> HIDE DEF q, w
<1>6. t = u /\ q = w
  <2>1. CASE p.workers = 1  BY <1>3, <1>4, <2>1, SMT
  <2>2. CASE p.workers = 2  BY <1>3, <1>4, <2>2, SMT
  <2>3. CASE p.workers = 4  BY <1>3, <1>4, <2>3, SMT
  <2>4. CASE p.workers = 8  BY <1>3, <1>4, <2>4, SMT
  <2>5. QED  BY <1>1, <2>1, <2>2, <2>3, <2>4
<1>7. QED
  BY <1>5, <1>6

(* Every chunk of every block is copied by some worker.                     *)
LEMMA StepsCover ==
  ASSUME NEW p \in PassType,
         NEW b \in 0..(p.blocks - 1), NEW c \in 0..(p.iter - 1)
  PROVE  \E t \in 0..(p.workers - 1), s \in Nat :
           /\ s < Steps(p, t)
           /\ Block(p, t, s) = b /\ s % p.iter = c
<1>1. p.workers \in {1, 2, 4, 8} /\ p.blocks \in Nat /\ p.iter \in Nat \ {0}
  BY DEF PassType
<1> DEFINE t == b % p.workers
           q == b \div p.workers
           s == p.iter * q + c
<1>2. b \in Nat /\ p.workers \in Nat \ {0}
  BY <1>1, SMT
<1>3. q \in Nat /\ t \in 0..(p.workers - 1) /\ b = p.workers * q + t
  BY <1>2, DivMod
<1>4. s \in Nat
  BY <1>1, <1>3, SMT
<1>5. s \div p.iter = q /\ s % p.iter = c
  <2>1. q \in Nat /\ c \in 0..(p.iter - 1) /\ s = p.iter * q + c
    BY <1>3
  <2>2. p.iter \in Nat \ {0}
    BY <1>1
  <2> HIDE DEF q, s
  <2>3. QED
    BY <1>4, <2>1, <2>2, SMT
<1>6. Block(p, t, s) = b
  BY <1>1, <1>2, <1>3, <1>5, SMT DEF Block
<1>7. s < Steps(p, t)
  <2> DEFINE m == (p.blocks - 1 - t) \div p.workers
  <2>1. t < p.blocks /\ p.blocks - 1 - t \in Nat
    <3>1. t <= b
      BY <1>1, <1>3, SMT
    <3>2. QED
      BY <1>1, <1>3, <3>1, SMT
  <2>2. m \in Nat
        /\ (p.blocks - 1 - t) = p.workers * m + ((p.blocks - 1 - t) % p.workers)
        /\ (p.blocks - 1 - t) % p.workers \in 0..(p.workers - 1)
    BY <1>2, <2>1, DivMod
  <2>3. Steps(p, t) = (m + 1) * p.iter
    BY <2>1 DEF Steps, Rounds
  <2> HIDE DEF t, q, s, m
  <2>4. q <= m
    <3>1. p.workers * q + t <= p.blocks - 1
      BY <1>1, <1>3, SMT
    <3>2. p.workers * q < p.workers * m + p.workers
      BY <1>1, <1>3, <2>2, <3>1, SMT
    <3>3. CASE p.workers = 1  BY <1>3, <2>2, <3>2, <3>3, SMT
    <3>4. CASE p.workers = 2  BY <1>3, <2>2, <3>2, <3>4, SMT
    <3>5. CASE p.workers = 4  BY <1>3, <2>2, <3>2, <3>5, SMT
    <3>6. CASE p.workers = 8  BY <1>3, <2>2, <3>2, <3>6, SMT
    <3>7. QED  BY <1>1, <3>3, <3>4, <3>5, <3>6
  <2>5. p.iter * q + c < (m + 1) * p.iter
    BY <1>1, <1>3, <2>2, <2>4, SMT
  <2>6. QED
    BY <2>3, <2>5 DEF s
<1>8. QED
  BY <1>3, <1>4, <1>5, <1>6, <1>7

(* When the blocks divide evenly, every worker makes the same rounds: none  *)
(* is left alone in a barrier.                                              *)
LEMMA StepsNat ==
  ASSUME NEW p \in PassType, NEW t \in Nat
  PROVE  Steps(p, t) \in Nat
<1>1. p.workers \in {1, 2, 4, 8} /\ p.blocks \in Nat /\ p.iter \in Nat
  BY DEF PassType
<1>2. Rounds(p, t) \in Nat
  BY <1>1, SMT DEF Rounds
<1>3. QED
  BY <1>1, <1>2, SMT DEF Steps

LEMMA NoSteps ==
  ASSUME NEW p \in PassType, Steps(p, 0) = 0
  PROVE  p.blocks = 0
<1> DEFINE n == p.blocks
           w == p.workers
<1>1. n \in Nat /\ w \in Nat \ {0} /\ p.iter \in Nat \ {0}
  BY DEF PassType
<1>2. Rounds(p, 0) = IF 0 < n THEN ((n - 1 - 0) \div w) + 1 ELSE 0
  BY DEF Rounds
<1>3. Steps(p, 0) = Rounds(p, 0) * p.iter
  BY DEF Steps
<1> HIDE DEF n, w
<1>4. SUFFICES ASSUME 0 < n  PROVE FALSE
  BY <1>1 DEF n
<1>5. n - 1 - 0 \in Nat
  BY <1>1, <1>4, SMT
<1>6. (n - 1 - 0) \div w \in Nat
  BY <1>1, <1>5, DivMod
<1>7. Rounds(p, 0) \in Nat \ {0}
  BY <1>2, <1>4, <1>6
<1>8. QED
  BY <1>1, <1>3, <1>7, SMT

LEMMA StepsEqual ==
  ASSUME NEW p \in PassType, p.blocks % p.workers = 0
  PROVE  \A t, u \in 0..(p.workers - 1) : Steps(p, t) = Steps(p, u)
<1>1. p.workers \in {1, 2, 4, 8} /\ p.blocks \in Nat
  BY DEF PassType
<1>2. ASSUME NEW t \in 0..(p.workers - 1)
      PROVE  Rounds(p, t) = p.blocks \div p.workers
  <2> DEFINE w == p.workers
             q == p.blocks \div w
  <2>1. w \in Nat \ {0} /\ t \in 0..(w - 1)
    BY <1>1
  <2>2. q \in Nat /\ p.blocks = w * q
    <3>1. p.blocks % w = 0
      OBVIOUS
    <3>2. /\ p.blocks \div w \in Nat
          /\ p.blocks = w * (p.blocks \div w) + (p.blocks % w)
      BY <1>1, <2>1, DivMod
    <3> HIDE DEF w
    <3>3. w * (p.blocks \div w) \in Nat
      BY <2>1, <3>2, SMT
    <3>4. QED
      BY <3>1, <3>2, <3>3
  <2>3. CASE q = 0
    BY <1>1, <2>1, <2>2, <2>3, SMT DEF Rounds
  <2>4. CASE q # 0
    <3> DEFINE a == p.blocks - 1 - t
               k == q - 1
               r == w - 1 - t
    <3>1. k \in Nat /\ r \in 0..(w - 1)
      BY <2>1, <2>2, <2>4, SMT
    <3>2. w * q = w * k + w
      BY <2>1, <2>2, SMT
    <3>3. w * k \in Nat
      BY <2>1, <3>1, SMT
    <3> HIDE DEF w, q
    <3>4. a = w * k + r /\ a \in Nat /\ t < p.blocks
      BY <1>1, <2>1, <2>2, <3>1, <3>2, <3>3, SMT
    <3> HIDE DEF a, k, r
    <3>5. a \div w = k
      BY <2>1, <3>1, <3>4, DivModUnique
    <3>6. Rounds(p, t) = (a \div w) + 1
      BY <3>4 DEF Rounds, a, w
    <3>7. Rounds(p, t) = q
      BY <2>2, <3>5, <3>6, SMT DEF k
    <3>8. QED
      BY <3>7 DEF q, w
  <2>5. QED
    BY <2>3, <2>4
<1>3. QED
  BY <1>2 DEF Steps

-----------------------------------------------------------------------------
(* An address determines the block and the chunk.                           *)
LEMMA ChunkAddress ==
  ASSUME NEW k \in Nat \ {0}, NEW base \in Nat,
         NEW b \in Nat, NEW c \in 0..(k - 1),
         NEW d \in Nat, NEW e \in 0..(k - 1),
         base + k * b + c = base + k * d + e
  PROVE  b = d /\ c = e
<1>1. k * b \in Nat /\ k * d \in Nat
  BY SMT
<1>2. k * b + c = k * d + e /\ k * b + c \in Nat
  BY <1>1, SMT
<1>3. /\ (k * b + c) \div k = b /\ (k * b + c) % k = c
      /\ (k * d + e) \div k = d /\ (k * d + e) % k = e
  <2>1. (k * b + c) \div k = b /\ (k * b + c) % k = c
    BY <1>2, DivModUnique
  <2>2. (k * d + e) \div k = d /\ (k * d + e) % k = e
    BY <1>2, DivModUnique
  <2>3. QED
    BY <2>1, <2>2
<1>4. QED
  BY <1>2, <1>3

(* A region of the buffer: where a pass may read or write.                  *)
LEMMA AddressInRegion ==
  ASSUME NEW k \in Nat \ {0}, NEW base \in Nat, NEW n \in Nat,
         NEW b \in 0..(n - 1), NEW c \in 0..(k - 1)
  PROVE  base + k * b + c \in base..(base + (k * n) - 1)
<1>1. k * b + k <= k * n
  <2>1. b + 1 <= n
    BY SMT
  <2>2. k * (b + 1) <= k * n
    BY <2>1, SMT
  <2>3. QED
    BY <2>2, SMT
<1>2. QED
  BY <1>1, SMT

LEMMA SlotInRange ==
  ASSUME NEW p \in PassType, NEW b \in 0..(p.blocks - 1),
         p.blocks % p.group = 0
  PROVE  Slot(p, b) \in 0..(p.blocks - 1)
<1>1. p.group \in {1, 2, 4, 8} /\ p.blocks \in Nat /\ b \in Nat
  BY DEF PassType
<1>2. Slot(p, b) \in Nat /\ Slot(p, b) \div p.group = b \div p.group
  BY <1>1, SlotInGroup
<1> DEFINE x == Slot(p, b)
<1> HIDE DEF x
<1>3. x \in Nat /\ x \div p.group = b \div p.group
  BY <1>2 DEF x
<1>4. x <= p.blocks - 1
  <2>1. CASE p.group = 1  BY <1>1, <1>3, <2>1, SMT
  <2>2. CASE p.group = 2  BY <1>1, <1>3, <2>2, SMT
  <2>3. CASE p.group = 4  BY <1>1, <1>3, <2>3, SMT
  <2>4. CASE p.group = 8  BY <1>1, <1>3, <2>4, SMT
  <2>5. QED  BY <1>1, <2>1, <2>2, <2>3, <2>4
<1>5. QED
  BY <1>1, <1>3, <1>4, SMT DEF x

LEMMA FromInRegion ==
  ASSUME NEW p \in PassType, NEW t \in Nat, NEW s \in Nat, s < Steps(p, t)
  PROVE  From(p, t, s) \in p.src..(p.src + (p.iter * p.blocks) - 1)
<1>1. p.src \in Nat /\ p.iter \in Nat \ {0} /\ p.blocks \in Nat
  BY DEF PassType
<1>2. Block(p, t, s) \in 0..(p.blocks - 1) /\ s % p.iter \in 0..(p.iter - 1)
  BY BlockInRange
<1>3. QED
  BY <1>1, <1>2, AddressInRegion DEF From

LEMMA ToInRegion ==
  ASSUME NEW p \in PassType, NEW t \in Nat, NEW s \in Nat, s < Steps(p, t),
         p.blocks % p.group = 0
  PROVE  To(p, t, s) \in p.dst..(p.dst + (p.iter * p.blocks) - 1)
<1>1. p.dst \in Nat /\ p.iter \in Nat \ {0} /\ p.blocks \in Nat
  BY DEF PassType
<1>2. Block(p, t, s) \in 0..(p.blocks - 1) /\ s % p.iter \in 0..(p.iter - 1)
  BY BlockInRange
<1>3. Slot(p, Block(p, t, s)) \in 0..(p.blocks - 1)
  BY <1>2, SlotInRange
<1>4. QED
  BY <1>1, <1>2, <1>3, AddressInRegion DEF To

(* No chunk is written twice in a pass.                                     *)
LEMMA ToInjective ==
  ASSUME NEW p \in PassType,
         NEW t \in 0..(p.workers - 1), NEW s \in Nat, s < Steps(p, t),
         NEW u \in 0..(p.workers - 1), NEW r \in Nat, r < Steps(p, u),
         To(p, t, s) = To(p, u, r)
  PROVE  t = u /\ s = r
<1>1. p.dst \in Nat /\ p.iter \in Nat \ {0} /\ p.blocks \in Nat
  BY DEF PassType
<1>t. t \in Nat /\ u \in Nat
  BY SMT DEF PassType
<1>2. /\ Block(p, t, s) \in 0..(p.blocks - 1) /\ s % p.iter \in 0..(p.iter - 1)
      /\ Block(p, u, r) \in 0..(p.blocks - 1) /\ r % p.iter \in 0..(p.iter - 1)
  BY <1>t, BlockInRange
<1>3. Block(p, t, s) \in Nat /\ Block(p, u, r) \in Nat
  BY <1>1, <1>2
<1>4. Slot(p, Block(p, t, s)) \in Nat /\ Slot(p, Block(p, u, r)) \in Nat
  BY <1>3, SlotInGroup
<1>5. /\ Slot(p, Block(p, t, s)) = Slot(p, Block(p, u, r))
      /\ s % p.iter = r % p.iter
  <2> DEFINE x == Slot(p, Block(p, t, s))
             y == Slot(p, Block(p, u, r))
             c == s % p.iter
             d == r % p.iter
  <2>1. p.dst + p.iter * x + c = p.dst + p.iter * y + d
    BY DEF To
  <2>2. x \in Nat /\ y \in Nat /\ c \in 0..(p.iter - 1) /\ d \in 0..(p.iter - 1)
    BY <1>2, <1>4
  <2> HIDE DEF x, y, c, d
  <2>3. x = y /\ c = d
    BY <1>1, <2>1, <2>2, ChunkAddress
  <2>4. QED
    BY <2>3 DEF x, y, c, d
<1>6. Block(p, t, s) = Block(p, u, r)
  BY <1>3, <1>5, SlotInjective
<1>7. QED
  BY <1>5, <1>6, StepsDisjoint

(* In place, a chunk is written in the very step in which it is read: the   *)
(* workers of one round move a whole number of groups.                      *)
LEMMA InPlaceSameStep ==
  ASSUME NEW p \in PassType, p.src = p.dst, p.workers % p.group = 0,
         NEW t \in 0..(p.workers - 1), NEW s \in Nat, s < Steps(p, t),
         NEW u \in 0..(p.workers - 1), NEW r \in Nat, r < Steps(p, u),
         To(p, t, s) = From(p, u, r)
  PROVE  s = r
<1>1. /\ p.dst \in Nat /\ p.iter \in Nat \ {0} /\ p.blocks \in Nat
      /\ p.workers \in {1, 2, 4, 8} /\ p.group \in {1, 2, 4, 8}
  BY DEF PassType
<1>t. t \in Nat /\ u \in Nat
  BY SMT DEF PassType
<1>2. /\ Block(p, t, s) \in 0..(p.blocks - 1) /\ s % p.iter \in 0..(p.iter - 1)
      /\ Block(p, u, r) \in 0..(p.blocks - 1) /\ r % p.iter \in 0..(p.iter - 1)
  BY <1>t, BlockInRange
<1>3. Block(p, t, s) \in Nat /\ Block(p, u, r) \in Nat
  BY <1>1, <1>2
<1>4. /\ Slot(p, Block(p, t, s)) \in Nat
      /\ Slot(p, Block(p, t, s)) \div p.group = Block(p, t, s) \div p.group
  BY <1>3, SlotInGroup
<1>5. Slot(p, Block(p, t, s)) = Block(p, u, r) /\ s % p.iter = r % p.iter
  <2> DEFINE x == Slot(p, Block(p, t, s))
             y == Block(p, u, r)
             i == s % p.iter
             j == r % p.iter
             k == p.iter
             base == p.dst
  <2>1. base + k * x + i = base + k * y + j
    BY DEF To, From
  <2>2. /\ x \in Nat /\ y \in Nat /\ i \in 0..(k - 1) /\ j \in 0..(k - 1)
        /\ base \in Nat /\ k \in Nat \ {0}
    BY <1>1, <1>2, <1>3, <1>4
  <2> HIDE DEF x, y, i, j, k, base
  <2>3. x = y /\ i = j
    BY <2>1, <2>2, ChunkAddress
  <2>4. QED
    BY <2>3 DEF x, y, i, j
<1> DEFINE b == Block(p, t, s)
           c == Block(p, u, r)
           q == s \div p.iter
           w == r \div p.iter
<1>6. /\ b = t + p.workers * q /\ c = u + p.workers * w
      /\ q \in Nat /\ w \in Nat
      /\ s = p.iter * q + (s % p.iter) /\ r = p.iter * w + (r % p.iter)
  BY <1>1, DivMod DEF Block
<1>7. b \in Nat /\ c \in Nat /\ c \div p.group = b \div p.group
  BY <1>3, <1>4, <1>5
<1> HIDE DEF b, c, q, w
<1>8. b \div p.workers = c \div p.workers
  <2>1. CASE p.group = p.workers  BY <1>7, <2>1
  <2>2. CASE p.group = 1
    <3>1. b = c  BY <1>7, <2>2, SMT
    <3>2. QED  BY <3>1
  <2>3. CASE p.group = 2 /\ p.workers = 4  BY <1>7, <2>3, SMT
  <2>4. CASE p.group = 2 /\ p.workers = 8  BY <1>7, <2>4, SMT
  <2>5. CASE p.group = 4 /\ p.workers = 8  BY <1>7, <2>5, SMT
  <2>6. CASE p.group > p.workers
    BY <1>1, <2>6, SMT
  <2>7. QED
    BY <1>1, <2>1, <2>2, <2>3, <2>4, <2>5, <2>6, SMT
<1>9. b \div p.workers = q /\ c \div p.workers = w
  <2>1. CASE p.workers = 1  BY <1>6, <2>1, SMT
  <2>2. CASE p.workers = 2  BY <1>6, <2>2, SMT
  <2>3. CASE p.workers = 4  BY <1>6, <2>3, SMT
  <2>4. CASE p.workers = 8  BY <1>6, <2>4, SMT
  <2>5. QED  BY <1>1, <2>1, <2>2, <2>3, <2>4
<1>10. QED
  BY <1>5, <1>6, <1>8, <1>9

-----------------------------------------------------------------------------
(* Every launch is one or two passes, or none at all.                       *)
LEMMA LoopType ==
  ASSUME NEW l \in LaunchType, NEW w \in {1, 2, 4, 8}, NEW b \in {0, 2, 4, 8},
         NEW g \in {1, 2, 4, 8}, NEW sgn \in {-1, 1}, NEW shf \in Int
  PROVE  Loop(l, w, b, g, sgn, shf) \in PassType
<1>1. l.n \in Nat /\ l.src \in Nat /\ l.dst \in Nat /\ l.noRotate \in BOOLEAN
  BY DEF LaunchType
<1>2. Chunks \in Nat \ {0}
  BY ChunksAssumption
<1>3. QED
  BY <1>1, <1>2 DEF Loop, PassType

LEMMA PassVariants ==
  ASSUME NEW p \in PassType
  PROVE  InPlace(p) \in PassType /\ Doubled(p) \in PassType
<1>1. p.blocks \div 2 \in Nat /\ 2 * p.iter \in Nat \ {0}
  BY SMT DEF PassType
<1>2. InPlace(p) \in PassType
  BY DEF InPlace, PassType
<1>3. Doubled(p) \in PassType
  BY <1>1 DEF Doubled, PassType
<1>4. QED
  BY <1>2, <1>3

LEMMA PassesType ==
  ASSUME NEW l \in LaunchType
  PROVE  Passes(l) \in Seq(PassType) /\ Len(Passes(l)) \in 0..2
<1>1. /\ l.n \in Nat \ {0} /\ l.dpu \in Nat /\ l.rg \in {1, 2, 4, 8}
      /\ l.commType \in {0, 1} /\ l.kernel \in KernelNames
  BY DEF LaunchType
<1>2. GroupOf(l) \in {0, 2, 4, 8}
  BY DEF GroupOf
<1>3. ASSUME NEW sgn \in {-1, 1}, NEW shf \in Int
      PROVE  ByGroup(l, sgn, shf) \in Seq(PassType) /\ Len(ByGroup(l, sgn, shf)) \in 0..2
  <2>1. CASE GroupOf(l) = 0
    BY <2>1 DEF ByGroup
  <2>2. CASE GroupOf(l) # 0
    <3>1. Loop(l, GroupOf(l), GroupOf(l), GroupOf(l), sgn, shf) \in PassType
      BY <1>2, <2>2, LoopType
    <3>2. QED
      BY <2>2, <3>1 DEF ByGroup
  <2>3. QED
    BY <2>1, <2>2
<1>4. CASE l.kernel = "clockwise"
  <2>1. -l.dpu \in Int  BY <1>1, SMT
  <2>2. QED  BY <1>3, <1>4, <2>1 DEF Passes, Clockwise
<1>5. CASE l.kernel = "counterclockwise"
  <2>1. l.dpu \in Int  BY <1>1, SMT
  <2>2. QED  BY <1>3, <1>5, <2>1 DEF Passes, Counterclockwise
<1>6. CASE l.kernel = "incremental_counterclockwise"
  <2>1. Passes(l) = IncrementalCounterclockwise(l)
    BY <1>6 DEF Passes
  <2>2. CASE GroupOf(l) = 0
    BY <2>1, <2>2 DEF IncrementalCounterclockwise
  <2>3. CASE GroupOf(l) # 0
    <3>1. l.dpu % GroupOf(l) \in Int
      BY <1>1, <1>2, <2>3, SMT
    <3>2. l.dpu - (l.dpu % GroupOf(l)) \in Int
      BY <1>1, <3>1, SMT
    <3>3. QED
      BY <1>3, <2>1, <2>3, <3>2 DEF IncrementalCounterclockwise
  <2>4. QED
    BY <2>2, <2>3
<1>7. CASE l.kernel = "reverse_clockwise"
  <2>1. Passes(l) = ReverseClockwise(l)
    BY <1>7 DEF Passes
  <2>2. /\ 8 \div l.rg \in {1, 2, 4, 8} /\ l.dpu \in Int
        /\ l.dpu \div (8 \div l.rg) \in Int
    BY <1>1, SMT
  <2>3. /\ Loop(l, 8, 8, 8, -1, l.dpu) \in PassType
        /\ Loop(l, l.rg, 0, l.rg, -1, l.dpu) \in PassType
        /\ Loop(l, 8 \div l.rg, 0, l.rg, -1, l.dpu \div (8 \div l.rg)) \in PassType
        /\ l.n \in {2, 4} => Loop(l, l.n, l.n, l.n, -1, l.dpu) \in PassType
    BY <1>1, <2>2, LoopType
  <2>4. QED
    BY <2>1, <2>3 DEF ReverseClockwise
<1>8. CASE l.kernel \in {"clockwise_short", "reverse_clockwise_short"}
  <2>1. ShortShift(l) \in Int /\ -ShortShift(l) \in Int
    BY <1>1, SMT DEF ShortShift
  <2>2. ShortBarrier(l) \in {0, 2, 4, 8}
    BY DEF ShortBarrier
  <2>3. /\ Loop(l, l.rg, ShortBarrier(l), l.rg, 1, -ShortShift(l)) \in PassType
        /\ Loop(l, l.rg, ShortBarrier(l), l.rg, -1, ShortShift(l)) \in PassType
    BY <1>1, <2>1, <2>2, LoopType
  <2>4. QED
    BY <1>8, <2>3 DEF Passes, ClockwiseShort, ReverseClockwiseShort
<1>9. CASE l.kernel = "modified_clockwise"
  <2>1. Passes(l) = ModifiedClockwise(l)
    BY <1>9 DEF Passes
  <2>2. l.dpu \in Int /\ l.dpu \div 4 \in Int /\ l.dpu \div 2 \in Int
    BY <1>1, SMT
  <2>3. /\ Loop(l, 4, 4, 2, -1, l.dpu) \in PassType
        /\ Loop(l, 2, 0, 2, -1, l.dpu \div 4) \in PassType
        /\ Loop(l, 2, 0, 2, -1, l.dpu \div 2) \in PassType
    BY <2>2, LoopType
  <2>4. /\ InPlace(Loop(l, 4, 4, 2, -1, l.dpu)) \in PassType
        /\ Doubled(Loop(l, 2, 0, 2, -1, l.dpu \div 4)) \in PassType
    BY <2>3, PassVariants
  <2>5. QED
    BY <2>1, <2>3, <2>4 DEF ModifiedClockwise
<1>10. CASE l.kernel = "modified_reverse_clockwise"
  <2>1. Passes(l) = ModifiedReverseClockwise(l)
    BY <1>10 DEF Passes
  <2>2. -l.dpu \in Int /\ -(l.dpu \div 4) \in Int /\ -(l.dpu \div 2) \in Int
    BY <1>1, SMT
  <2>3. /\ Loop(l, l.rg, 2, l.rg, 1, -l.dpu) \in PassType
        /\ Loop(l, l.rg, 2, l.rg, 1, -(l.dpu \div 4)) \in PassType
        /\ Loop(l, l.rg, 0, l.rg, 1, -(l.dpu \div 2)) \in PassType
    BY <1>1, <2>2, LoopType
  <2>4. /\ InPlace(Loop(l, l.rg, 2, l.rg, 1, -l.dpu)) \in PassType
        /\ Doubled(Loop(l, l.rg, 2, l.rg, 1, -(l.dpu \div 4))) \in PassType
    BY <2>3, PassVariants
  <2>5. QED
    BY <2>1, <2>3, <2>4 DEF ModifiedReverseClockwise
<1>11. QED
  BY <1>1, <1>4, <1>5, <1>6, <1>7, <1>8, <1>9, <1>10 DEF KernelNames

(* The barriers in front of the loops: the first one is for all 8 tasklets, *)
(* each later one for a part of them that holds the workers of the loop.    *)
LEMMA EntryShape ==
  ASSUME NEW l \in LaunchType
  PROVE  /\ Entry(l) \in Seq({2, 4, 8}) /\ Len(Entry(l)) \in 1..3
         /\ Entry(l)[1] = 8
         /\ \A i, j \in 1..Len(Entry(l)) : i <= j => Entry(l)[j] <= Entry(l)[i]
         /\ Passes(l) # << >> =>
              \A j \in 1..Len(Entry(l)) : Passes(l)[1].workers <= Entry(l)[j]
<1>1. /\ l.n \in Nat \ {0} /\ l.rg \in {1, 2, 4, 8}
      /\ l.commType \in {0, 1} /\ l.kernel \in KernelNames
  BY DEF LaunchType
<1>2. /\ Entry(l) \in Seq({2, 4, 8}) /\ Len(Entry(l)) \in 1..3
      /\ Entry(l)[1] = 8
      /\ \A i, j \in 1..Len(Entry(l)) : i <= j => Entry(l)[j] <= Entry(l)[i]
  <2>1. Entry(l) \in {<<8>>, <<8, 8>>, <<8, l.n>>, <<8, 8, l.n>>}
        /\ (Entry(l) \in {<<8, l.n>>, <<8, 8, l.n>>} => l.n \in {2, 4} \/ Entry(l) \in {<<8>>, <<8, 8>>})
    BY DEF Entry
  <2>2. CASE Entry(l) = <<8>>                          BY <2>2
  <2>3. CASE Entry(l) = <<8, 8>>                       BY <2>3
  <2>4. CASE Entry(l) = <<8, l.n>> /\ l.n \in {2, 4}    BY <2>4
  <2>5. CASE Entry(l) = <<8, 8, l.n>> /\ l.n \in {2, 4} BY <2>5
  <2>6. QED
    BY <2>1, <2>2, <2>3, <2>4, <2>5
<1>3. ASSUME Passes(l) # << >>, NEW j \in 1..Len(Entry(l))
      PROVE  Passes(l)[1].workers <= Entry(l)[j]
  <2>1. Entry(l)[j] \in {2, 4, 8} /\ (j = 1 => Entry(l)[j] = 8)
    BY <1>2
  <2>2. CASE l.kernel \in {"clockwise", "counterclockwise", "incremental_counterclockwise"}
    <3>1. GroupOf(l) # 0 /\ Passes(l)[1].workers = GroupOf(l)
      BY <1>3, <2>2 DEF Passes, Clockwise, Counterclockwise,
           IncrementalCounterclockwise, ByGroup, Loop
    <3>2. CASE l.n % 8 = 0
      <4>1. l.n \notin {2, 4}  BY <1>1, <3>2, SMT
      <4>2. Entry(l) = <<8, 8>>  BY <2>2, <3>2, <4>1 DEF Entry
      <4>3. QED  BY <3>1, <3>2, <4>2 DEF GroupOf
    <3>3. CASE l.n % 8 # 0
      <4>1. l.n \in {2, 4} /\ GroupOf(l) = l.n  BY <3>1, <3>3 DEF GroupOf
      <4>2. Entry(l) \in {<<8, l.n>>, <<8, 8, l.n>>}  BY <2>2, <3>3, <4>1 DEF Entry
      <4>3. QED  BY <3>1, <4>1, <4>2
    <3>4. QED  BY <3>2, <3>3
  <2>3. CASE l.kernel = "reverse_clockwise"
    <3>1. Passes(l) = ReverseClockwise(l)  BY <2>3 DEF Passes
    <3>2. CASE l.rg = 8 /\ l.n \in {2, 4}
      <4>1. l.n % 8 # 0  BY <3>2, SMT
      <4>2. Entry(l) = <<8, l.n>>  BY <2>3, <3>2, <4>1 DEF Entry
      <4>3. Passes(l)[1].workers = l.n
        BY <3>1, <3>2, <4>1 DEF ReverseClockwise, Loop
      <4>4. QED  BY <3>2, <4>2, <4>3
    <3>3. CASE ~(l.rg = 8 /\ l.n \in {2, 4})
      <4>1. Entry(l) \in {<<8>>, <<8, 8>>}  BY <2>3, <3>3 DEF Entry
      <4>2. 8 \div l.rg \in {1, 2, 4, 8}  BY <1>1, SMT
      <4>3. Passes(l)[1].workers \in {8, l.rg, 8 \div l.rg}
        BY <1>1, <1>3, <3>1, <3>3 DEF ReverseClockwise, Loop
      <4>4. QED  BY <1>1, <4>1, <4>2, <4>3
    <3>4. QED  BY <3>2, <3>3
  <2>4. CASE l.kernel \in {"clockwise_short", "reverse_clockwise_short",
                           "modified_clockwise", "modified_reverse_clockwise"}
    <3>1. Entry(l) = <<8>>  BY <2>4 DEF Entry
    <3>2. Passes(l) \in Seq(PassType) /\ Len(Passes(l)) \in 0..2
      BY PassesType
    <3>3. Passes(l)[1] \in PassType
      BY <1>3, <3>2
    <3>4. Passes(l)[1].workers \in {1, 2, 4, 8}
      BY <3>3 DEF PassType
    <3>5. QED  BY <2>1, <3>1, <3>4
  <2>5. QED
    BY <1>1, <2>2, <2>3, <2>4 DEF KernelNames
<1>4. QED
  BY <1>2, <1>3

(* The kernels with two passes: the first has barriers, and no tasklet      *)
(* joins for the second.                                                    *)
LEMMA TwoPasses ==
  ASSUME NEW l \in LaunchType, Len(Passes(l)) = 2
  PROVE  /\ Passes(l)[1].barrier # 0
         /\ Passes(l)[2].workers <= Passes(l)[1].workers
         /\ Passes(l)[2].blocks = l.n \div 2 /\ Passes(l)[1].blocks = l.n
<1>1. l.rg \in {1, 2, 4, 8} /\ l.kernel \in KernelNames
  BY DEF LaunchType
<1>2. l.kernel \in {"modified_clockwise", "modified_reverse_clockwise"}
  BY <1>1 DEF KernelNames, Passes, Clockwise, Counterclockwise, ByGroup,
       IncrementalCounterclockwise, ReverseClockwise, ClockwiseShort,
       ReverseClockwiseShort
<1>3. CASE l.kernel = "modified_clockwise"
  <2>1. Passes(l) = << InPlace(Loop(l, 4, 4, 2, -1, l.dpu)),
                       Doubled(Loop(l, 2, 0, 2, -1, l.dpu \div 4)) >>
    BY <1>3 DEF Passes, ModifiedClockwise
  <2>2. /\ Passes(l)[1] = InPlace(Loop(l, 4, 4, 2, -1, l.dpu))
        /\ Passes(l)[2] = Doubled(Loop(l, 2, 0, 2, -1, l.dpu \div 4))
    BY <2>1
  <2>3. /\ InPlace(Loop(l, 4, 4, 2, -1, l.dpu)).barrier = 4
        /\ InPlace(Loop(l, 4, 4, 2, -1, l.dpu)).workers = 4
        /\ InPlace(Loop(l, 4, 4, 2, -1, l.dpu)).blocks = l.n
    BY DEF InPlace, Loop
  <2>4. /\ Doubled(Loop(l, 2, 0, 2, -1, l.dpu \div 4)).workers = 2
        /\ Doubled(Loop(l, 2, 0, 2, -1, l.dpu \div 4)).blocks = l.n \div 2
    BY DEF Doubled, Loop
  <2>5. QED
    BY <2>2, <2>3, <2>4
<1>4. CASE l.kernel = "modified_reverse_clockwise"
  <2>1. Passes(l) = << InPlace(Loop(l, l.rg, 2, l.rg, 1, -l.dpu)),
                       Doubled(Loop(l, l.rg, 2, l.rg, 1, -(l.dpu \div 4))) >>
    BY <1>4 DEF Passes, ModifiedReverseClockwise
  <2>2. /\ Passes(l)[1] = InPlace(Loop(l, l.rg, 2, l.rg, 1, -l.dpu))
        /\ Passes(l)[2] = Doubled(Loop(l, l.rg, 2, l.rg, 1, -(l.dpu \div 4)))
    BY <2>1
  <2>3. /\ InPlace(Loop(l, l.rg, 2, l.rg, 1, -l.dpu)).barrier = 2
        /\ InPlace(Loop(l, l.rg, 2, l.rg, 1, -l.dpu)).workers = l.rg
        /\ InPlace(Loop(l, l.rg, 2, l.rg, 1, -l.dpu)).blocks = l.n
    BY DEF InPlace, Loop
  <2>4. /\ Doubled(Loop(l, l.rg, 2, l.rg, 1, -(l.dpu \div 4))).workers = l.rg
        /\ Doubled(Loop(l, l.rg, 2, l.rg, 1, -(l.dpu \div 4))).blocks = l.n \div 2
    BY DEF Doubled, Loop
  <2>5. QED
    BY <1>1, <2>2, <2>3, <2>4
<1>5. QED
  BY <1>2, <1>3, <1>4

(* The first pass goes over all num_comm_dpu blocks.                        *)
LEMMA FirstPassBlocks ==
  ASSUME NEW l \in LaunchType, 1 <= Len(Passes(l))
  PROVE  Passes(l)[1].blocks = l.n
<1>1. \A w, b, g, sgn, shf : Loop(l, w, b, g, sgn, shf).blocks = l.n
  BY DEF Loop
<1>2. \A w, b, g, sgn, shf : InPlace(Loop(l, w, b, g, sgn, shf)).blocks = l.n
  BY DEF InPlace, Loop
<1>3. \A sgn, shf : ByGroup(l, sgn, shf) # << >> => ByGroup(l, sgn, shf)[1].blocks = l.n
  BY <1>1 DEF ByGroup
<1>4. Passes(l) # << >> /\ l.kernel \in KernelNames
  <2>1. Passes(l) \in Seq(PassType)
    BY PassesType
  <2>2. QED
    BY <2>1 DEF LaunchType
<1>5. CASE l.kernel \in {"clockwise", "counterclockwise", "incremental_counterclockwise"}
  BY <1>3, <1>4, <1>5 DEF Passes, Clockwise, Counterclockwise, IncrementalCounterclockwise
<1>6. CASE l.kernel = "reverse_clockwise"
  BY <1>1, <1>4, <1>6 DEF Passes, ReverseClockwise
<1>7. CASE l.kernel \in {"clockwise_short", "reverse_clockwise_short"}
  BY <1>1, <1>7 DEF Passes, ClockwiseShort, ReverseClockwiseShort
<1>8. CASE l.kernel = "modified_clockwise"
  BY <1>1, <1>2, <1>4, <1>8 DEF Passes, ModifiedClockwise
<1>9. CASE l.kernel = "modified_reverse_clockwise"
  BY <1>1, <1>2, <1>4, <1>9 DEF Passes, ModifiedReverseClockwise
<1>10. QED
  BY <1>4, <1>5, <1>6, <1>7, <1>8, <1>9 DEF KernelNames
=============================================================================
