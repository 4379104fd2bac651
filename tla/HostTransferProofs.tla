-------------------------- MODULE HostTransferProofs --------------------------
(***************************************************************************)
(* The threads of the host divide the iterations of a transfer among them:  *)
(* for any number of iterations and threads, each iteration is made by      *)
(* exactly one thread (share, remainder and start_point in the thread       *)
(* functions of hw_dpu_rank.c).                                             *)
(***************************************************************************)
EXTENDS HostTransfer, TLAPS

(* The iterations of thread t. *)
IterationsOf(total, th, t) ==
  StartPoint(total, th, t)..(StartPoint(total, th, t) + IterCount(total, th, t) - 1)

(* Division with remainder, as the C operators do it. *)
LEMMA DivMod ==
  ASSUME NEW total \in Nat, NEW th \in Nat \ {0}
  PROVE  /\ Share(total, th) \in Nat
         /\ Remainder(total, th) \in 0..(th - 1)
         /\ total = Share(total, th) * th + Remainder(total, th)
BY Z3 DEF Share, Remainder

(* A product grows with its second factor. *)
LEMMA ProductGrows ==
  ASSUME NEW s \in Nat, NEW t \in Nat, NEW u \in Nat, t < u
  PROVE  /\ s * t \in Nat
         /\ s * t + s <= s * u
<1>1. s * (u - t) = s + s * (u - t - 1)
  BY Z3
<1>2. s * (u - t - 1) >= 0
  <2>1. u - t - 1 \in Nat
    OBVIOUS
  <2>2. \A k \in Nat : s * k >= 0
    BY Z3
  <2> QED BY <2>1, <2>2
<1>3. s * u = s * t + s * (u - t)
  BY Z3
<1>4. s * t \in Nat
  BY Z3
<1> QED BY <1>1, <1>2, <1>3, <1>4

(* A product grows weakly with its second factor. *)
LEMMA Monotonic ==
  ASSUME NEW s \in Nat, NEW t \in Nat, NEW u \in Nat, t <= u
  PROVE  s * t <= s * u
<1>1. CASE t < u
  BY <1>1, ProductGrows
<1> QED BY <1>1

(* A thread's iterations end before those of any later thread begin, and    *)
(* no thread goes beyond the total: no iteration is made twice.             *)
THEOREM IterationsApart ==
  ASSUME NEW total \in Nat, NEW th \in Nat \ {0},
         NEW t \in 0..(th - 1), NEW u \in 0..(th - 1), t < u
  PROVE  /\ StartPoint(total, th, t) + IterCount(total, th, t)
              <= StartPoint(total, th, u)
         /\ IterationsOf(total, th, t) \cap IterationsOf(total, th, u) = {}
<1> DEFINE s == Share(total, th)
           r == Remainder(total, th)
<1>1. s \in Nat /\ r \in Nat
  BY DivMod
<1>2. /\ s * t \in Nat /\ s * u \in Nat
      /\ s * t + s <= s * u
  BY <1>1, ProductGrows
<1>3. StartPoint(total, th, t) = s * t + (IF t < r THEN t ELSE r)
  BY DEF StartPoint
<1>4. StartPoint(total, th, u) = s * u + (IF u < r THEN u ELSE r)
  BY DEF StartPoint
<1>5. IterCount(total, th, t) = s + (IF t < r THEN 1 ELSE 0)
  BY DEF IterCount
<1>6. IterCount(total, th, u) = s + (IF u < r THEN 1 ELSE 0)
  BY DEF IterCount
<1> HIDE DEF s, r
<1>7. StartPoint(total, th, t) + IterCount(total, th, t) <= StartPoint(total, th, u)
  <2>1. CASE t < r
    BY <1>1, <1>2, <1>3, <1>4, <1>5, <2>1
  <2>2. CASE ~(t < r)
    BY <1>1, <1>2, <1>3, <1>4, <1>5, <2>2
  <2> QED BY <2>1, <2>2
<1>8. /\ StartPoint(total, th, t) \in Int /\ StartPoint(total, th, u) \in Int
      /\ IterCount(total, th, t) \in Int /\ IterCount(total, th, u) \in Int
  BY <1>1, <1>2, <1>3, <1>4, <1>5, <1>6
<1> QED BY <1>7, <1>8 DEF IterationsOf

(* The quotient and the remainder of i by d. *)
LEMMA Quotient ==
  ASSUME NEW i \in Nat, NEW d \in Nat \ {0}
  PROVE  /\ i \div d \in Nat /\ i % d \in 0..(d - 1)
         /\ i = d * (i \div d) + (i % d)
BY Z3

(* Every iteration is made: the first r threads make s + 1 each, the others *)
(* s each, and together they reach the total.                               *)
THEOREM IterationsCovered ==
  ASSUME NEW total \in Nat, NEW th \in Nat \ {0}, NEW i \in 0..(total - 1)
  PROVE  \E t \in 0..(th - 1) : i \in IterationsOf(total, th, t)
<1> DEFINE s == Share(total, th)
           r == Remainder(total, th)
<1>1. s \in Nat /\ r \in 0..(th - 1) /\ total = s * th + r
  BY DivMod
<1>2. ASSUME NEW t \in 0..(th - 1)
      PROVE  IterationsOf(total, th, t) =
               (s * t + (IF t < r THEN t ELSE r))
                 ..(s * t + (IF t < r THEN t ELSE r) + (s + (IF t < r THEN 1 ELSE 0)) - 1)
  BY DEF IterationsOf, StartPoint, IterCount
<1> HIDE DEF s, r
<1>3. CASE i < (s + 1) * r
  <2> DEFINE d == s + 1
             q == i \div d
             m == i % d
  <2>0. i \in Nat /\ d \in Nat \ {0}
    BY <1>1
  <2>1. q \in Nat /\ m \in 0..s /\ i = (s + 1) * q + m
    <3>1. q \in Nat /\ m \in 0..(d - 1) /\ i = d * q + m
      BY Quotient, <2>0
    <3> QED BY <1>1, <3>1
  <2> HIDE DEF q, m
  <2>2. q < r
    <3>1. SUFFICES ASSUME r <= q PROVE FALSE
      BY <1>1, <2>1
    <3>2. (s + 1) * r <= (s + 1) * q
      BY <1>1, <2>1, <3>1, Monotonic
    <3> QED BY <1>1, <1>3, <2>1, <3>2, SMT
  <2>3. (s + 1) * q = s * q + q /\ s * q \in Nat
    BY <1>1, <2>1, Z3
  <2>4. q \in 0..(th - 1)
    BY <1>1, <2>1, <2>2
  <2>5. i \in (s * q + q)..(s * q + q + (s + 1) - 1)
    BY <1>1, <2>1, <2>3
  <2>6. i \in IterationsOf(total, th, q)
    BY <1>2, <2>2, <2>4, <2>5
  <2> QED BY <2>4, <2>6
<1>4. CASE ~(i < (s + 1) * r)
  <2>1. s * th \in Nat /\ s * r \in Nat /\ (s + 1) * r = s * r + r
    BY <1>1, Z3
  <2>2. s # 0
    <3>1. s = 0 => s * th = 0 /\ s * r = 0
      BY <1>1
    <3> QED BY <1>1, <1>4, <2>1, <3>1
  <2> DEFINE j == i - (s * r + r)
             q == j \div s
             m == j % s
  <2>0. j \in Nat /\ s \in Nat \ {0}
    BY <1>1, <1>4, <2>1, <2>2
  <2>3. q \in Nat /\ m \in 0..(s - 1) /\ i - (s * r + r) = s * q + m
    <3> HIDE DEF j
    <3>1. q \in Nat /\ m \in 0..(s - 1) /\ j = s * q + m
      BY Quotient, <2>0
    <3> QED BY <3>1 DEF j
  <2> HIDE DEF j, q, m
  <2>4. s * (r + q) = s * r + s * q /\ s * q \in Nat
    BY <1>1, <2>3, Z3
  <2>5. r + q < th
    <3>1. SUFFICES ASSUME th <= r + q PROVE FALSE
      BY <1>1, <2>3
    <3>2. s * th <= s * (r + q)
      BY <1>1, <2>3, <3>1, Monotonic
    <3> QED BY <1>1, <2>1, <2>3, <2>4, <3>2
  <2>6. r + q \in 0..(th - 1) /\ ~(r + q < r)
    BY <1>1, <2>3, <2>5
  <2>7. i \in (s * (r + q) + r)..(s * (r + q) + r + s - 1)
    BY <1>1, <2>1, <2>3, <2>4
  <2>8. i \in IterationsOf(total, th, r + q)
    <3>1. IterationsOf(total, th, r + q) =
             (s * (r + q) + r)..(s * (r + q) + r + (s + 0) - 1)
      BY <1>2, <2>6
    <3>2. s + 0 = s
      BY <1>1
    <3> QED BY <2>7, <3>1, <3>2
  <2> QED BY <2>6, <2>8
<1> QED BY <1>3, <1>4

=============================================================================
