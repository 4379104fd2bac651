----------------------------- MODULE HostTransfer -----------------------------
(***************************************************************************)
(* How the host carries out the transfer of AlltoAll: hw_all_to_all_rns and *)
(* its three thread functions divide the work into iterations, each from a  *)
(* source to a destination entangled group (hw_dpu_rank.c); the functions   *)
(* trans_all_to_all_rg, _24 and _22 make the iteration burst by burst, a    *)
(* burst being one block of each of the 8 PEs of a group, and permute the   *)
(* PEs on the way (pid_comm.c).                                             *)
(***************************************************************************)
EXTENDS Hypercube
LOCAL INSTANCE FiniteSetsExt

(* The axes counted in entangled groups.  thread_all_to_all_rns serves an x *)
(* axis of at least 8 PEs, _24_rns x and y axes that have 8 PEs together,   *)
(* and _22_rns x and y axes of 2 PEs each.                                  *)
Variant(ax) == IF ax[1] >= 8 THEN 0 ELSE IF ax[1] * ax[2] >= 8 THEN 24 ELSE 22

EgAxes(ax) ==
  CASE Variant(ax) = 0  -> [ax EXCEPT ![1] = @ \div 8]
    [] Variant(ax) = 24 -> [ax EXCEPT ![1] = 1, ![2] = (ax[1] * @) \div 8]
    [] OTHER            -> [ax EXCEPT ![1] = 1, ![2] = 1, ![3] = (4 * @) \div 8]

TotalAxisProduct(ax, comm) == Product(Selected(EgAxes(ax), comm, 1))
TotalIterNum(ax, comm)     == (NumPEs(ax) \div 8) * TotalAxisProduct(ax, comm)

(* The iterations of thread t out of th: from StartPoint, IterCount many.   *)
Share(total, th)     == total \div th
Remainder(total, th) == total % th
StartPoint(total, th, t) ==
  Share(total, th) * t
    + (IF t < Remainder(total, th) THEN t ELSE Remainder(total, th))
IterCount(total, th, t) ==
  Share(total, th) + (IF t < Remainder(total, th) THEN 1 ELSE 0)

(* cur_iter_src and cur_iter_dst: which of the entangled groups that        *)
(* communicate iteration i reads from and writes to.                        *)
IterSrc(ax, comm, i) ==
  (i \div TotalAxisProduct(ax, comm)) % TotalAxisProduct(ax, comm)
IterDst(ax, comm, i) == i % TotalAxisProduct(ax, comm)

(* The entangled group with number `member' among those that communicate in *)
(* iteration i; the axes that do not take part come from the leading part   *)
(* of i.  There are 8 groups to a rank.                                     *)
EntangledGroup(ax, comm, i, member) ==
  LET eg    == EgAxes(ax)
      outer == i \div (TotalAxisProduct(ax, comm) * TotalAxisProduct(ax, comm))
      digit(d) ==
        (IF comm[d] = 1 THEN member ELSE outer)
          \div Stride(Selected(eg, comm, comm[d]), d) % eg[d]
      rank == MapThenSumSet(LAMBDA d : (digit(d) * Stride(eg, d)) \div 8, Dims(ax))
      rg   == MapThenSumSet(LAMBDA d : digit(d) * Stride(eg, d), Dims(ax)) % 8
  IN  8 * rank + rg

(* Blocks per group and iteration: the PEs of one entangled group that      *)
(* belong to the same communication group.                                  *)
BlocksPerIter(ax, comm) ==
  CASE Variant(ax) = 0  -> IF comm[1] = 1 THEN 8 ELSE 1
    [] Variant(ax) = 24 -> (IF comm[1] = 1 THEN ax[1] ELSE 1)
                             * (IF comm[2] = 1 THEN 8 \div ax[1] ELSE 1)
    [] OTHER            -> 2^Cardinality({d \in 1..3 : comm[d] = 1})

-----------------------------------------------------------------------------
(* The register operations of the RNS_COPY macros: where the byte of lane c *)
(* (the PE with number c in its entangled group) goes.                      *)
RotateOf8(c, k) == (c + k) % 8                            \* _mm512_rol_epi64
RotateOf4(c, k) == 4 * (c \div 4) + ((c + k) % 4)         \* _mm512_rol_epi32
Swap(c)         == IF c % 2 = 0 THEN c + 1 ELSE c - 1     \* _mm512_shuffle_epi8

(* The function chosen for a shape, with its argument a_length.             *)
TransRg     == [fn |-> "rg", a |-> 8]
TransRg24(a) == [fn |-> "rg_24", a |-> a]
TransRg22   == [fn |-> "rg_22", a |-> 2]

Trans(ax, comm) ==
  CASE Variant(ax) = 0  -> TransRg
    [] Variant(ax) = 24 -> IF comm[1] = comm[2] THEN TransRg ELSE TransRg24(ax[1])
    [] OTHER ->
         LET axes == SubSeq(comm, 1, 3)
         IN  CASE axes \in {<<1, 1, 1>>, <<0, 0, 0>>} -> TransRg
               [] axes \in {<<1, 0, 1>>, <<0, 1, 0>>} -> TransRg22
               [] axes \in {<<1, 1, 0>>, <<0, 0, 1>>} -> TransRg24(4)
               [] axes \in {<<1, 0, 0>>, <<0, 1, 1>>} -> TransRg24(2)

(* Function tr moves `BurstsOf' blocks; x says whether the x axis takes     *)
(* part.  (rns_chip_id runs over 0..BurstsOf-1; burst r moves the r-th.)    *)
BurstsOf(tr, x) ==
  CASE tr.fn = "rg"    -> IF x THEN 8 ELSE 1
    [] tr.fn = "rg_24" -> IF x THEN tr.a ELSE 8 \div tr.a
    [] OTHER           -> IF x THEN 4 ELSE 2

LaneOf(tr, x, r, c) ==
  CASE tr.fn = "rg" /\ x               -> RotateOf8(c, r)
    [] tr.fn = "rg" /\ ~x              -> c
    [] tr.fn = "rg_24" /\ x /\ tr.a = 4 -> RotateOf4(c, r)
    [] tr.fn = "rg_24" /\ x /\ tr.a = 2 -> IF r = 0 THEN c ELSE Swap(c)
    [] tr.fn = "rg_24" /\ ~x           -> RotateOf8(c, tr.a * r)
    [] tr.fn = "rg_22" /\ x ->
         LET half == IF r \in {2, 3} THEN RotateOf8(c, 4) ELSE c
         IN  IF r \in {1, 3} THEN Swap(half) ELSE half
    [] tr.fn = "rg_22" /\ ~x           -> IF r = 0 THEN c ELSE RotateOf4(c, 2)

Bursts(ax, comm) == BurstsOf(Trans(ax, comm), CommType(comm) = 0)

LaneStraight(ax, comm, r, c) == c
Lane(ax, comm, r, c) == LaneOf(Trans(ax, comm), CommType(comm) = 0, r, c)

-----------------------------------------------------------------------------
(* The transfer as a list of bursts: burst r of iteration i is number       *)
(* i * Bursts + r.  It moves block `from' of entangled group src to block   *)
(* `to' of group dst; lane c receives what was in lane source[c].           *)
NumBursts(ax, comm) == TotalIterNum(ax, comm) * Bursts(ax, comm)

FromBlock(ax, comm, i, r) == IterDst(ax, comm, i) * BlocksPerIter(ax, comm) + r
ToBlockByDst(ax, comm, i, r) == IterDst(ax, comm, i) * BlocksPerIter(ax, comm) + r
ToBlock(ax, comm, i, r)   == IterSrc(ax, comm, i) * BlocksPerIter(ax, comm) + r

TransferList(ax, comm) ==
  [ n \in 0..(NumBursts(ax, comm) - 1) |->
      LET i == n \div Bursts(ax, comm)
          r == n % Bursts(ax, comm)
      IN  [ src  |-> EntangledGroup(ax, comm, i, IterSrc(ax, comm, i)),
            from |-> FromBlock(ax, comm, i, r),
            dst  |-> EntangledGroup(ax, comm, i, IterDst(ax, comm, i)),
            to   |-> ToBlock(ax, comm, i, r),
            source |-> [c \in 0..7 |-> CHOOSE b \in 0..7 : Lane(ax, comm, r, b) = c] ] ]
=============================================================================
