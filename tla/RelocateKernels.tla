--------------------------- MODULE RelocateKernels ---------------------------
(***************************************************************************)
(* The eight DPU kernels src/pidcomm_lib/data_relocate_*: each one moves    *)
(* the num_comm_dpu blocks of a PE's buffer to other slots, so that the     *)
(* host can afterwards move whole bursts between entangled groups.          *)
(*                                                                          *)
(* The kernels are one loop nest with different parameters.  A launch is    *)
(* the argument record the host sends (dpu_arguments_comm_t) and the name   *)
(* of the binary; it denotes a sequence of passes, and a pass is the loop   *)
(*                                                                          *)
(*   for(target_dpu_num = tasklet_id; ...; target_dpu_num += workers)       *)
(*       for(iteration = 0; iteration < iter; iteration++)                  *)
(*           mram_read; barrier_wait; mram_write; barrier_wait;             *)
(*                                                                          *)
(* Addresses are chunks of 2048 bytes, the unit of one mram_read.           *)
(***************************************************************************)
EXTENDS Integers, Sequences

CONSTANTS Chunks,       \* `iter': 2048-byte chunks in one block
          MramSize      \* chunks of MRAM

ASSUME ChunksAssumption == Chunks \in Nat \ {0}

KernelNames ==
  { "clockwise", "reverse_clockwise", "counterclockwise",
    "incremental_counterclockwise", "clockwise_short",
    "reverse_clockwise_short", "modified_clockwise",
    "modified_reverse_clockwise" }

(* dpu_arguments_comm_t (support/common.h) and the loaded binary; src and   *)
(* dst are start_offset and target_offset in chunks.                        *)
LaunchType ==
  [ kernel : KernelNames, n : Nat \ {0}, dpu : Nat, rg : {1, 2, 4, 8},
    commType : {0, 1}, noRotate : BOOLEAN, src : Nat, dst : Nat ]

(* One loop of a kernel.  barrier = 0: the loop body has no barrier.        *)
PassType ==
  [ workers : {1, 2, 4, 8}, barrier : {0, 2, 4, 8}, blocks : Nat,
    iter : Nat \ {0}, src : Nat, dst : Nat, group : {1, 2, 4, 8},
    sign : {-1, 1}, shift : Int, rotate : BOOLEAN ]

(* The loop as most kernels run it: `w' tasklets, a barrier of size `b',    *)
(* block t goes to slot (sign * t + shift) % g of its group of g blocks.    *)
Loop(l, w, b, g, sgn, shf) ==
  [ workers |-> w, barrier |-> b, blocks |-> l.n, iter |-> Chunks,
    src |-> l.src, dst |-> l.dst, group |-> g, sign |-> sgn, shift |-> shf,
    rotate |-> ~l.noRotate ]

(* The second loop of the modified kernels: blocks of twice the size.       *)
Doubled(p) == [p EXCEPT !.blocks = @ \div 2, !.iter = 2 * @]
InPlace(p) == [p EXCEPT !.dst = p.src]

(* data_relocate_clockwise and the two counter-clockwise kernels choose the *)
(* group by num_comm_dpu alone; any other num_comm_dpu moves nothing.       *)
GroupOf(l) == IF l.n % 8 = 0 THEN 8 ELSE IF l.n \in {2, 4} THEN l.n ELSE 0

ByGroup(l, sgn, shf) ==
  IF GroupOf(l) = 0 THEN << >>
  ELSE << Loop(l, GroupOf(l), GroupOf(l), GroupOf(l), sgn, shf) >>

Clockwise(l)        == ByGroup(l, 1, -l.dpu)
Counterclockwise(l) == ByGroup(l, 1, l.dpu)
IncrementalCounterclockwise(l) ==
  IF GroupOf(l) = 0 THEN << >> ELSE ByGroup(l, 1, l.dpu - (l.dpu % GroupOf(l)))

ReverseClockwise(l) ==
  IF l.n % 8 = 0 /\ l.rg = 8 THEN << Loop(l, 8, 8, 8, -1, l.dpu) >>
  ELSE IF l.rg < 8 /\ l.commType = 0
       THEN << Loop(l, l.rg, 0, l.rg, -1, l.dpu) >>
  ELSE IF l.rg < 8
       THEN << Loop(l, 8 \div l.rg, 0, l.rg, -1, l.dpu \div (8 \div l.rg)) >>
  ELSE IF l.n \in {2, 4} THEN << Loop(l, l.n, l.n, l.n, -1, l.dpu) >>
  ELSE << >>

(* The short kernels use barriers only when the x axis takes part, and only *)
(* of sizes 2 and 4.                                                        *)
ShortBarrier(l) == IF l.commType = 0 /\ l.rg \in {2, 4} THEN l.rg ELSE 0

ShortShift(l) ==
  IF l.commType = 0 THEN l.dpu ELSE l.dpu \div (8 \div l.rg)

ClockwiseShort(l) ==
  << Loop(l, l.rg, ShortBarrier(l), l.rg, 1, -ShortShift(l)) >>
ReverseClockwiseShort(l) ==
  << Loop(l, l.rg, ShortBarrier(l), l.rg, -1, ShortShift(l)) >>

ModifiedClockwise(l) ==
  IF l.rg = 8 THEN << >>
  ELSE IF l.commType = 0
       THEN << InPlace(Loop(l, 4, 4, 2, -1, l.dpu)),
               Doubled(Loop(l, 2, 0, 2, -1, l.dpu \div 4)) >>
  ELSE << Loop(l, 2, 0, 2, -1, l.dpu \div 2) >>

ModifiedReverseClockwise(l) ==
  IF l.commType = 0
  THEN << InPlace(Loop(l, l.rg, 2, l.rg, 1, -l.dpu)),
          Doubled(Loop(l, l.rg, 2, l.rg, 1, -(l.dpu \div 4))) >>
  ELSE << Loop(l, l.rg, 0, l.rg, 1, -(l.dpu \div 2)) >>

Passes(l) ==
  CASE l.kernel = "clockwise"                    -> Clockwise(l)
    [] l.kernel = "reverse_clockwise"            -> ReverseClockwise(l)
    [] l.kernel = "counterclockwise"             -> Counterclockwise(l)
    [] l.kernel = "incremental_counterclockwise" -> IncrementalCounterclockwise(l)
    [] l.kernel = "clockwise_short"              -> ClockwiseShort(l)
    [] l.kernel = "reverse_clockwise_short"      -> ReverseClockwiseShort(l)
    [] l.kernel = "modified_clockwise"           -> ModifiedClockwise(l)
    [] l.kernel = "modified_reverse_clockwise"   -> ModifiedReverseClockwise(l)

(* The barriers before the first loop, by size.  A tasklet whose id is not  *)
(* below the size takes the `goto PASS' in front of that barrier.           *)
Entry(l) ==
  CASE l.kernel \in {"clockwise", "counterclockwise"} ->
         IF l.n % 8 = 0 THEN <<8, 8>>
         ELSE IF l.n \in {2, 4} THEN <<8, l.n>> ELSE <<8>>
    [] l.kernel = "incremental_counterclockwise" ->
         IF l.n \in {2, 4} THEN <<8, 8, l.n>> ELSE <<8, 8>>
    [] l.kernel = "reverse_clockwise" ->
         IF l.n % 8 = 0 /\ l.rg = 8 THEN <<8, 8>>
         ELSE IF l.rg = 8 /\ l.n \in {2, 4} THEN <<8, l.n>> ELSE <<8>>
    [] OTHER -> <<8>>

-----------------------------------------------------------------------------
(* `offset' and target_addr: the slot block b of pass p is written to.  The *)
(* C code computes the difference in uint32_t; the group sizes divide 2^32, *)
(* so the remainder is the mathematical one.                                *)
Slot(p, b) ==
  IF p.rotate
  THEN (b \div p.group) * p.group + ((p.sign * b + p.shift) % p.group)
  ELSE b

(* Copies made by tasklet t in pass p: the two `for' loops, flattened.      *)
Rounds(p, t) == IF t < p.blocks THEN ((p.blocks - 1 - t) \div p.workers) + 1 ELSE 0
Steps(p, t)  == Rounds(p, t) * p.iter

Block(p, t, s) == t + p.workers * (s \div p.iter)        \* target_dpu_num
FromFirstChunk(p, t, s) == p.src + p.iter * Block(p, t, s)
From(p, t, s)  == p.src + p.iter * Block(p, t, s) + (s % p.iter)
To(p, t, s)    == p.dst + p.iter * Slot(p, Block(p, t, s)) + (s % p.iter)

(* What a launch asks of its caller: whole groups, so that every tasklet of *)
(* a pass with barriers makes the same number of rounds, and offsets that   *)
(* keep source and target inside the MRAM.                                  *)
PassFits(p) ==
  /\ p.blocks % p.group = 0
  /\ p.barrier # 0 => p.barrier = p.workers /\ p.blocks % p.workers = 0
  /\ p.src + (p.iter * p.blocks) <= MramSize
  /\ p.dst + (p.iter * p.blocks) <= MramSize

(* Nothing one tasklet of the pass writes is still to be read by another:   *)
(* source and target are apart, or they are the same blocks and barriers    *)
(* keep the rounds of the tasklets together.                                *)
RaceFree(p) ==
  \/ p.src + (p.iter * p.blocks) <= p.dst
  \/ p.dst + (p.iter * p.blocks) <= p.src
  \/ p.src = p.dst /\ p.barrier # 0 /\ p.workers % p.group = 0

AllRaceFree(ls) == \A l \in ls : \A i \in DOMAIN Passes(l) : RaceFree(Passes(l)[i])

(* A kernel does what it is for, whatever the order of its tasklets, if the *)
(* launch is typed and each of its passes fits and is race free.  This is   *)
(* theorem RelocationCorrect of RelocateDataProofs; who takes a launch for  *)
(* one step has to ask it.                                                  *)
OneStep(l) ==
  l \in LaunchType /\ \A i \in DOMAIN Passes(l) : PassFits(Passes(l)[i]) /\ RaceFree(Passes(l)[i])

(* What one pass is for: the memory after it, as a function of the memory   *)
(* before it, chunk c of block b being stored in chunk c of Slot(b).        *)
Moved(p, mem) ==
  [ a \in DOMAIN mem |->
      IF \E b \in 0..(p.blocks - 1), c \in 0..(p.iter - 1) :
           a = p.dst + p.iter * Slot(p, b) + c
      THEN LET bc == CHOOSE bc \in (0..(p.blocks - 1)) \X (0..(p.iter - 1)) :
                       a = p.dst + p.iter * Slot(p, bc[1]) + bc[2]
           IN  mem[p.src + p.iter * bc[1] + bc[2]]
      ELSE mem[a] ]

(* No kernel has more than two passes.                                      *)
Relocated(l, mem) ==
  LET ps == Passes(l)
  IN  CASE Len(ps) = 0 -> mem
        [] Len(ps) = 1 -> Moved(ps[1], mem)
        [] OTHER       -> Moved(ps[2], Moved(ps[1], mem))
=============================================================================
