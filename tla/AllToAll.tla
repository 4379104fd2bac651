------------------------------- MODULE AllToAll -------------------------------
(***************************************************************************)
(* One call of pidcomm_alltoall: a relocation kernel on every PE, the       *)
(* transfer between the PEs by the threads of the host, which read and      *)
(* write the MRAM directly, and a second relocation kernel.                 *)
(*                                                                          *)
(* The kernels are taken as what Relocate shows them to do (Relocated):     *)
(* dpu_launch returns when all PEs are done and no PE reaches the MRAM of   *)
(* another.  The threads of the host run concurrently, burst by burst.      *)
(*                                                                          *)
(* An MRAM belongs to the host or to its PE.  dpu_launch gives it to the    *)
(* PE, dpu_push_xfer to the host; hw_all_to_all_rns does not touch the      *)
(* multiplexer, and what it does to an MRAM of the PE is lost.              *)
(***************************************************************************)
EXTENDS CollectiveLaunches, HostTransfer

CONSTANTS Calls,        \* [ax, comm, start, buffer, target] in chunks
          NumThreads    \* thread_num

Threads == 0..(NumThreads - 1)
Mram    == 0..(MramSize - 1)
Bytes(c) == Chunks * NumComm(c.ax, c.comm)      \* total_data_size

(* buffer_offset must be greater than the sum of the start_offset and the   *)
(* data size (README.md); and the kernels of the call can be taken as one   *)
(* step each.                                                               *)
CallOK(c) ==
  /\ ShapeOK(c.ax, c.comm)
  /\ c.start + Bytes(c) <= c.buffer
  /\ \/ c.target + Bytes(c) <= c.start + c.buffer
     \/ c.start + c.buffer + Bytes(c) <= c.target
  /\ c.start + c.buffer + Bytes(c) <= MramSize
  /\ c.target + Bytes(c) <= MramSize
  /\ \A p \in PEs(c.ax) :
       LET ls == AllToAllBefore(c.ax, c.comm, p, c.start)
                   \o AllToAllAfter(c.ax, c.comm, p, c.start, c.target, c.buffer)
       IN  \A j \in DOMAIN ls : OneStep(ls[j])

ASSUME AllToAllAssumption ==
  NumThreads \in Nat \ {0} /\ \A c \in Calls : CallOK(c)

(* The bursts of each call, and the index of each PE in its group. *)
Transfers == [c \in Calls |-> TransferList(c.ax, c.comm)]
Indices   == [c \in Calls |-> [p \in PEs(c.ax) |-> IndexInGroup(c.ax, c.comm, p)]]

VARIABLES
  call,     \* the arguments
  phase,    \* what pidcomm_alltoall does next
  mux,      \* who has the MRAMs: "host" or "pe"
  made,     \* made[t]: bursts made by thread t
  mram      \* mram[p][a] = <<q, b>>: the chunk that was at b in PE q is at a in p

vars == << call, phase, mux, made, mram >>

ax   == call.ax
comm == call.comm

Init ==
  /\ call \in Calls
  /\ phase = "before"
  /\ mux \in {"host", "pe"}
  /\ made = [t \in Threads |-> 0]
  /\ mram = [p \in PEs(ax) |-> [a \in Mram |-> <<p, a>>]]

-----------------------------------------------------------------------------
(* dpu_launch(..., DPU_SYNCHRONOUS) with the arguments launches[p] on PE p. *)
Run(launches) ==
  IF launches[0] = << >> THEN UNCHANGED << mram, mux >>
  ELSE /\ mram' = [p \in PEs(ax) |-> Relocated(launches[p][1], mram[p])]
       /\ mux' = "pe"

RelocateBefore ==
  /\ phase = "before"
  /\ \E launches \in {[p \in PEs(ax) |-> AllToAllBefore(ax, comm, p, call.start)]} :
       Run(launches)
  /\ phase' = "claim"
  /\ UNCHANGED << call, made >>

(* The 8-byte dpu_push_xfer(..., DPU_XFER_FROM_DPU, ...) before all_to_all. *)
ClaimSkipped == phase = "claim" /\ phase' = "transfer" /\ UNCHANGED << call, mux, made, mram >>
Claim ==
  /\ phase = "claim"
  /\ mux' = "host"
  /\ phase' = "transfer"
  /\ UNCHANGED << call, made, mram >>

(* Thread t makes a consecutive part of the transfer, made[t] of it so far. *)
First(t) ==
  StartPoint(TotalIterNum(ax, comm), NumThreads, t) * Bursts(ax, comm)
Last(t) ==
  First(t) + IterCount(TotalIterNum(ax, comm), NumThreads, t) * Bursts(ax, comm) - 1

ActiveToEnd(t) == phase = "transfer" /\ First(t) + made[t] < NumBursts(ax, comm)
Active(t) == phase = "transfer" /\ First(t) + made[t] <= Last(t)
Current(t) == Transfers[call][First(t) + made[t]]

(* Where the current burst of thread t comes from and goes to.              *)
SrcAddr(m) == call.start + Chunks * m.from
DstAddr(m) == call.start + call.buffer + Chunks * m.to

Burst(t) ==
  /\ Active(t)
  /\ LET m    == Current(t)
         put  == DstAddr(m)..(DstAddr(m) + Chunks - 1)
         lane(p) == 8 * m.src + m.source[p % 8]
     IN  mram' = IF mux = "pe" THEN mram ELSE
           [p \in PEs(ax) |->
              IF p \div 8 # m.dst THEN mram[p]
              ELSE [a \in Mram |->
                      IF a \in put THEN mram[lane(p)][SrcAddr(m) + (a - DstAddr(m))]
                      ELSE mram[p][a]]]
  /\ made' = [made EXCEPT ![t] = @ + 1]
  /\ UNCHANGED << call, phase, mux >>

(* pthread_join of every thread; then the second dpu_push_xfer.             *)
Join ==
  /\ phase = "transfer"
  /\ \A t \in Threads : ~Active(t)
  /\ mux' = "host"
  /\ phase' = "after"
  /\ UNCHANGED << call, made, mram >>

RelocateAfter ==
  /\ phase = "after"
  /\ \E launches \in {[p \in PEs(ax) |->
        AllToAllAfter(ax, comm, p, call.start, call.target, call.buffer)]} :
       Run(launches)
  /\ phase' = "done"
  /\ UNCHANGED << call, made >>

Returned == phase = "done" /\ UNCHANGED vars

Next ==
  \/ RelocateBefore
  \/ Claim
  \/ \E t \in Threads : Burst(t)
  \/ Join
  \/ RelocateAfter
  \/ Returned

(* Some thread of the host always runs on.                                  *)
Spec == Init /\ [][Next]_vars /\ WF_vars(Next)

-----------------------------------------------------------------------------
TypeOK ==
  /\ call \in Calls
  /\ phase \in {"before", "claim", "transfer", "after", "done"}
  /\ mux \in {"host", "pe"}
  /\ \A t \in Threads : First(t) + made[t] \in 0..(Last(t) + 1)
  /\ \A p \in PEs(ax), a \in Mram : mram[p][a] \in PEs(ax) \X Mram

(* No burst a thread is about to write is being read or written by another  *)
(* thread, although nothing but the division of the iterations keeps the    *)
(* threads apart.                                                           *)
NoBurstRace ==
  \A t, u \in Threads :
    t # u /\ Active(t) /\ Active(u) =>
      LET m == Current(t)  n == Current(u)
      IN  << m.dst, DstAddr(m) >> \notin {<< n.src, SrcAddr(n) >>, << n.dst, DstAddr(n) >>}

(* What the threads have put in a PE's buffer comes from the PE's own group *)
(* and is the block meant for this PE, in whatever order the bursts are     *)
(* made: the rotation of the blocks by the first kernel and the rotation of *)
(* the lanes in the burst cancel out.                                       *)
MeantForHolder ==
  phase \in {"transfer", "after"} =>
    \A p \in PEs(ax), a \in 0..(Bytes(call) - 1) :
      LET here   == call.start + call.buffer + a
          origin == mram[p][here]
      IN  origin # <<p, here>> =>
            /\ SameGroup(ax, comm, p, origin[1])
            /\ (origin[2] - call.start) \div Chunks = Indices[call][p]

(* The call does what it promises: its result appears at target_offset, and *)
(* it does return.                                                          *)
Promise == INSTANCE Exchange WITH
  Size <- Chunks,
  received <- IF phase # "done" THEN << >>
              ELSE [p \in PEs(ax) |-> [a \in 0..(Bytes(call) - 1) |-> mram[p][call.target + a]]]

KeepsPromise == Promise!Spec

(* The part of the promise a single state shows: when the call returns, the *)
(* blocks of the group are at target_offset in the order of the members.    *)
Delivered ==
  phase = "done" =>
    \A p \in PEs(ax), a \in 0..(Bytes(call) - 1) :
      LET origin == mram[p][call.target + a]
      IN  /\ SameGroup(ax, comm, p, origin[1])
          /\ Indices[call][origin[1]] = a \div Chunks
          /\ origin[2] = call.start + Chunks * Indices[call][p] + (a % Chunks)
=============================================================================
