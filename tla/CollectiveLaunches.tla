-------------------------- MODULE CollectiveLaunches --------------------------
(***************************************************************************)
(* Which relocation kernel each collective of PID-Comm loads on a PE before *)
(* and after the transfer through the host, and with which arguments        *)
(* (pidcomm_alltoall, pidcomm_reduce_scatter, pidcomm_all_reduce and        *)
(* pidcomm_allgather in api/dpu_memory.c).  << >> stands for no launch.     *)
(*                                                                          *)
(* Offsets are in chunks.  start, target and buffer are start_offset,       *)
(* target_offset and buffer_offset.                                         *)
(***************************************************************************)
EXTENDS Hypercube, RelocateKernels

Launch(kernel, ax, comm, p, src, dst) ==
  [ kernel |-> kernel, n |-> NumComm(ax, comm), dpu |-> p,
    rg |-> NumCommRg(ax, comm), commType |-> CommType(comm),
    noRotate |-> FALSE, src |-> src, dst |-> dst ]

(* The shape with its own kernels: an x and a y axis of length 2 of which   *)
(* one takes part, either the y axis alone or the x axis with the z axis.   *)
IsTwoByTwo(ax, comm) ==
  /\ Len(ax) >= 3 /\ ax[1] = 2 /\ ax[2] = 2
  /\ SubSeq(comm, 1, 3) \in {<<0, 1, 0>>, <<1, 0, 1>>}

(* Several PEs of a group, but not 8, in an entangled group.                *)
IsShort(ax, comm) == ax[1] < 8 /\ NumCommRg(ax, comm) \in 2..7

AllToAllBefore(ax, comm, p, start) ==
  IF CommType(comm) = 0
  THEN << Launch("clockwise", ax, comm, p, start, start) >>
  ELSE << >>

AllToAllAfter(ax, comm, p, start, target, buffer) ==
  LET L(kernel) == Launch(kernel, ax, comm, p, start + buffer, target)
  IN  IF IsTwoByTwo(ax, comm)
      THEN << [L("modified_clockwise") EXCEPT !.rg = 2] >>
      ELSE IF \/ CommType(comm) = 0
              \/ ax[1] < 8 /\ comm[2] = 1
              \/ ax[1] * ax[2] = 4 /\ (comm[2] = 1 \/ comm[3] = 1)
      THEN << L("reverse_clockwise") >>
      ELSE << [L("clockwise") EXCEPT !.noRotate = TRUE] >>

AllGatherAfter(ax, comm, p, start, target, buffer) ==
  AllToAllAfter(ax, comm, p, start, target, buffer)

ReduceScatterBefore(ax, comm, p, start, buffer) ==
  LET L(kernel) == Launch(kernel, ax, comm, p, start, start + buffer)
  IN  IF IsTwoByTwo(ax, comm)
      THEN << [L("modified_reverse_clockwise") EXCEPT !.rg = 2] >>
      ELSE IF IsShort(ax, comm) THEN << L("clockwise_short") >>
      ELSE << [L("clockwise") EXCEPT !.noRotate = (CommType(comm) = 1)] >>

AllReduceBefore(ax, comm, p, start) ==
  LET L(kernel) == Launch(kernel, ax, comm, p, start, start)
  IN  IF IsTwoByTwo(ax, comm)
      THEN << [L("modified_reverse_clockwise") EXCEPT !.rg = 2] >>
      ELSE IF IsShort(ax, comm) THEN << L("clockwise_short") >>
      ELSE IF CommType(comm) = 0 THEN << L("clockwise") >>
      ELSE << >>

AllReduceAfter(ax, comm, p, start, target, buffer) ==
  LET L(kernel) == Launch(kernel, ax, comm, p, start + buffer, target)
  IN  IF IsTwoByTwo(ax, comm)
      THEN << [L("modified_clockwise") EXCEPT !.rg = 2] >>
      ELSE IF IsShort(ax, comm) THEN << L("reverse_clockwise_short") >>
      ELSE IF CommType(comm) = 0 THEN << L("counterclockwise") >>
      ELSE << L("incremental_counterclockwise") >>
=============================================================================
