------------------------------ MODULE MCRelocate ------------------------------
(* Instances of Relocate: launches that the collectives really make.         *)
EXTENDS Relocate

LOCAL C == INSTANCE CollectiveLaunches

Range1(s) == {s[i] : i \in DOMAIN s}

(* start_offset, buffer_offset and target_offset, in chunks. *)
S == 0
B == 16
T == 32

(* Every kernel, every barrier size, in place and not, one and two passes.   *)
MCLaunches == UNION
  { Range1(C!AllToAllBefore(<<16, 1>>, <<1, 0>>, 5, S)),
    Range1(C!AllToAllBefore(<<4, 8>>, <<1, 0>>, 7, S)),
    Range1(C!AllToAllAfter(<<4, 2>>, <<1, 0>>, 6, S, T, B)),
    Range1(C!AllToAllAfter(<<4, 2>>, <<0, 1>>, 6, S, T, B)),
    Range1(C!AllToAllAfter(<<8, 4>>, <<0, 1>>, 9, S, T, B)),
    Range1(C!AllToAllAfter(<<2, 2, 2>>, <<0, 1, 0>>, 6, S, T, B)),
    Range1(C!ReduceScatterBefore(<<4, 4>>, <<0, 1>>, 9, S, B)),
    Range1(C!AllReduceBefore(<<4, 2>>, <<1, 0>>, 6, S)),
    Range1(C!AllReduceBefore(<<2, 4>>, <<1, 0>>, 3, S)),
    Range1(C!AllReduceBefore(<<2, 2, 4>>, <<1, 0, 1>>, 13, S)),
    Range1(C!AllReduceAfter(<<2, 2, 4>>, <<1, 0, 1>>, 13, S, T, B)),
    Range1(C!AllReduceAfter(<<4, 2>>, <<1, 0>>, 6, S, T, B)),
    Range1(C!AllReduceAfter(<<8, 2>>, <<1, 0>>, 11, S, T, B)),
    Range1(C!AllReduceAfter(<<8, 4>>, <<0, 1>>, 27, S, T, B)) }

ASSUME MCRaceFree == AllRaceFree(MCLaunches)

(* pidcomm_all_reduce along the y axis when the x axis is shorter than 8:    *)
(* the launch is in place and the kernel's loop has no barrier.              *)
InPlaceUnbarriered == Range1(C!AllReduceBefore(<<4, 2>>, <<0, 1>>, 6, S))
=============================================================================
