------------------------------ MODULE Hypercube ------------------------------
(***************************************************************************)
(* The virtual hypercube of PID-Comm (hypercube_manager): the PEs of a DPU  *)
(* set, numbered with the first axis running fastest, and the groups that a *)
(* communication string such as "010" makes of them.                        *)
(*                                                                          *)
(* ax is the sequence axis_len, comm the sequence comm_axis of the digits   *)
(* of the string.  An entangled group is 8 consecutive PEs: the 8 chips of  *)
(* a rank that the host reads and writes in one burst.                      *)
(***************************************************************************)
EXTENDS Integers, Sequences, FiniteSets

Product(s) ==
  LET upTo[i \in 0..Len(s)] == IF i = 0 THEN 1 ELSE s[i] * upTo[i - 1]
  IN  upTo[Len(s)]
NumPEs(ax)      == Product(ax)
PEs(ax)         == 0..(NumPEs(ax) - 1)
Dims(ax)        == 1..Len(ax)
Stride(ax, d)   == Product(SubSeq(ax, 1, d - 1))
Coord(ax, p, d) == (p \div Stride(ax, d)) % ax[d]

(* The lengths of the axes with comm = c, 1 for the others. *)
Selected(ax, comm, c) == [d \in Dims(ax) |-> IF comm[d] = c THEN ax[d] ELSE 1]

CommType(comm)    == IF comm[1] = 1 THEN 0 ELSE 1
NumComm(ax, comm) == Product(Selected(ax, comm, 1))        \* num_comm_dpu

(* num_comm_rg: how many PEs of a group share an entangled group.  The loop *)
(* over the dimensions ends as soon as they span 8 PEs.                     *)
NumCommRg(ax, comm) ==
  LET Within(d) ==
        LET len == Stride(ax, d)
        IN  IF len >= 8 \/ comm[d] = 0 THEN 1
            ELSE IF ax[d] <= 8 \div len THEN ax[d] ELSE 8 \div len
      prod == Product([d \in Dims(ax) |-> Within(d)])
  IN  IF prod >= 8 THEN 8 ELSE prod

(* The shapes the library can be used with: whole entangled groups, axes    *)
(* whose lengths are powers of two, and a digit for each axis.              *)
ShapeOK(ax, comm) ==
  /\ Len(comm) = Len(ax) /\ Len(ax) >= 2
  /\ \A d \in Dims(ax) : ax[d] \in {2^k : k \in 0..10} /\ comm[d] \in {0, 1}
  /\ NumPEs(ax) % 8 = 0 /\ NumComm(ax, comm) > 1

-----------------------------------------------------------------------------
(* What a collective means: the group of PE p, and p's index in it.         *)
SameGroup(ax, comm, p, q) ==
  \A d \in Dims(ax) : comm[d] = 0 => Coord(ax, p, d) = Coord(ax, q, d)

Group(ax, comm, p) == {q \in PEs(ax) : SameGroup(ax, comm, p, q)}

(* Members in increasing PE number, that is, x before y before z.           *)
IndexInGroup(ax, comm, p) ==
  Cardinality({q \in 0..(p - 1) : SameGroup(ax, comm, p, q)})
=============================================================================
