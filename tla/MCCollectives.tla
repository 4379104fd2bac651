---------------------------- MODULE MCCollectives ----------------------------
(* Instances of Collectives.                                                 *)
EXTENDS Collectives

(* A call after a kernel of the user's, which has left the MRAMs to the PEs. *)
Call(name, axes, digits, to) ==
  [ op |-> name, ax |-> axes, comm |-> digits, start |-> 0, buffer |-> 24,
    target |-> to, reduce |-> "sum", mux |-> "pe" ]
MaxOf(c) == [c EXCEPT !.reduce = "max"]
AfterCollective(c) == [c EXCEPT !.mux = "host"]

(* Every thread function of the collectives between PEs and the register     *)
(* permutations of ReduceScatter, and of AllReduce and AllGather those that  *)
(* do not only serve calls which go wrong (below); in groups of PEs that     *)
(* share an entangled group and groups that span several, targets on the     *)
(* source and apart.                                                         *)
ReduceScatterCalls ==
  { Call("reduce_scatter", <<8, 2>>, <<1, 0>>, 0),
    Call("reduce_scatter", <<8, 4>>, <<0, 1>>, 8),
    Call("reduce_scatter", <<4, 4>>, <<1, 0>>, 0),
    Call("reduce_scatter", <<4, 4>>, <<0, 1>>, 0),
    Call("reduce_scatter", <<2, 2, 2>>, <<1, 0, 1>>, 8),
    Call("reduce_scatter", <<2, 2, 4>>, <<0, 1, 0>>, 0),
    Call("reduce_scatter", <<2, 2, 4>>, <<0, 0, 1>>, 0) }

AllReduceCalls ==
  { MaxOf(Call("all_reduce", <<8, 2>>, <<1, 0>>, 8)),
    Call("all_reduce", <<8, 2, 2>>, <<0, 1, 0>>, 0),
    MaxOf(Call("all_reduce", <<8, 2>>, <<0, 1>>, 8)),
    MaxOf(Call("all_reduce", <<4, 2>>, <<1, 1>>, 0)),
    Call("all_reduce", <<4, 4>>, <<1, 0>>, 8),
    Call("all_reduce", <<4, 2, 2>>, <<0, 0, 1>>, 0),
    Call("all_reduce", <<2, 2, 2>>, <<1, 0, 1>>, 0),
    Call("all_reduce", <<2, 2, 4>>, <<1, 1, 0>>, 8),
    Call("all_reduce", <<2, 2, 4>>, <<1, 0, 0>>, 0) }

AllGatherCalls ==
  { Call("allgather", <<8, 2>>, <<1, 0>>, 0),
    [Call("allgather", <<16, 2>>, <<1, 0>>, 0) EXCEPT !.buffer = 32],
    Call("allgather", <<8, 2, 2>>, <<0, 0, 1>>, 8),
    Call("allgather", <<4, 2>>, <<0, 1>>, 0),
    Call("allgather", <<4, 2>>, <<1, 0>>, 8),
    Call("allgather", <<2, 4>>, <<1, 1>>, 0),
    Call("allgather", <<2, 2, 4>>, <<1, 0, 0>>, 0),
    Call("allgather", <<2, 2, 2>>, <<1, 0, 1>>, 0),
    Call("allgather", <<2, 2, 2>>, <<0, 0, 1>>, 0) }

(* Calls between the host and the PEs: those that do not claim the MRAMs     *)
(* follow a call that has; along x, Reduce is given one entangled group a    *)
(* communication group.                                                      *)
HostCalls ==
  { AfterCollective(Call("gather", <<8, 2, 2>>, <<0, 1, 0>>, 0)),
    AfterCollective(Call("scatter", <<8, 2, 2>>, <<0, 0, 1>>, 0)),
    AfterCollective(Call("scatter", <<16, 2>>, <<0, 1>>, 0)),
    Call("reduce", <<8, 2>>, <<1, 0>>, 0),
    Call("reduce", <<8, 4>>, <<0, 1>>, 0),
    Call("reduce", <<8, 2, 2>>, <<0, 0, 1>>, 0),
    Call("broadcast", <<8, 2>>, <<1, 0>>, 8) }

MCCalls == ReduceScatterCalls \cup AllReduceCalls \cup AllGatherCalls \cup HostCalls

(* Calls that go wrong, along or beside an x axis shorter than 8: AllGather *)
(* in groups that span entangled groups reads beyond the source; with axes  *)
(* of 2 its first transfer writes beyond the buffer; the maximum is a sum.  *)
ShortGatherCalls == { Call("allgather", <<4, 4>>, <<0, 1>>, 0) }
TwoByTwoGatherCalls == { Call("allgather", <<2, 2, 2>>, <<0, 1, 0>>, 0) }
ShortMaxCalls == { MaxOf(Call("all_reduce", <<4, 2>>, <<1, 0>>, 0)) }

(* Along an x axis of two entangled groups, as in the tutorial of the README *)
(* (there of four).                                                          *)
WideReduceCalls ==
  { [Call("reduce", <<16, 2>>, <<1, 0>>, 0) EXCEPT !.buffer = 32] }
=============================================================================
