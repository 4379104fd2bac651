--------------------------- MODULE CollectiveResult ---------------------------
(***************************************************************************)
(* What the collectives of PID-Comm other than AlltoAll promise, in one     *)
(* step.  A chunk of data says of which places and addresses the original   *)
(* contents have been combined into it, and by what: a single one if it is  *)
(* a copy, one of each member of a group if it is a reduction.              *)
(*                                                                          *)
(* Places are the PEs and, above them, the buffers of the host: buffer h    *)
(* has eight places, one per lane, since an entangled group is 8 PEs.       *)
(***************************************************************************)
EXTENDS Hypercube
LOCAL INSTANCE FiniteSetsExt

CONSTANTS Calls,     \* [op, ax, comm, start, target, reduce, ...]
          Size       \* chunks in one block

Lanes             == 0..7
HostPlace(ax, h, lane) == NumPEs(ax) + 8 * h + lane
HostPlaces(ax)    == NumPEs(ax)..(2 * NumPEs(ax) - 1)
Total(c)          == Size * NumComm(c.ax, c.comm)      \* total_data_size

NotYet == << >>

VARIABLES call,      \* the arguments of the call
          received   \* received[p][a]: chunk a of the result at place p

Member(c, p, j) ==
  CHOOSE q \in Group(c.ax, c.comm, p) : IndexInGroup(c.ax, c.comm, q) = j

(* Entangled groups of which some PEs communicate (there are whole ones     *)
(* along x where this is used); bundles are numbered by their first group,  *)
(* and so are the groups in a bundle.                                       *)
EntangledGroups(ax) == 0..((NumPEs(ax) \div 8) - 1)
Bundle(c, g)   == {q \div 8 : q \in Group(c.ax, c.comm, 8 * g)}
FirstOf(c, g)  == Min(Bundle(c, g))
Firsts(c)      == {FirstOf(c, g) : g \in EntangledGroups(c.ax)}
BundleNo(c, g) == Cardinality({h \in Firsts(c) : h < FirstOf(c, g)})
InBundle(c, g) == Cardinality({h \in Bundle(c, g) : h < g})

Copy(p, a) == [by |-> "copy", of |-> {<< p, a >>}]

(* The element with address a of every member of the group of p, reduced.   *)
Reduction(c, p, a) == [by |-> c.reduce, of |-> {<< q, a >> : q \in Group(c.ax, c.comm, p)}]

Scattered(c) ==
  [ p \in PEs(c.ax) |->
      LET g == p \div 8
          h == BundleNo(c, g) * Cardinality(Bundle(c, g)) + InBundle(c, g)
      IN  [a \in 0..(Total(c) - 1) |-> Copy(HostPlace(c.ax, h, p % 8), a)] ]

(* Buffer h holds the reductions of bundle h, those of block 8 * d + lane   *)
(* if the PEs of an entangled group communicate, else block d of the group  *)
(* the lane belongs to.                                                     *)
ReducedBlock(c, d, lane) == IF c.comm[1] = 1 THEN 8 * d + lane ELSE d

Reduced(c) ==
  [ h \in 0..(Cardinality(Firsts(c)) - 1), lane \in Lanes |->
      LET first == CHOOSE g \in Firsts(c) : BundleNo(c, g) = h
      IN  [ a \in 0..(Size * Cardinality(Bundle(c, first)) - 1) |->
              Reduction(c, 8 * first + lane,
                c.start + Size * ReducedBlock(c, a \div Size, lane) + (a % Size)) ] ]

Promised(c) ==
  CASE c.op = "reduce_scatter" ->
         [ p \in PEs(c.ax) |-> [ a \in 0..(Size - 1) |->
             Reduction(c, p, c.start + Size * IndexInGroup(c.ax, c.comm, p) + a) ] ]
    [] c.op = "all_reduce" ->
         [ p \in PEs(c.ax) |-> [ a \in 0..(Total(c) - 1) |-> Reduction(c, p, c.start + a) ] ]
    [] c.op = "allgather" ->
         [ p \in PEs(c.ax) |-> [ a \in 0..(Total(c) - 1) |->
             Copy(Member(c, p, a \div Size), c.start + (a % Size)) ] ]
    [] c.op = "gather" ->
         [ p \in PEs(c.ax) |-> [ a \in 0..(Total(c) - 1) |-> Copy(p, c.start + a) ] ]
    [] c.op = "scatter" -> Scattered(c)
    [] c.op = "reduce" -> Reduced(c)
    [] c.op = "broadcast" ->
         [ p \in PEs(c.ax) |-> [ a \in 0..(Total(c) - 1) |->
             Copy(HostPlace(c.ax, 0, 0), a) ] ]

Init == call \in Calls /\ received = NotYet

Deliver ==
  /\ received = NotYet
  /\ received' = Promised(call)
  /\ UNCHANGED call

(* The call returns.                                                        *)
Returns == <>(received # NotYet)

Spec == Init /\ [][Deliver]_<<call, received>> /\ Returns
=============================================================================
