------------------------------- MODULE Exchange -------------------------------
(***************************************************************************)
(* What pidcomm_alltoall promises its caller: in one step, member k of each *)
(* group receives, as block j, the k-th block of member j.                  *)
(***************************************************************************)
EXTENDS Hypercube

CONSTANTS Calls,     \* calls of pidcomm_alltoall
          Size       \* Size: chunks in one block

NotYet == << >>

VARIABLES call,      \* the arguments of the call
          received   \* received[p][a]: origin of chunk a at target_offset of p

Member(p, j) ==
  CHOOSE q \in Group(call.ax, call.comm, p) : IndexInGroup(call.ax, call.comm, q) = j

Exchanged ==
  [ p \in PEs(call.ax) |->
      [ a \in 0..(Size * NumComm(call.ax, call.comm) - 1) |->
          << Member(p, a \div Size),
             call.start + Size * IndexInGroup(call.ax, call.comm, p) + (a % Size) >> ] ]

Init == call \in Calls /\ received = NotYet

Deliver ==
  /\ received = NotYet
  /\ received' # NotYet
  /\ received' = Exchanged
  /\ UNCHANGED call

(* The call returns.                                                        *)
Returns == <>(received # NotYet)

Spec == Init /\ [][Deliver]_<<call, received>> /\ Returns
=============================================================================
