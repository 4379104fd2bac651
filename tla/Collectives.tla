------------------------------ MODULE Collectives ------------------------------
(***************************************************************************)
(* One call of pidcomm_reduce_scatter, _all_reduce, _allgather, _gather,    *)
(* _scatter, _reduce or _broadcast.  Like AlltoAll, a call is a sequence of *)
(* relocation kernels, 8-byte transfers that claim the MRAM for the host,   *)
(* and one transfer by the threads of the host; it differs in what an       *)
(* iteration does.  The threads run concurrently, and a step of a thread is *)
(* one packet of one iteration: all that is read for it is combined in the  *)
(* registers before anything is written.                                    *)
(*                                                                          *)
(* A chunk is a record: `of' is the set of the places and addresses whose   *)
(* contents are in it, `by' says by what they have been combined.  A place  *)
(* is a PE, or a lane of a buffer of the host: host_buffer[h] is filled 64  *)
(* bytes at a time, 8 bytes for each PE of an entangled group.              *)
(***************************************************************************)
EXTENDS CollectiveLaunches, HostTransfer
LOCAL INSTANCE FiniteSetsExt

CONSTANTS Calls,        \* [op, ax, comm, start, buffer, target, reduce, mux]
          NumThreads    \* thread_num

Threads == 0..(NumThreads - 1)
Mram    == 0..(MramSize - 1)
Lanes   == 0..7
Total(c) == Chunks * NumComm(c.ax, c.comm)           \* total_data_size

NumGroups(c) == NumPEs(c.ax) \div 8
Places(c)    == 0..(2 * NumPEs(c.ax) - 1)
GroupPlace(g, lane)   == 8 * g + lane
HostPlace(c, h, lane) == 8 * (NumGroups(c) + h) + lane

Apart(a, m, b, n) == a + m <= b \/ b + n <= a

ReduceBefore(ax, comm, p, start) ==
  IF CommType(comm) = 0 THEN << Launch("clockwise", ax, comm, p, start, start) >> ELSE << >>

LaunchesBefore(c) ==
  [ p \in PEs(c.ax) |->
      CASE c.op = "reduce_scatter" -> ReduceScatterBefore(c.ax, c.comm, p, c.start, c.buffer)
        [] c.op = "all_reduce"     -> AllReduceBefore(c.ax, c.comm, p, c.start)
        [] c.op = "reduce"         -> ReduceBefore(c.ax, c.comm, p, c.start)
        [] OTHER                   -> << >> ]

LaunchesAfter(c) ==
  [ p \in PEs(c.ax) |->
      CASE c.op = "all_reduce" -> AllReduceAfter(c.ax, c.comm, p, c.start, c.target, c.buffer)
        [] c.op = "allgather"  -> AllGatherAfter(c.ax, c.comm, p, c.start, c.target, c.buffer)
        [] OTHER               -> << >> ]

(* Offsets as the README asks for them, inside the MRAM.  Gather, Scatter   *)
(* and Reduce have one thread function only, which divides the x axis by 8, *)
(* and Gather reads three axes; with two axes of 2 PEs only three axes are  *)
(* considered (the digits of the third are wrong if a fourth takes part).   *)
(* The kernels can be taken as one step each: this leaves out AllReduce     *)
(* when x is shorter than 8 and takes no part, but other PEs of an entangled *)
(* group do: it relocates in place without a barrier (see                   *)
(* RelocateUnbarriered.cfg).                                                *)
CallOK(c) ==
  /\ ShapeOK(c.ax, c.comm)
  /\ c.reduce \in (IF c.op = "all_reduce" THEN {"sum", "max"} ELSE {"sum"})
  /\ c.start + Total(c) <= c.buffer
  /\ c.start + c.buffer + Total(c) <= MramSize
  /\ c.target + Total(c) <= MramSize
  /\ Apart(c.target, Total(c), c.start + c.buffer, Total(c))
  /\ c.op \in {"gather", "scatter", "reduce"} => c.ax[1] % 8 = 0
  /\ c.op = "gather" => Len(c.ax) = 3
  /\ Variant(c.ax) = 22 => Len(c.ax) = 3
  /\ \A p \in PEs(c.ax) :
       LET ls == LaunchesBefore(c)[p] \o LaunchesAfter(c)[p]
       IN  \A j \in DOMAIN ls : OneStep(ls[j])

ASSUME CollectivesAssumption ==
  NumThreads \in Nat \ {0} /\ \A c \in Calls : CallOK(c)

-----------------------------------------------------------------------------
(* Iterations: one for every entangled group.  Mine is the group that an    *)
(* iteration is for, Turn its number among the Together groups that         *)
(* communicate.                                                             *)
Together(c)   == TotalAxisProduct(c.ax, c.comm)
Turn(c, i)    == i % Together(c)
Member(c, i, j) == EntangledGroup(c.ax, c.comm, i * Together(c), j)
Mine(c, i)    == Member(c, i, Turn(c, i))
Members(c, i) == {Member(c, i, j) : j \in 0..(Together(c) - 1)}

Slots(c)          == 0..(BlocksPerIter(c.ax, c.comm) - 1)
BlockOfFirst(c, i, k) == k
BlockOfNext(c, i, k)  == BlocksPerIter(c.ax, c.comm) * (Turn(c, i) + 1) + k
BlockOf(c, i, k)      == BlocksPerIter(c.ax, c.comm) * Turn(c, i) + k
At(base, block, packet) == base + (Chunks * block) + packet

(* Where the lane of a PE goes in the registers, for its k-th block, and    *)
(* how AllReduce rotates the sum for the k-th block it writes: back if      *)
(* whole entangled groups communicate, on otherwise.                        *)
InLaneStraight(c, k, lane) == lane
InLane(c, k, lane)  == Lane(c.ax, c.comm, k, lane)
OutLane(c, k, lane) ==
  IF Trans(c.ax, c.comm).fn = "rg" /\ CommType(c.comm) = 0
  THEN RotateOf8(lane, 8 - k) ELSE Lane(c.ax, c.comm, k, lane)

(* An iteration makes one transfer, but two in AllGather on x and y axes of *)
(* 2 PEs each: thread_all_gather_22_rns calls what thread_all_gather_24_rns *)
(* calls before it looks at the third axis, with the same offsets.          *)
Transfers(c) ==
  IF c.op = "allgather" /\ Variant(c.ax) = 22
  THEN << IF c.comm[1] = c.comm[2] THEN TransRg ELSE TransRg24(c.ax[1]), Trans(c.ax, c.comm) >>
  ELSE << Trans(c.ax, c.comm) >>

(* The blocks AllGather copies to: those of transfer tr.  Where it copies   *)
(* from: a source is one block, but the functions for x axes shorter than 8 *)
(* add the offset of the iteration's turn to the source as to the target.   *)
Copies(c, tr)     == 0..(BurstsOf(tr, CommType(c.comm) = 0) - 1)
SourceBlock(c, i) == IF Variant(c.ax) = 0 THEN 0 ELSE BlockOf(c, i, 0)

(* What packet a of iteration i combines in a lane, ...                     *)
ReadBase(c) == IF c.op = "reduce_scatter" THEN c.start + c.buffer ELSE c.start

Combines(c, i, a, lane) ==
  CASE c.op \in {"reduce_scatter", "all_reduce", "reduce"} ->
         { << GroupPlace(g, l), At(ReadBase(c), BlockOf(c, i, k), a) >> :
             <<g, k, l>> \in {x \in Members(c, i) \X Slots(c) \X Lanes :
                                InLane(c, x[2], x[3]) = lane} }
    [] c.op = "allgather" ->
         {<< GroupPlace(Mine(c, i), lane), At(c.start, SourceBlock(c, i), a) >>}
    [] c.op = "gather"    -> {<< GroupPlace(i, lane), At(c.start, 0, a) >>}
    [] c.op = "scatter"   -> {<< HostPlace(c, i, lane), a >>}

(* ... and the places it writes, in transfer tr: << place, address, lane >>. *)
ReducePacket(c, i, a) ==
  IF CommType(c.comm) = 0 THEN a + Turn(c, i) ELSE a + (Chunks * Turn(c, i))

Stores(c, i, tr, a) ==
  CASE c.op = "reduce_scatter" ->
         {<< GroupPlace(Mine(c, i), l), c.target + a, l >> : l \in Lanes}
    [] c.op = "all_reduce" ->
         { << GroupPlace(g, OutLane(c, k, l)), At(c.start + c.buffer, BlockOf(c, i, k), a), l >> :
             <<g, k, l>> \in Members(c, i) \X Slots(c) \X Lanes }
    [] c.op = "allgather" ->
         { << GroupPlace(g, LaneOf(tr, CommType(c.comm) = 0, k, l)),
              At(c.start + c.buffer, BlockOf(c, i, k), a), l >> :
             <<g, k, l>> \in Members(c, i) \X Copies(c, tr) \X Lanes }
    [] c.op = "gather"  -> {<< HostPlace(c, i, l), a, l >> : l \in Lanes}
    [] c.op = "scatter" -> {<< GroupPlace(Mine(c, i), l), c.start + a, l >> : l \in Lanes}
    [] c.op = "reduce"  ->
         {<< HostPlace(c, i \div Together(c), l), ReducePacket(c, i, a), l >> : l \in Lanes}

(* byte_length / 8, and the packets of all transfers of an iteration *)
Packets(c)   == IF c.op \in {"gather", "scatter"} THEN Total(c) ELSE Chunks
Iteration(c) == Len(Transfers(c)) * Packets(c)

NumSteps(c) == NumGroups(c) * Iteration(c)

(* Every step of every call, with the lane each place it writes gets. *)
StepTable ==
  [ c \in {x \in Calls : x.op # "broadcast"} |->
      [ n \in 0..(NumSteps(c) - 1) |->
          LET i  == n \div Iteration(c)
              tr == Transfers(c)[((n % Iteration(c)) \div Packets(c)) + 1]
              a  == n % Packets(c)
              stores == Stores(c, i, tr, a)
          IN  [ combines |-> [l \in Lanes |-> Combines(c, i, a, l)],
                stores   |-> [ w \in {<< s[1], s[2] >> : s \in stores} |->
                                 (CHOOSE s \in stores : << s[1], s[2] >> = w)[3] ] ] ] ]

-----------------------------------------------------------------------------
VARIABLES
  call,     \* the arguments, and who has the MRAMs when the call is made
  phase,    \* what the function does next
  mux,      \* who has the MRAMs: "host" or "pe"
  made,     \* made[t]: steps made by thread t
  mem       \* mem[p][a]: the chunk at address a of place p

vars == << call, phase, mux, made, mem >>

IsPE(p) == p < NumPEs(call.ax)

(* A chunk as it was when the call was made; one of which nothing is known. *)
Original(p, a) == [by |-> "copy", of |-> {<< p, a >>}]
Spoilt         == [by |-> "copy", of |-> {}]

FirstPhase(op) ==
  CASE op \in {"reduce_scatter", "all_reduce", "reduce"} -> "before"
    [] op = "allgather" -> "claim"
    [] op = "broadcast" -> "copy"
    [] OTHER            -> "transfer"

Init ==
  /\ call \in Calls
  /\ phase = FirstPhase(call.op)
  /\ mux = call.mux
  /\ made = [t \in Threads |-> 0]
  /\ mem = [p \in Places(call) |-> [a \in Mram |-> Original(p, a)]]

(* dpu_launch(..., DPU_SYNCHRONOUS) with the arguments launches[p] on PE p. *)
(* A kernel is one step that does what it is for: CallOK leaves out the     *)
(* launches of which that is not true.                                      *)
Run(launches) ==
  IF launches[0] = << >> THEN UNCHANGED << mem, mux >>
  ELSE /\ mem' = [p \in DOMAIN mem |->
                    IF IsPE(p) THEN Relocated(launches[p][1], mem[p]) ELSE mem[p]]
       /\ mux' = "pe"

RelocateBefore ==
  /\ phase = "before"
  /\ \E launches \in {LaunchesBefore(call)} : Run(launches)
  /\ phase' = "claim"
  /\ UNCHANGED << call, made >>

ClaimLater ==
  /\ phase = "claim"
  /\ phase' = "transfer"
  /\ UNCHANGED << call, mux, made, mem >>

(* The 8-byte dpu_push_xfer(..., DPU_XFER_FROM_DPU, ...).                   *)
Claim ==
  /\ phase = "claim"
  /\ mux' = "host"
  /\ phase' = "transfer"
  /\ UNCHANGED << call, made, mem >>

-----------------------------------------------------------------------------
(* Thread t makes a consecutive part of the iterations. *)
First(t) == StartPoint(NumGroups(call), NumThreads, t) * Iteration(call)
Last(t)  == First(t) + IterCount(NumGroups(call), NumThreads, t) * Iteration(call) - 1

ActiveToEnd(t) == phase = "transfer" /\ First(t) + made[t] < NumSteps(call)
Active(t)  == phase = "transfer" /\ First(t) + made[t] <= Last(t)
Current(t) == StepTable[call][First(t) + made[t]]

(* What the host sees of a place: an MRAM the PE has is out of its reach.   *)
Seen(w) == IF IsPE(w[1]) /\ mux = "pe" THEN Spoilt ELSE mem[w[1]][w[2]]

(* The operation of a reduction.  Only AllReduce has a reduce_type, and of  *)
(* its functions only trans_all_reduce_rg and _y_rg are given it: those for *)
(* x axes shorter than 8 add, whatever the type.                            *)
Operation(c) ==
  IF c.op = "all_reduce" /\ Trans(c.ax, c.comm).fn = "rg" THEN c.reduce ELSE "sum"

(* What a lane of the registers holds: a copy of the one place, or the      *)
(* reduction of all.  If anything is in it twice, or has been reduced       *)
(* before, it is spoilt.  (A reduction starts from zero in every lane, so   *)
(* a maximum is one of the numbers and zero; numbers are not modelled.)     *)
Reduces == call.op \in {"reduce_scatter", "all_reduce", "reduce"}

Combined(ws) ==
  LET all == UNION {Seen(w).of : w \in ws}
      once == /\ \A w \in ws : Seen(w).by = "copy" /\ Seen(w).of # {}
              /\ MapThenSumSet(LAMBDA w : Cardinality(Seen(w).of), ws) = Cardinality(all)
  IN  IF ~Reduces THEN Seen(CHOOSE w \in ws : TRUE)
      ELSE IF once THEN [by |-> Operation(call), of |-> all] ELSE Spoilt

Step(t) ==
  /\ Active(t)
  /\ \E s \in {Current(t)} : \E sum \in {[l \in Lanes |-> Combined(s.combines[l])]} :
       mem' = [p \in DOMAIN mem |->
                 IF IsPE(p) /\ mux = "pe" THEN mem[p]
                 ELSE [a \in Mram |-> IF << p, a >> \in DOMAIN s.stores
                                      THEN sum[s.stores[<< p, a >>]] ELSE mem[p][a]]]
  /\ made' = [made EXCEPT ![t] = @ + 1]
  /\ UNCHANGED << call, phase, mux >>

(* pthread_join of every thread, and the 8-byte transfer that follows.      *)
Join ==
  /\ phase = "transfer"
  /\ \A t \in Threads : ~Active(t)
  /\ mux' = "host"
  /\ phase' = IF call.op \in {"all_reduce", "allgather"} THEN "after" ELSE "done"
  /\ UNCHANGED << call, made, mem >>

RelocateAfter ==
  /\ phase = "after"
  /\ \E launches \in {LaunchesAfter(call)} : Run(launches)
  /\ phase' = "return"
  /\ UNCHANGED << call, made >>

ClaimLast ==
  /\ phase = "return"
  /\ mux' = "host"
  /\ phase' = "done"
  /\ UNCHANGED << call, made, mem >>

(* pidcomm_broadcast: dpu_broadcast_to copies one buffer to every PE. *)
Broadcast ==
  /\ phase = "copy"
  /\ mem' = [p \in DOMAIN mem |-> [a \in Mram |->
               IF IsPE(p) /\ a - call.target \in 0..(Total(call) - 1)
               THEN mem[HostPlace(call, 0, 0)][a - call.target] ELSE mem[p][a]]]
  /\ mux' = "host"
  /\ phase' = "done"
  /\ UNCHANGED << call, made >>

Returned == phase = "done" /\ UNCHANGED vars

Next ==
  \/ RelocateBefore
  \/ Claim
  \/ \E t \in Threads : Step(t)
  \/ Join
  \/ RelocateAfter
  \/ ClaimLast
  \/ Broadcast
  \/ Returned

(* Some thread of the host always runs on.                                  *)
Spec == Init /\ [][Next]_vars /\ WF_vars(Next)
-----------------------------------------------------------------------------
Phases == {"before", "claim", "transfer", "after", "return", "copy", "done"}

TypeOK ==
  /\ call \in Calls
  /\ phase \in Phases
  /\ mux \in {"host", "pe"}
  /\ \A t \in Threads : First(t) + made[t] \in 0..(Last(t) + 1)
  /\ \A p \in Places(call), a \in Mram :
       /\ mem[p][a].by \in {"copy", "sum", "max"}
       /\ \A origin \in mem[p][a].of : origin \in Places(call) \X Mram

(* No thread is about to write what another is about to read or write.  In  *)
(* AllReduce and AllGather every step writes to every group that            *)
(* communicates, and nothing but the division of the iterations keeps the   *)
(* threads apart.                                                           *)
NoStepRace ==
  \A t, u \in Threads :
    t # u /\ Active(t) /\ Active(u) =>
      LET writes == DOMAIN Current(t).stores
      IN  /\ writes \cap DOMAIN Current(u).stores = {}
          /\ \A l \in Lanes : writes \cap Current(u).combines[l] = {}

(* Whatever a thread of ReduceScatter or AllReduce has put in an MRAM is    *)
(* the reduction over the whole group of the PE, each member once, and of   *)
(* the same element of each member, by the operation asked for: the         *)
(* rotation of blocks by the first kernel and that of lanes in the          *)
(* registers align the elements.  (A chunk that no thread has written yet   *)
(* is a copy of a single one.)                                              *)
Destination(c) ==
  IF c.op = "reduce_scatter" THEN c.target..(c.target + Chunks - 1)
  ELSE (c.start + c.buffer)..(c.start + c.buffer + Total(c) - 1)

ElementsAligned ==
  call.op \in {"reduce_scatter", "all_reduce"} /\ phase \in {"transfer", "after"} =>
    \A p \in PEs(call.ax), a \in Destination(call) :
      mem[p][a].by # "copy" \/ mem[p][a] = Spoilt =>
        \E element \in call.start..(call.start + Total(call) - 1) :
          mem[p][a] = [ by |-> call.reduce,
                        of |-> {<< q, element >> : q \in Group(call.ax, call.comm, p)} ]

(* A call changes nothing but what is given to it for that: at no time a    *)
(* chunk of an MRAM outside the blocks the operation may write, and no      *)
(* buffer of the host unless the result is for the host.  A source is among *)
(* them only where it is relocated in place: in AllReduce, Reduce, and      *)
(* ReduceScatter on x and y axes of 2 PEs, by the first loop of its kernel. *)
(* The bursts of a transfer end where the offsets of the last turn, the     *)
(* number of blocks of the function that was chosen and the size of the     *)
(* buffer meet.                                                             *)
Blocks(from, size) == from..(from + size - 1)
Buffer(c) == Blocks(c.start + c.buffer, Total(c))

MayWrite(c) ==
  CASE c.op = "reduce_scatter" ->
         Buffer(c) \cup Blocks(c.target, Chunks)
           \cup (IF IsTwoByTwo(c.ax, c.comm) /\ CommType(c.comm) = 0
                 THEN Blocks(c.start, Total(c)) ELSE {})
    [] c.op = "all_reduce" ->
         Blocks(c.start, Total(c)) \cup Buffer(c) \cup Blocks(c.target, Total(c))
    [] c.op = "allgather" -> Buffer(c) \cup Blocks(c.target, Total(c))
    [] c.op \in {"scatter", "reduce"} -> Blocks(c.start, Total(c))
    [] c.op = "broadcast" -> Blocks(c.target, Total(c))
    [] c.op = "gather" -> {}

NothingElseWritten ==
  \A p \in Places(call), a \in Mram :
    mem[p][a] # Original(p, a) =>
      IF IsPE(p) THEN a \in MayWrite(call) ELSE call.op \in {"gather", "reduce"}

(* The call does what it promises, whatever the order of the threads'       *)
(* steps: the result of the one atomic step of CollectiveResult is at its   *)
(* place when the call returns, and the call does return.                   *)
Result(c) ==
  CASE c.op \in {"reduce_scatter", "all_reduce", "allgather", "broadcast"} ->
         [ p \in PEs(c.ax) |->
             [ a \in 0..((IF c.op = "reduce_scatter" THEN Chunks ELSE Total(c)) - 1) |->
                 mem[p][c.target + a] ] ]
    [] c.op = "scatter" ->
         [p \in PEs(c.ax) |-> [a \in 0..(Total(c) - 1) |-> mem[p][c.start + a]]]
    [] c.op = "gather" ->
         [p \in PEs(c.ax) |-> [a \in 0..(Total(c) - 1) |-> mem[NumPEs(c.ax) + p][a]]]
    [] c.op = "reduce" ->
         [ h \in 0..((NumGroups(c) \div Together(c)) - 1), lane \in Lanes |->
             [ a \in 0..((Chunks * Together(c)) - 1) |-> mem[HostPlace(c, h, lane)][a] ] ]

Promise == INSTANCE CollectiveResult WITH
  Size <- Chunks,
  received <- IF phase # "done" THEN << >> ELSE Result(call)

KeepsPromise == Promise!Spec

(* When Reduce returns, the reduction of every element of every group is    *)
(* somewhere in the buffers of the host.  It is not, if several entangled   *)
(* groups communicate along x and a block is more than one packet.          *)
NothingLost ==
  call.op = "reduce" /\ phase = "done" =>
    \A p \in PEs(call.ax), element \in call.start..(call.start + Total(call) - 1) :
      \E w \in (Places(call) \ PEs(call.ax)) \X Mram :
        mem[w[1]][w[2]] = [ by |-> "sum",
                            of |-> {<< q, element >> : q \in Group(call.ax, call.comm, p)} ]
=============================================================================
