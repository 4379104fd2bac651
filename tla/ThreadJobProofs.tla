--------------------------- MODULE ThreadJobProofs ---------------------------
(***************************************************************************)
(* For every set of ranks, workers and application threads, every layout of *)
(* queues, number of slots and set of programs that JobCallsAssumption      *)
(* admits: the FIFO of each rank is in one place at a time, its jobs run in *)
(* the order of submission, and a blocking callback has its ranks alone.    *)
(*                                                                         *)
(* 1. The inductive invariant, JobInv, in parts.                            *)
(* 2. What the steps are: one of the API is Calm or Appends, one of a       *)
(*    worker is one of eleven Kinds.                                        *)
(* 3. What each kind does to each rank: RankStep, of five forms only.       *)
(* 4. Each part of the invariant is kept, most of them by RankStep alone.   *)
(* 5. The theorems, and the refinement of RankFifo.                         *)
(***************************************************************************)
EXTENDS ThreadJob, FiniteSetTheorems, TLAPS

(* The jobs of the program. *)
JobSet == [type : {"copy", "launch", "sync", "callback"}, id : Ids(program)]
(* The ranks on which a worker has come to the callback id. *)
Arrived(id) == call[id].arrived

CallFields == {"left", "failed", "arrived", "master", "lost", "answer"}
ApiFields  == {"pc", "todo", "id", "i", "got", "master", "inline", "held"}
WorkFields == {"pc", "rank", "job", "next", "k", "held", "failed"}

(* The domains and fields, and no more of the types than the proof needs. *)
Shapes ==
  /\ program \in Programs
  /\ DOMAIN call = Ids(program)
  /\ \A id \in Ids(program) : DOMAIN call[id] = CallFields /\ Arrived(id) \subseteq Ranks
  /\ DOMAIN api = Threads
  /\ \A t \in Threads : DOMAIN api[t] = ApiFields /\ api[t].todo \in Seq(Ids(program))
  /\ DOMAIN work = Workers
  /\ \A w \in Workers : DOMAIN work[w] = WorkFields
  /\ jobs \in [Ranks -> Seq(JobSet)]
  /\ queue \in [Queues -> Seq([rank : Ranks, job : JobSet])]
  /\ DOMAIN outcome = Ranks
  /\ DOMAIN jobsLock = Ranks

CbJob(id) == [type |-> "callback", id |-> id]
(* A worker between the arrival at a callback job and the end of it. *)
CbPhase == {"cbpop", "cbinsert", "cblock", "cbstart", "cbrun", "global", "master"}
(* The function of the callback has not been called yet. *)
Before == {"cbpop", "cbinsert", "cblock", "cbstart"}
(* The FIFO of r waits for a worker; a worker has it. *)
InQueue(r) == \E n \in DOMAIN queue[QueueOf[r]] : queue[QueueOf[r]][n].rank = r
Served(r) == \E w \in Workers : work[w].rank = r /\ HasFifo(w)

(* Worker w of rank r has still to begin with the first job of its FIFO. *)
Ahead(r) ==
  \E w \in Workers : work[w].rank = r /\ work[w].pc \in {"lock", "run", "cbinsert"}

(* A FIFO is in one place at a time. *)
QueuedOnce ==
  \A q \in Queues : \A m, n \in DOMAIN queue[q] : queue[q][m].rank = queue[q][n].rank => m = n

OneWorker ==
  \A v, w \in Workers : HasFifo(v) /\ HasFifo(w) /\ work[v].rank = work[w].rank => v = w

NotBoth == \A r \in Ranks : ~(InQueue(r) /\ Served(r))

(* Ranks are in the queue of their NUMA node. *)
Home == \A q \in Queues : \A n \in DOMAIN queue[q] : QueueOf[queue[q][n].rank] = q

(* A queue keeps, next to a rank, the head of its FIFO. *)
QueueHeads ==
  \A q \in Queues : \A n \in DOMAIN queue[q] :
    LET e == queue[q][n] IN jobs[e.rank] # <<>> /\ e.job = Head(jobs[e.rank])

(* So does a worker; while one drops the jobs behind a failed one, any job *)
(* may be at the head. *)
WorkHeads ==
  \A w \in Workers : HasFifo(w) =>
    LET fifo == jobs[work[w].rank]
    IN  /\ work[w].rank \in Ranks /\ fifo # <<>>
        /\ work[w].pc = "cbinsert" => work[w].next = Head(fifo)
        /\ work[w].pc \notin {"drop", "cbinsert"} => work[w].job = Head(fifo)

(* The FIFO of r waits, with nobody, for the callback at its head. *)
ParkedUnder(r, id) ==
  jobs[r] # <<>> /\ Head(jobs[r]) = CbJob(id) /\ ~InQueue(r) /\ ~Served(r)

(* No FIFO with jobs is left behind. *)
GoesOn == \A r \in Ranks : jobs[r] # <<>> => InQueue(r) \/ Served(r) \/ Parked(r)

(* All ranks of such a callback wait until its function has returned. *)
Blocks(id) == UsesMaster(Call(id)) /\ ~Call(id).nonblocking

(* What a worker in the middle of a callback knows: all ranks of a single- *)
(* call callback have arrived when one calls its function. *)
Calling ==
  \A w \in Workers : work[w].pc \in CbPhase =>
    /\ work[w].job = CbJob(Cb(w)) /\ Cb(w) \in Ids(program) /\ Call(Cb(w)).op = "callback"
    /\ work[w].rank \in RankSet(Cb(w)) /\ work[w].rank \in Arrived(Cb(w))
    /\ Single(w) => RankSet(Cb(w)) \subseteq Arrived(Cb(w))
    /\ work[w].pc \in {"cbpop", "cbinsert"} => ~Blocking(w)
    /\ work[w].pc \in {"cblock", "global"} => Blocking(w) /\ Single(w)
    /\ work[w].pc = "global" => work[w].k \in Nat \ {0}

(* Two workers in one callback: only if each rank calls the function, and *)
(* then for different ranks. *)
Apart ==
  \A v, w \in Workers :
    v # w /\ {work[v].pc, work[w].pc} \subseteq CbPhase /\ Cb(v) = Cb(w) =>
      ~Single(w) /\ work[v].rank # work[w].rank

(* The other ranks of a blocking callback stay parked until *)
(* handle_global_block gets to them. *)
Gathered ==
  \A w \in Workers :
    work[w].pc \in {"cblock", "cbstart", "cbrun", "global"} /\ Blocking(w) /\ Single(w) =>
      \A i \in DOMAIN RanksOf(Cb(w)) :
        RanksOf(Cb(w))[i] # work[w].rank /\ (work[w].pc = "global" => i >= work[w].k) =>
          ParkedUnder(RanksOf(Cb(w))[i], Cb(w))

(* The ranks that have arrived at a blocking callback are parked until the *)
(* last one arrives. *)
Gathering ==
  \A id \in Ids(program) :
    Blocks(id) /\ ~(RankSet(id) \subseteq Arrived(id)) =>
      \A r \in Arrived(id) : ParkedUnder(r, id)

(* Where a callback has arrived, it is not begun again. *)
OnceOnly ==
  \A id \in Ids(program) : \A r \in Arrived(id) :
    /\ CbJob(id) \in DOMAIN outcome[r]
    /\ \A n \in DOMAIN jobs[r] : jobs[r][n] = CbJob(id) =>
         n = 1 /\ ~InQueue(r) /\ ~Ahead(r)

(* The jobs of a FIFO differ and are among those submitted to the rank. *)
Distinct ==
  \A r \in Ranks :
    /\ \A m, n \in DOMAIN jobs[r] : jobs[r][m] = jobs[r][n] => m = n
    /\ \A n \in DOMAIN jobs[r] :
         /\ jobs[r][n] \in DOMAIN outcome[r]
         /\ jobs[r][n].id \in Ids(program) /\ r \in RankSet(jobs[r][n].id)
         /\ jobs[r][n].type = "callback" => Call(jobs[r][n].id).op = "callback"

(* Who drops the jobs of a rank, or joins an empty FIFO to its queue, holds *)
(* the mutex of the rank. *)
Locked ==
  /\ \A w \in Workers : work[w].pc = "drop" => jobsLock[work[w].rank] = w
  /\ \A t \in Threads : api[t].pc = "addqueue" =>
       jobsLock[AddRank(t)] = t /\ jobs[AddRank(t)] = <<>>

(* The frames of the threads: a worker makes calls only in a callback. *)
Frames ==
  /\ \A w \in Workers : work[w].pc # "cbrun" => api[w] = Idle(<<>>)
  /\ \A t \in Threads :
       /\ api[t].pc # "idle" =>
            api[t].id \in Ids(program) /\ (api[t].pc # "join" => Call(api[t].id).op # "free")
       /\ api[t].pc \in {"set", "do", "dostale"} => api[t].i = 1
       /\ api[t].pc \in {"add", "addqueue"} => api[t].i \in DOMAIN RanksOf(api[t].id)

(* The calls a thread makes or still has to make. *)
Mine(t) == {id \in Ids(program) : api[t].pc # "idle" /\ id = api[t].id}
             \cup {api[t].todo[n] : n \in DOMAIN api[t].todo}

(* No call is made twice: a client makes its own, a worker those of the *)
(* callback it runs. *)
Names ==
  \A t \in Threads :
    /\ \A m, n \in DOMAIN api[t].todo : api[t].todo[m] = api[t].todo[n] => m = n
    /\ \A n \in DOMAIN api[t].todo : api[t].todo[n] \in Ids(program)
    /\ api[t].pc # "idle" => \A n \in DOMAIN api[t].todo : api[t].todo[n] # api[t].id
    /\ t \in Clients => \A id \in Mine(t) : Len(id) = 2 /\ id[1] = t
    /\ t \in Workers => \A id \in Mine(t) :
         \E m \in DOMAIN Call(Cb(t)).body : id = BodyOf(program, Cb(t), work[t].rank)[m]

(* No job of call id has been submitted. *)
Fresh(id) == \A r \in Ranks : \A j \in DOMAIN outcome[r] : j.id # id

(* The jobs of a call are submitted once to each of its ranks. *)
PendingFresh ==
  \A t \in Threads :
    /\ \A n \in DOMAIN api[t].todo : Fresh(api[t].todo[n])
    /\ api[t].pc \in {"get", "asleep", "set", "do", "dostale"} => Fresh(api[t].id)
    /\ api[t].pc \in {"add", "addqueue"} =>
         \A k \in DOMAIN RanksOf(api[t].id) : k >= api[t].i =>
           \A j \in DOMAIN outcome[RanksOf(api[t].id)[k]] : j.id # api[t].id

BodyIsFresh(id, r) == \A m \in DOMAIN Call(id).body : Fresh(BodyOf(program, id, r)[m])

(* The calls of a callback have not been made before the callback begins. *)
BodiesFresh ==
  /\ \A id \in Ids(program) : Call(id).op = "callback" =>
       \A r \in RankSet(id) :
         (IF UsesMaster(Call(id)) THEN ~(RankSet(id) \subseteq Arrived(id)) ELSE r \notin Arrived(id))
           => BodyIsFresh(id, r)
  /\ \A w \in Workers : work[w].pc \in Before => BodyIsFresh(Cb(w), work[w].rank)

-----------------------------------------------------------------------------
(* What the steps of the API do to the frames of the threads.               *)
Early == {"get", "asleep", "set", "do", "dostale"}

(* No rank arrives at a callback. *)
SameArrived ==
  /\ DOMAIN call' = Ids(program)
  /\ \A id \in Ids(program) : DOMAIN call'[id] = CallFields /\ call'[id].arrived = Arrived(id)

(* A mutex that somebody else holds stays held. *)
LocksKept(t) ==
  /\ DOMAIN jobsLock' = Ranks
  /\ \A r \in Ranks : jobsLock[r] \notin {None, t} => jobsLock'[r] = jobsLock[r]

(* Only the frame of t changes. *)
FramesKept(t) ==
  /\ DOMAIN api' = Threads /\ DOMAIN api'[t] = ApiFields
  /\ \A u \in Threads \ {t} : api'[u] = api[u]

(* The thread begins its next call. *)
Begins(t) ==
  /\ api[t].pc = "idle" /\ api[t].todo # <<>>
  /\ api'[t].id = Head(api[t].todo) /\ api'[t].todo = Tail(api[t].todo)
  /\ \/ api'[t].pc \in {"get", "set"} /\ api'[t].i = 1 /\ Call(api'[t].id).op # "free"
     \/ api'[t].pc = "join"

(* It goes on with the call. *)
GoesOnWith(t) ==
  /\ api[t].pc \notin {"idle", "join"} /\ api'[t].pc \notin {"idle", "join"}
  /\ api'[t].id = api[t].id /\ api'[t].todo = api[t].todo
  /\ api'[t].pc \in Early => api[t].pc \in Early
  /\ api'[t].pc = "set" => api'[t].i = 1
  /\ api'[t].pc \in {"do", "dostale"} => api[t].pc = "set" /\ api'[t].i = api[t].i
  /\ api'[t].pc = "add" => api[t].pc = "do" /\ api'[t].i = api[t].i
  /\ api'[t].pc = "addqueue" =>
       /\ api[t].pc = "add" /\ api'[t].i = api[t].i /\ jobs[AddRank(t)] = <<>>
       /\ jobsLock' = [jobsLock EXCEPT ![AddRank(t)] = t]

(* It returns from the call. *)
ReturnsTo(t) == api[t].pc # "idle" /\ api'[t] = Idle(api[t].todo)

(* Not even its frame changes. *)
Halts(t) == api[t].pc \in Early /\ api'[t] = api[t]

(* A step of the API that leaves FIFOs and queues alone. *)
Calm(t) ==
  /\ UNCHANGED <<program, jobs, outcome, queue, work>>
  /\ SameArrived /\ LocksKept(t) /\ FramesKept(t)
  /\ Begins(t) \/ GoesOnWith(t) \/ ReturnsTo(t) \/ Halts(t)

(* A step that enqueues the jobs of a call on a rank. *)
Appends(t) ==
  LET r == AddRank(t)
  IN  /\ UNCHANGED <<program, call, work>>
      /\ api[t].pc \in {"add", "addqueue"} /\ jobsLock[r] \in {None, t}
      /\ Append2(r, api[t].id)
      /\ \/ jobs[r] # <<>> /\ queue' = queue
         \/ /\ jobs[r] = <<>>
            /\ queue' = [queue EXCEPT ![QueueOf[r]] =
                           Append(@, Entry(r, JobsOf(program, api[t].id)[1]))]
      /\ LocksKept(t) /\ FramesKept(t)
      /\ api'[t].id = api[t].id /\ api'[t].todo = api[t].todo /\ api'[t].i = api[t].i + 1
      /\ api'[t].pc = IF api[t].i = Len(RanksOf(api[t].id)) THEN "added" ELSE "add"

(* A step that changes no call makes no rank arrive. *)
LEMMA CallKept ==
  ASSUME Shapes, UNCHANGED <<call, program>>
  PROVE  SameArrived
BY DEF Shapes, SameArrived, Arrived

(* A return changes the frame of the thread and nothing that is kept. *)
LEMMA ReturnKeeps ==
  ASSUME Shapes, NEW t \in Threads, NEW answer, Return(t, answer), UNCHANGED program,
         api[t].pc # "idle"
  PROVE  SameArrived /\ FramesKept(t) /\ ReturnsTo(t)
<1>1. SameArrived
  BY DEF Shapes, Return, SameArrived, Arrived, CallFields
<1>2. FramesKept(t) /\ ReturnsTo(t)
  BY DEF Shapes, Return, FramesKept, ReturnsTo, Idle, ApiFields
<1>3. QED
  BY <1>1, <1>2

(* Every step of the API is calm or enqueues. *)
LEMMA ApiKinds ==
  ASSUME Shapes, Locked, NEW t \in Threads, ApiStep(t), UNCHANGED program
  PROVE  Calm(t) \/ Appends(t)
<1> USE DEF flags, fifos, locks, At
<1>1. CASE Begin(t)
  <2>1. FramesKept(t) /\ Begins(t)
    BY <1>1 DEF Begin, Idle, Shapes, FramesKept, Begins, ApiFields
  <2>2. QED
    BY <1>1, <2>1, CallKept DEF Begin, Calm, LocksKept, Shapes
<1>2. CASE GetSlots(t)
  <2>1. PICK n, m :
          \/ api' = [api EXCEPT ![t].pc = "asleep", ![t].got = n]
          \/ api' = [api EXCEPT ![t].i = n, ![t].got = 0]
          \/ api' = [api EXCEPT ![t].i = n, ![t].got = 0, ![t].master = m]
          \/ api' = [api EXCEPT ![t].pc = "set", ![t].i = 1, ![t].got = 0]
    BY <1>2 DEF GetSlots
  <2>3. api[t].pc = "get"
    BY <1>2 DEF GetSlots
  <2>4. FramesKept(t)
    BY <2>1 DEF Shapes, FramesKept, ApiFields
  <2>6. /\ api'[t].pc \in {"asleep", "get", "set"} /\ (api'[t].pc = "set" => api'[t].i = 1)
        /\ api'[t].id = api[t].id /\ api'[t].todo = api[t].todo
    BY <2>1, <2>3 DEF Shapes, ApiFields
  <2>5. GoesOnWith(t)
    BY <2>3, <2>6 DEF GoesOnWith, Early
  <2>2. QED
    BY <1>2, <2>4, <2>5, CallKept DEF GetSlots, Calm, LocksKept, Shapes
<1>3. CASE GetFails(t)
  <2>1. LocksKept(t)
    BY <1>3 DEF GetFails, LocksKept, Shapes
  <2>2. PICK lost :
          \/ /\ api' = [api EXCEPT ![t] = Idle(@.todo)]
             /\ call' = [call EXCEPT ![api[t].id].answer = "error", ![api[t].id].lost = lost]
          \/ /\ api' = [api EXCEPT ![t].pc = "unget", ![t].got = 1]
             /\ call' = [call EXCEPT ![api[t].id].lost = lost]
    BY <1>3 DEF GetFails
  <2>3. SameArrived
    BY <2>2 DEF Shapes, SameArrived, Arrived, CallFields
  <2>4. FramesKept(t) /\ (ReturnsTo(t) \/ GoesOnWith(t))
    <3>1. api[t].pc = "get"
      BY <1>3 DEF GetFails
    <3>2. CASE api' = [api EXCEPT ![t] = Idle(@.todo)]
      BY <3>1, <3>2 DEF Shapes, FramesKept, ReturnsTo, ApiFields, Idle
    <3>3. CASE api' = [api EXCEPT ![t].pc = "unget", ![t].got = 1]
      BY <3>1, <3>3 DEF Shapes, FramesKept, GoesOnWith, ApiFields, Early
    <3>4. QED
      BY <2>2, <3>2, <3>3
  <2>5. QED
    BY <1>3, <2>1, <2>3, <2>4 DEF GetFails, Calm
<1>4. CASE Unget(t)
  <2>1. LocksKept(t)
    BY <1>4 DEF Unget, LocksKept, Shapes
  <2>2. CASE Return(t, "error")
    BY <1>4, <2>1, <2>2, ReturnKeeps DEF Unget, Calm
  <2>3. CASE /\ api' = [api EXCEPT ![t].got = api[t].got + 1]
             /\ UNCHANGED call
    <3>1. FramesKept(t) /\ GoesOnWith(t)
      BY <1>4, <2>3 DEF Unget, Shapes, FramesKept, GoesOnWith, ApiFields, Early
    <3>2. QED
      BY <1>4, <2>1, <2>3, <3>1, CallKept DEF Unget, Calm
  <2>4. QED
    BY <1>4, <2>2, <2>3 DEF Unget
<1>5. CASE SetJobs(t)
  <2>1. /\ api[t].pc = "set"
        /\ \/ api' = api /\ call' = call
           \/ \E pc \in {"do", "dostale"} : \E id, m :
                /\ api' = [api EXCEPT ![t].pc = pc]
                /\ call' = [call EXCEPT ![id].master = m]
    BY <1>5 DEF SetJobs
  <2>2. SameArrived
    <3>1. CASE call' = call
      BY <3>1, CallKept
    <3>2. ASSUME NEW id, NEW m, call' = [call EXCEPT ![id].master = m]
          PROVE  SameArrived
      BY <3>2 DEF Shapes, SameArrived, Arrived, CallFields
    <3>3. QED
      BY <2>1, <3>1, <3>2
  <2>3. FramesKept(t) /\ (GoesOnWith(t) \/ Halts(t))
    BY <2>1 DEF Shapes, FramesKept, GoesOnWith, ApiFields, Early, Halts
  <2>4. QED
    BY <1>5, <2>2, <2>3 DEF SetJobs, Calm, LocksKept, Shapes
<1>6. CASE DoJobs(t)
  <2>1. /\ api[t].pc \in {"do", "dostale"}
        /\ \/ api' = api
           \/ api' = [api EXCEPT ![t].pc = "inline"]
           \/ api[t].pc = "do" /\ api' = [api EXCEPT ![t].pc = "add"]
    BY <1>6 DEF DoJobs
  <2>2. FramesKept(t) /\ (GoesOnWith(t) \/ Halts(t))
    BY <2>1 DEF Shapes, FramesKept, GoesOnWith, ApiFields, Early, Halts
  <2>3. QED
    BY <1>6, <2>2, CallKept DEF DoJobs, Calm, LocksKept, Shapes
<1>7. CASE AddJobs(t)
  <2> DEFINE r == AddRank(t)
  <2>1. api[t].pc = "add" /\ jobsLock[r] = None /\ UNCHANGED <<call, work, program>>
    BY <1>7 DEF AddJobs
  <2>2. CASE /\ Starts(r) /\ jobsLock' = [jobsLock EXCEPT ![r] = t]
             /\ api' = [api EXCEPT ![t].pc = "addqueue"]
             /\ UNCHANGED <<jobs, outcome, queue>>
    <3>1. FramesKept(t) /\ GoesOnWith(t)
      BY <2>1, <2>2 DEF Shapes, FramesKept, GoesOnWith, ApiFields, Early, Starts
    <3>2. LocksKept(t)
      BY <2>1, <2>2 DEF Shapes, LocksKept
    <3>3. QED
      BY <2>1, <2>2, <3>1, <3>2, CallKept DEF Calm
  <2>3. CASE /\ Append2(r, api[t].id) /\ api' = [api EXCEPT ![t] = AddedTo(t)] /\ UNCHANGED jobsLock
             /\ \/ ~Starts(r) /\ UNCHANGED queue
                \/ Starts(r) /\ queue' = [queue EXCEPT ![QueueOf[r]] =
                                           Append(@, Entry(r, JobsOf(program, api[t].id)[1]))]
    <3>1. FramesKept(t) /\ api'[t].id = api[t].id /\ api'[t].todo = api[t].todo
          /\ api'[t].i = api[t].i + 1
          /\ api'[t].pc = IF api[t].i = Len(RanksOf(api[t].id)) THEN "added" ELSE "add"
      BY <2>3 DEF AddedTo, FramesKept, Shapes, ApiFields
    <3>2. LocksKept(t)
      BY <2>3 DEF Shapes, LocksKept
    <3>3. QED
      BY <2>1, <2>3, <3>1, <3>2 DEF Appends, Starts
  <2>4. QED
    BY <1>7, <2>2, <2>3 DEF AddJobs
<1>8. CASE AddQueue(t)
  <2> DEFINE r == AddRank(t)
             q == QueueOf[r]
  <2>1. /\ api[t].pc = "addqueue" /\ UNCHANGED <<call, work, program>>
        /\ Append2(r, api[t].id)
        /\ jobsLock' = [jobsLock EXCEPT ![r] = None]
        /\ api' = [api EXCEPT ![t] = [AddedTo(t) EXCEPT !.held = @ \cup {q}]]
        /\ queue' = [queue EXCEPT ![q] = Append(@, Entry(r, JobsOf(program, api[t].id)[1]))]
    BY <1>8 DEF AddQueue
  <2>2. jobsLock[r] = t /\ jobs[r] = <<>>
    BY <2>1 DEF Locked
  <2>3. FramesKept(t) /\ api'[t].id = api[t].id /\ api'[t].todo = api[t].todo
        /\ api'[t].i = api[t].i + 1
        /\ api'[t].pc = IF api[t].i = Len(RanksOf(api[t].id)) THEN "added" ELSE "add"
    BY <2>1 DEF AddedTo, FramesKept, Shapes, ApiFields
  <2>4. LocksKept(t)
    BY <2>1, <2>2 DEF Shapes, LocksKept
  <2>5. QED
    BY <2>1, <2>2, <2>3, <2>4 DEF Appends
<1>9. CASE Added(t)
  <2>1. LocksKept(t) /\ UNCHANGED <<jobs, outcome, queue, work>>
    BY <1>9 DEF Added, LocksKept, Shapes
  <2>2. CASE api' = [api EXCEPT ![t].pc = "wait", ![t].held = {}] /\ call' = call
    <3>1. FramesKept(t) /\ GoesOnWith(t)
      BY <1>9, <2>2 DEF Added, FramesKept, GoesOnWith, Early, Shapes, ApiFields
    <3>2. QED
      BY <2>1, <2>2, <3>1, CallKept DEF Calm
  <2>3. CASE Return(t, "ok")
    <3>1. api[t].pc # "idle"
      BY <1>9 DEF Added
    <3>2. QED
      BY <2>1, <2>3, <3>1, ReturnKeeps DEF Calm
  <2>4. QED
    BY <1>9, <2>2, <2>3 DEF Added
<1>10. CASE Woken(t)
  <2>1. LocksKept(t) /\ UNCHANGED <<jobs, outcome, queue, work>> /\ api[t].pc # "idle"
    BY <1>10 DEF Woken, LocksKept, Shapes
  <2>2. \E answer : Return(t, answer)
    BY <1>10 DEF Woken
  <2>3. QED
    BY <2>1, <2>2, ReturnKeeps DEF Calm
<1>11. CASE InlineLock(t) \/ InlineLaunch(t) \/ InlinePolled(t)
  <2>1. FramesKept(t) /\ GoesOnWith(t)
    BY <1>11 DEF InlineLock, InlineLaunch, InlinePolled, Shapes, FramesKept, GoesOnWith, ApiFields, Early
  <2>2. QED
    BY <1>11, <2>1, CallKept DEF InlineLock, InlineLaunch, InlinePolled, Calm, LocksKept, Shapes
<1>12. CASE InlineEnd(t)
  <2>1. SameArrived
    BY <1>12 DEF InlineEnd, Shapes, SameArrived, Arrived, CallFields
  <2>2. FramesKept(t) /\ ReturnsTo(t)
    BY <1>12 DEF InlineEnd, Shapes, FramesKept, ReturnsTo, ApiFields, Idle
  <2>3. QED
    BY <1>12, <2>1, <2>2 DEF InlineEnd, Calm, LocksKept, Shapes
<1>13. CASE FreeSet(t)
  <2>1. FramesKept(t) /\ Begins(t)
    BY <1>13 DEF FreeSet, Idle, Shapes, FramesKept, Begins, ApiFields
  <2>2. QED
    BY <1>13, <2>1, CallKept DEF FreeSet, Calm, LocksKept, Shapes
<1>14. CASE Joined(t)
  BY <1>14, ReturnKeeps DEF Joined, Calm, LocksKept, Shapes
<1>15. QED
  BY <1>1, <1>2, <1>3, <1>4, <1>5, <1>6, <1>7, <1>8, <1>9, <1>10, <1>11, <1>12, <1>13, <1>14
     DEF ApiStep
-----------------------------------------------------------------------------
(* What the steps of a worker do.                                           *)
LEMMA SameCalls ==
  ASSUME program' = program, NEW id
  PROVE  Call(id)' = Call(id) /\ RanksOf(id)' = RanksOf(id) /\ RankSet(id)' = RankSet(id)
         /\ (Blocks(id)' <=> Blocks(id))
BY DEF Call, RanksOf, RankSet, Blocks

(* So do the callbacks of workers that keep their job. *)
LEMMA SameWorker ==
  ASSUME program' = program, NEW v, work'[v].job = work[v].job
  PROVE  Cb(v)' = Cb(v) /\ (Single(v)' <=> Single(v)) /\ (Blocking(v)' <=> Blocking(v))
BY DEF Cb, Single, Blocking, Call

(* A worker that stays as it is keeps its FIFO. *)
LEMMA SameFifo ==
  ASSUME program' = program, NEW v, work'[v] = work[v]
  PROVE  HasFifo(v)' <=> HasFifo(v)
BY SameWorker DEF HasFifo

(* Threads that wait for a slot or for their jobs may be woken. *)
Stirred ==
  /\ DOMAIN api' = Threads
  /\ \A t \in Threads :
       /\ DOMAIN api'[t] = ApiFields
       /\ \/ api'[t] = api[t]
          \/ /\ api'[t].id = api[t].id /\ api'[t].todo = api[t].todo
             /\ api[t].pc = "asleep" /\ api'[t].pc = "get"
          \/ /\ api'[t].id = api[t].id /\ api'[t].todo = api[t].todo
             /\ api[t].pc = "wait" /\ api'[t].pc = "woken"

(* A slot that is released wakes threads and does nothing else to them. *)
LEMMA SlotStirs ==
  ASSUME Shapes, NEW r, NEW frames, ReleaseSlot(r, frames),
         frames = api \/ \E id : frames = Awake(id)
  PROVE  Stirred
<1>1. CASE frames = api
  <2>1. CASE api' = api
    BY <2>1 DEF Shapes, Stirred
  <2>2. CASE \E t \in Sleepers(r) : api' = [api EXCEPT ![t].pc = "get"]
    <3>1. PICK t \in Threads : api[t].pc = "asleep" /\ api' = [api EXCEPT ![t].pc = "get"]
      BY <2>2 DEF Sleepers, At
    <3>2. QED
      BY <3>1 DEF Shapes, Stirred, ApiFields
  <2>3. QED
    BY <1>1, <2>1, <2>2 DEF ReleaseSlot
<1>2. ASSUME NEW id, frames = Awake(id)
      PROVE  Stirred
  <2>1. /\ DOMAIN frames = Threads
        /\ \A t \in Threads :
             /\ DOMAIN frames[t] = ApiFields
             /\ \/ frames[t] = api[t]
                \/ /\ frames[t].id = api[t].id /\ frames[t].todo = api[t].todo
                   /\ api[t].pc = "wait" /\ frames[t].pc = "woken"
    BY <1>2 DEF Awake, Waiter, At, Shapes, ApiFields
  <2>2. CASE api' = frames
    BY <2>1, <2>2 DEF Stirred
  <2>3. CASE \E t \in Sleepers(r) : api' = [frames EXCEPT ![t].pc = "get"]
    <3>1. PICK t \in Threads : api[t].pc = "asleep" /\ api' = [frames EXCEPT ![t].pc = "get"]
      BY <2>3 DEF Sleepers, At
    <3>2. frames[t] = api[t]
      BY <2>1, <3>1
    <3>3. QED
      BY <2>1, <3>1, <3>2 DEF Stirred, ApiFields
  <2>4. QED
    BY <2>2, <2>3 DEF ReleaseSlot
<1>3. QED
  BY <1>1, <1>2

LEMMA Unstirred ==
  ASSUME Shapes, api' = api
  PROVE  Stirred
BY DEF Shapes, Stirred

(* Only worker w changes among the workers. *)
Worked(w) ==
  /\ program' = program
  /\ DOMAIN work' = Workers /\ DOMAIN work'[w] = WorkFields
  /\ \A v \in Workers \ {w} : work'[v] = work[v]

(* The rank of worker w arrives at its callback. *)
Arriving(w) ==
  /\ DOMAIN call' = Ids(program)
  /\ \A id \in Ids(program) :
       /\ DOMAIN call'[id] = CallFields
       /\ call'[id].arrived = IF id = Cb(w) THEN Arrived(id) \cup {work[w].rank}
                              ELSE Arrived(id)

SameJob(w) == work'[w].rank = work[w].rank /\ work'[w].job = work[w].job

Still == UNCHANGED <<jobs, outcome, queue>>

(* It goes on with its job. *)
Moves(w) ==
  /\ Still /\ SameArrived /\ SameJob(w)
  /\ \/ /\ work[w].pc \in {"lock", "run", "poll", "polled"}
        /\ work'[w].pc \in {"run", "poll", "polled", "advance", "fail"}
        /\ work'[w].pc = "run" => work[w].pc = "lock"
     \/ work[w].pc = "cblock" /\ work'[w].pc \in {"cblock", "cbstart"}
     \/ work[w].pc = "cbstart" /\ work'[w].pc = "cbrun"
     \/ /\ work[w].pc = "cbrun" /\ Single(w)
        /\ IF Blocking(w) THEN work'[w].pc = "global" /\ work'[w].k = 1
           ELSE work'[w].pc = "master"
     \/ /\ work[w].pc = "global" /\ work'[w].pc \in {"global", "master"}
        /\ work'[w].k \in {work[w].k, work[w].k + 1}
     \/ /\ work[w].pc \in {"cbrun", "master"} /\ Blocking(w)
        /\ work'[w].pc \in {"advance", "fail"}

(* It has no FIFO, and goes back for one. *)
Rests(w) ==
  /\ Still /\ SameArrived /\ work'[w].pc \in {"take", "exit"}
  /\ \/ work[w].pc \in {"take", "unlock"}
     \/ work[w].pc \in {"cbrun", "master"} /\ ~Blocking(w)

(* It takes the first rank of its queue. *)
Takes(w) ==
  LET q == ServesOf[w]
  IN  /\ UNCHANGED <<jobs, outcome>> /\ SameArrived
      /\ work[w].pc = "take" /\ work'[w].pc = "lock" /\ queue[q] # <<>>
      /\ work'[w].rank = Head(queue[q]).rank /\ work'[w].job = Head(queue[q]).job
      /\ queue' = [queue EXCEPT ![q] = Tail(@)]

(* The three ways on for a callback job. *)
Reaches(w) == Still /\ Arriving(w) /\ work[w].pc = "run" /\ work[w].job.type = "callback"

(* It leaves the rank parked, since other ranks have still to arrive; *)
Parks(w) == /\ Reaches(w) /\ Single(w) /\ Blocking(w) /\ Others(w) # {}
            /\ work'[w].pc = "take"

(* the callback is asynchronous and not the last to arrive, so it goes on *)
(* to the next job; *)
Passes(w) == /\ Reaches(w) /\ SameJob(w) /\ ~Blocking(w)
             /\ work'[w].pc = "advance"

(* all that have to arrive have, and it goes on to call the function. *)
Lasts(w) ==
  /\ Reaches(w) /\ SameJob(w) /\ (Single(w) => Others(w) = {})
  /\ work'[w].pc = IF ~Blocking(w) THEN "cbpop" ELSE IF Single(w) THEN "cblock" ELSE "cbstart"

(* It removes the job it has done, or the asynchronous callback it is about *)
(* to call. *)
Pops(w) ==
  LET r == work[w].rank
  IN  /\ UNCHANGED queue /\ SameArrived /\ Pop(r) /\ work'[w].rank = r
      /\ \/ /\ work[w].pc = "advance" /\ work'[w].job = NextJob(r)
            /\ work'[w].pc = IF NextJob(r) = None THEN "unlock" ELSE "run"
         \/ /\ work[w].pc = "cbpop" /\ SameJob(w) /\ work'[w].next = NextJob(r)
            /\ work'[w].pc = IF NextJob(r) = None THEN "cbstart" ELSE "cbinsert"

(* It gives its rank back before it calls the function of an asynchronous *)
(* callback. *)
Inserts(w) ==
  LET r == work[w].rank
  IN  /\ UNCHANGED <<jobs, outcome>> /\ SameArrived /\ SameJob(w)
      /\ work[w].pc = "cbinsert" /\ work'[w].pc = "cbstart"
      /\ queue' = [queue EXCEPT ![QueueOf[r]] = Append(@, Entry(r, work[w].next))]

(* It removes the callback from the FIFO of another rank *)
(* (handle_global_block). *)
AdvancesOther(w) ==
  LET r == GlobalRank(w)
  IN  /\ SameArrived /\ SameJob(w) /\ Pop(r)
      /\ work[w].pc = "global" /\ work'[w].pc = "global"
      /\ work[w].k <= Len(CbRanks(w)) /\ work'[w].k = work[w].k + 1
      /\ r # work[w].rank
      /\ \/ NextJob(r) = None /\ queue' = queue
         \/ /\ NextJob(r) # None
            /\ queue' = [queue EXCEPT ![QueueOf[r]] = Append(@, Entry(r, NextJob(r)))]

(* A job has failed, and those behind it are marked as dropped. *)
Fails(w) ==
  LET r == work[w].rank
  IN  /\ UNCHANGED <<jobs, queue>> /\ SameArrived /\ SameJob(w)
      /\ work[w].pc = "fail" /\ work'[w].pc = "drop"
      /\ jobsLock' = [jobsLock EXCEPT ![r] = w]
      /\ outcome' = [outcome EXCEPT ![r] =
                       [j \in DOMAIN @ |-> IF j = Head(jobs[r]) THEN "failed"
                                           ELSE IF @[j] = "queued" THEN "dropped" ELSE @[j]]]

(* One of the jobs behind the failed one is dropped. *)
Drops(w) ==
  LET r == work[w].rank
  IN  /\ UNCHANGED <<outcome, queue>> /\ SameArrived /\ SameJob(w)
      /\ work[w].pc = "drop"
      /\ jobs' = [jobs EXCEPT ![r] = Tail(@)]
      /\ \/ Len(jobs[r]) > 1 /\ UNCHANGED jobsLock /\ work'[w].pc = "drop"
         \/ Len(jobs[r]) = 1 /\ work'[w].pc = "unlock"

Kinds(w) ==
  \/ Moves(w) \/ Rests(w) \/ Takes(w) \/ Parks(w) \/ Passes(w) \/ Lasts(w)
  \/ Pops(w) \/ Inserts(w) \/ AdvancesOther(w) \/ Fails(w) \/ Drops(w)

(* The function of a callback begins. *)
Enters(w) ==
  /\ work[w].pc = "cbstart" /\ work'[w].pc = "cbrun"
  /\ api' = [api EXCEPT ![w] = Idle(BodyOf(program, Cb(w), work[w].rank))]

(* The function returns when it has made its calls. *)
Leaves(w) == work[w].pc = "cbrun" => api[w] = Idle(<<>>)

(* A step of worker w. *)
Does(w) ==
  /\ Worked(w) /\ Kinds(w) /\ LocksKept(w) /\ Leaves(w)
  /\ Stirred \/ Enters(w)

(* A step that changes the program counter of a worker and no more. *)
LEMMA GoesWorks ==
  ASSUME Shapes, NEW w \in Workers, program' = program, NEW pc, Goes(w, pc)
  PROVE  Worked(w) /\ SameJob(w) /\ work'[w].pc = pc /\ work'[w].k = work[w].k
         /\ work'[w].next = work[w].next
BY DEF Goes, Shapes, Worked, WorkFields, SameJob

LEMMA LocksSame ==
  ASSUME Shapes, jobsLock' = jobsLock, NEW t
  PROVE  LocksKept(t)
BY DEF Shapes, LocksKept

(* The end of a job makes no rank arrive. *)
LEMMA NotifiedKeeps ==
  ASSUME Shapes, NEW id, NEW failed, Notified(id, failed), UNCHANGED program
  PROVE  SameArrived
BY DEF Shapes, Notified, SameArrived, Arrived, CallFields

(* Taking a rank, running a job and letting go of the rank. *)
LEMMA RunKinds ==
  ASSUME Shapes, NEW w \in Workers, UNCHANGED program,
         Take(w) \/ Exit(w) \/ Lock(w) \/ RunCopy(w) \/ RunLaunch(w) \/ Polled(w)
         \/ RunSync(w) \/ Unlock(w)
  PROVE  Does(w)
<1> USE DEF fifos, locks
<1>1. CASE Take(w)
  <2>1. Worked(w) /\ Takes(w) /\ work[w].pc = "take"
    BY <1>1, CallKept DEF Take, Doing, Resting, Shapes, Worked, WorkFields, Takes
  <2>2. UNCHANGED <<api, jobsLock>>
    BY <1>1 DEF Take
  <2>3. QED
    BY <2>1, <2>2, Unstirred, LocksSame DEF Does, Kinds, Leaves
<1>2. CASE Exit(w)
  <2>1. Goes(w, "exit") /\ work[w].pc = "take" /\ Still /\ UNCHANGED <<api, jobsLock, call>>
    BY <1>2 DEF Exit, Doing, Still
  <2>2. Worked(w) /\ Rests(w)
    BY <2>1, GoesWorks, CallKept DEF Rests
  <2>3. QED
    BY <2>1, <2>2, Unstirred, LocksSame DEF Does, Kinds, Leaves
<1>3. CASE Lock(w) \/ RunLaunch(w) \/ Polled(w)
  <2>1. PICK pc : /\ Goes(w, pc)
                  /\ <<work[w].pc, pc>> \in {<<"lock", "run">>, <<"run", "poll">>, <<"poll", "polled">>}
    BY <1>3 DEF Lock, RunLaunch, Polled, Doing, Running
  <2>2. Still /\ UNCHANGED <<api, jobsLock, call>>
    BY <1>3 DEF Lock, RunLaunch, Polled, Still
  <2>3. Worked(w) /\ Moves(w)
    BY <2>1, <2>2, GoesWorks, CallKept DEF Moves
  <2>4. QED
    BY <2>1, <2>2, <2>3, Unstirred, LocksSame DEF Does, Kinds, Leaves
<1>4. CASE RunCopy(w)
  <2>1. PICK pc \in {"fail", "advance"} : Goes(w, pc)
    BY <1>4 DEF RunCopy
  <2>2. Still /\ UNCHANGED <<api, jobsLock, call>> /\ work[w].pc \in {"run", "polled"}
    BY <1>4 DEF RunCopy, Still, Running, Doing
  <2>3. Worked(w) /\ Moves(w)
    BY <2>1, <2>2, GoesWorks, CallKept DEF Moves
  <2>4. QED
    BY <2>2, <2>3, Unstirred, LocksSame DEF Does, Kinds, Leaves
<1>5. CASE RunSync(w)
  <2>1. /\ Goes(w, "advance") /\ Still /\ UNCHANGED jobsLock /\ work[w].pc = "run"
        /\ \E id : Notified(id, FALSE) /\ api' = Awake(id)
    BY <1>5 DEF RunSync, Still, Running, Doing
  <2>2. SameArrived
    BY <2>1, NotifiedKeeps
  <2>3. Stirred
    BY <2>1 DEF Awake, Waiter, At, Shapes, ApiFields, Stirred
  <2>4. Worked(w) /\ Moves(w)
    BY <2>1, <2>2, GoesWorks DEF Moves
  <2>5. QED
    BY <2>1, <2>3, <2>4, LocksSame DEF Does, Kinds, Leaves
<1>6. CASE Unlock(w)
  <2>1. /\ work' = [work EXCEPT ![w] = Resting] /\ work[w].pc = "unlock"
        /\ Still /\ UNCHANGED <<api, jobsLock, call>>
    BY <1>6 DEF Unlock, Doing, Still
  <2>2. Worked(w) /\ Rests(w)
    BY <2>1, CallKept DEF Worked, Shapes, Rests, Resting, WorkFields
  <2>3. QED
    BY <2>1, <2>2, Unstirred, LocksSame DEF Does, Kinds, Leaves
<1>7. QED
  BY <1>1, <1>2, <1>3, <1>4, <1>5, <1>6

(* The end of a job, failed or not. *)
LEMMA EndKinds ==
  ASSUME Shapes, Locked, NEW w \in Workers, UNCHANGED program, Advance(w) \/ Fail(w) \/ Drop(w)
  PROVE  Does(w)
<1> DEFINE r == work[w].rank
<1>1. CASE Advance(w)
  <2>1. /\ work[w].pc = "advance" /\ Pop(r) /\ UNCHANGED <<call, queue, jobsLock>>
        /\ work' = [work EXCEPT ![w].job = NextJob(r),
                                ![w].pc = IF NextJob(r) = None THEN "unlock" ELSE "run"]
        /\ ReleaseSlot(r, api)
    BY <1>1 DEF Advance, Doing, locks
  <2>2. /\ Worked(w) /\ work'[w].rank = r /\ work'[w].job = NextJob(r)
        /\ work'[w].pc = IF NextJob(r) = None THEN "unlock" ELSE "run"
    BY <2>1 DEF Worked, Shapes, WorkFields
  <2>3. Pops(w)
    BY <2>1, <2>2, CallKept DEF Pops
  <2>4. QED
    BY <2>1, <2>2, <2>3, SlotStirs, LocksSame DEF Does, Kinds, Leaves
<1>2. CASE Fail(w)
  <2>1. /\ work[w].pc = "fail" /\ UNCHANGED <<call, jobs, queue, api>> /\ jobsLock[r] = None
        /\ jobsLock' = [jobsLock EXCEPT ![r] = w] /\ Goes(w, "drop")
        /\ outcome' = [outcome EXCEPT ![r] =
                          [j \in DOMAIN @ |-> IF j = Head(jobs[r]) THEN "failed"
                                              ELSE IF @[j] = "queued" THEN "dropped"
                                              ELSE @[j]]]
    BY <1>2 DEF Fail, Doing
  <2>2. Worked(w) /\ Fails(w)
    BY <2>1, GoesWorks, CallKept DEF Fails
  <2>3. LocksKept(w)
    BY <2>1 DEF Shapes, LocksKept
  <2>4. QED
    BY <2>1, <2>2, <2>3, Unstirred DEF Does, Kinds, Leaves
<1>3. CASE Drop(w)
  <2>1. /\ work[w].pc = "drop" /\ UNCHANGED <<queue, outcome>>
        /\ jobs' = [jobs EXCEPT ![r] = Tail(@)]
        /\ \/ Len(jobs[r]) > 1 /\ UNCHANGED <<jobsLock, work>>
           \/ Len(jobs[r]) = 1 /\ jobsLock' = [jobsLock EXCEPT ![r] = None] /\ Goes(w, "unlock")
    BY <1>3 DEF Drop, Doing
  <2>2. SameArrived /\ Stirred
    <3>1. \/ \E id : Notified(id, TRUE) /\ ReleaseSlot(r, Awake(id))
          \/ UNCHANGED call /\ ReleaseSlot(r, api)
      BY <1>3 DEF Drop
    <3>2. QED
      BY <3>1, NotifiedKeeps, SlotStirs, CallKept
  <2>3. CASE Len(jobs[r]) > 1 /\ UNCHANGED <<jobsLock, work>>
    <3>1. Worked(w) /\ Drops(w)
      BY <2>1, <2>2, <2>3 DEF Drops, Worked, Shapes, SameJob
    <3>2. QED
      BY <2>1, <2>2, <2>3, <3>1, LocksSame DEF Does, Kinds, Leaves
  <2>4. CASE Len(jobs[r]) = 1 /\ jobsLock' = [jobsLock EXCEPT ![r] = None] /\ Goes(w, "unlock")
    <3>1. Worked(w) /\ Drops(w)
      BY <2>1, <2>2, <2>4, GoesWorks DEF Drops
    <3>2. LocksKept(w)
      BY <2>1, <2>4 DEF Locked, LocksKept, Shapes
    <3>3. QED
      BY <2>1, <2>2, <3>1, <3>2 DEF Does, Kinds, Leaves
  <2>5. QED
    BY <2>1, <2>3, <2>4
<1>4. QED
  BY <1>1, <1>2, <1>3

(* A callback is over. *)
LEMMA OverWorks ==
  ASSUME Shapes, NEW w \in Workers, program' = program, NEW failed,
         work' = CbOver(w, failed), work[w].pc \in {"cbrun", "master"}, Still, SameArrived
  PROVE  Worked(w) /\ (Moves(w) \/ Rests(w))
<1>1. CASE Blocking(w)
  BY <1>1 DEF CbOver, Worked, Shapes, WorkFields, Moves, SameJob
<1>2. CASE ~Blocking(w)
  BY <1>2 DEF CbOver, Worked, Shapes, WorkFields, Rests, Resting
<1>3. QED
  BY <1>1, <1>2

(* The arrival at a callback job. *)
LEMMA ArrivalKinds ==
  ASSUME Shapes, WorkHeads, NEW w \in Workers, UNCHANGED program, CbArrive(w) \/ CbLast(w)
  PROVE  Does(w)
<1>1. /\ work[w].pc = "run" /\ work[w].job.type = "callback" /\ Arrives(w)
      /\ Still /\ UNCHANGED <<api, jobsLock>>
  BY DEF CbArrive, CbLast, Running, Doing, Still, fifos, locks
<1>2. Arriving(w)
  <2>1. HasFifo(w)
    BY <1>1 DEF HasFifo
  <2>2. Cb(w) \in Ids(program)
    <3>1. work[w].rank \in Ranks /\ jobs[work[w].rank] # <<>>
          /\ work[w].job = Head(jobs[work[w].rank])
      BY <1>1, <2>1 DEF WorkHeads
    <3>2. jobs[work[w].rank] \in Seq(JobSet)
      BY <3>1 DEF Shapes
    <3>3. work[w].job \in JobSet
      BY <3>1, <3>2
    <3>4. QED
      BY <3>3 DEF Cb, JobSet
  <2>3. QED
    BY <1>1, <2>2 DEF Arrives, Arriving, Shapes, Arrived, CallFields
<1>3. Stirred /\ LocksKept(w)
  BY <1>1, Unstirred, LocksSame
<1>4. CASE CbArrive(w)
  <2>1. Single(w) /\ Others(w) # {}
    BY <1>4 DEF CbArrive
  <2>2. CASE Blocking(w) /\ work' = [work EXCEPT ![w] = Resting]
    <3>1. Worked(w) /\ Parks(w)
      BY <1>1, <1>2, <2>1, <2>2 DEF Worked, Parks, Reaches, Shapes, WorkFields, Resting
    <3>2. QED
      BY <1>1, <1>3, <3>1 DEF Does, Kinds, Leaves
  <2>3. CASE ~Blocking(w) /\ Goes(w, "advance")
    <3>1. Worked(w) /\ Passes(w)
      BY <1>1, <1>2, <2>3, GoesWorks DEF Passes, Reaches
    <3>2. QED
      BY <1>1, <1>3, <3>1 DEF Does, Kinds, Leaves
  <2>4. QED
    BY <1>4, <2>2, <2>3 DEF CbArrive
<1>5. CASE CbLast(w)
  <2>1. Single(w) => Others(w) = {}
    BY <1>5 DEF CbLast
  <2>2. /\ Worked(w) /\ SameJob(w)
        /\ work'[w].pc = IF ~Blocking(w) THEN "cbpop" ELSE IF Single(w) THEN "cblock" ELSE "cbstart"
    BY <1>5, GoesWorks DEF CbLast, Worked, Shapes, WorkFields, SameJob
  <2>3. Worked(w) /\ Lasts(w)
    BY <1>1, <1>2, <2>1, <2>2 DEF Lasts, Reaches
  <2>4. QED
    BY <1>1, <1>3, <2>3 DEF Does, Kinds, Leaves
<1>6. QED
  BY <1>4, <1>5

(* The way to the function of a callback, and back. *)
LEMMA FunctionKinds ==
  ASSUME Shapes, NEW w \in Workers, UNCHANGED program,
         CbPop(w) \/ CbInsert(w) \/ CbLock(w) \/ CbStart(w) \/ CbEnd(w)
  PROVE  Does(w)
<1> DEFINE r == work[w].rank
<1>1. CASE CbPop(w)
  <2>1. /\ work[w].pc = "cbpop" /\ Pop(r) /\ UNCHANGED <<call, queue, jobsLock>>
        /\ work' = [work EXCEPT ![w].next = NextJob(r),
                                ![w].pc = IF NextJob(r) = None THEN "cbstart" ELSE "cbinsert"]
        /\ ReleaseSlot(r, api)
    BY <1>1 DEF CbPop, Doing, locks
  <2>2. /\ Worked(w) /\ SameJob(w) /\ work'[w].next = NextJob(r)
        /\ work'[w].pc = IF NextJob(r) = None THEN "cbstart" ELSE "cbinsert"
    BY <2>1 DEF Worked, Shapes, WorkFields, SameJob
  <2>3. Pops(w)
    BY <2>1, <2>2, CallKept DEF Pops, SameJob
  <2>4. QED
    BY <2>1, <2>2, <2>3, SlotStirs, LocksSame DEF Does, Kinds, Leaves
<1>2. CASE CbInsert(w)
  <2>1. /\ work[w].pc = "cbinsert" /\ Goes(w, "cbstart")
        /\ queue' = [queue EXCEPT ![QueueOf[r]] = Append(@, Entry(r, work[w].next))]
        /\ UNCHANGED <<call, jobs, outcome, api, jobsLock>>
    BY <1>2 DEF CbInsert, Doing, locks
  <2>2. Worked(w) /\ Inserts(w)
    BY <2>1, GoesWorks, CallKept DEF Inserts
  <2>3. QED
    BY <2>1, <2>2, Unstirred, LocksSame DEF Does, Kinds, Leaves
<1>3. CASE CbLock(w)
  <2>1. /\ work[w].pc = "cblock" /\ Still /\ UNCHANGED <<call, api, jobsLock>>
        /\ work' = [work EXCEPT ![w].k = @ + 1,
                      ![w].pc = IF work[w].k = Len(CbRanks(w)) THEN "cbstart" ELSE "cblock"]
    BY <1>3 DEF CbLock, Doing, Still, fifos, locks
  <2>2. Worked(w) /\ SameJob(w) /\ work'[w].pc \in {"cblock", "cbstart"}
    BY <2>1 DEF Worked, Shapes, WorkFields, SameJob
  <2>3. Moves(w)
    BY <2>1, <2>2, CallKept DEF Moves
  <2>4. QED
    BY <2>1, <2>2, <2>3, Unstirred, LocksSame DEF Does, Kinds, Leaves
<1>4. CASE CbStart(w)
  <2>1. /\ work[w].pc = "cbstart" /\ Still /\ UNCHANGED <<call, jobsLock>> /\ Goes(w, "cbrun")
        /\ api' = [api EXCEPT ![w] = Idle(BodyOf(program, Cb(w), work[w].rank))]
    BY <1>4 DEF CbStart, Doing, Still, fifos, locks
  <2>2. Worked(w) /\ Moves(w) /\ Enters(w)
    BY <2>1, GoesWorks, CallKept DEF Moves, Enters
  <2>3. QED
    BY <2>1, <2>2, LocksSame DEF Does, Kinds, Leaves
<1>5. CASE CbEnd(w)
  <2>1. /\ work[w].pc = "cbrun" /\ Still /\ UNCHANGED <<call, api, jobsLock>>
        /\ api[w] = Idle(<<>>)
    BY <1>5 DEF CbEnd, Doing, Still, fifos, locks
  <2>2. PICK failed :
          work' = IF Single(w)
                  THEN [work EXCEPT ![w].pc = IF Blocking(w) THEN "global" ELSE "master",
                                    ![w].k = 1, ![w].failed = failed]
                  ELSE CbOver(w, failed)
    BY <1>5 DEF CbEnd
  <2>3. SameArrived
    BY <2>1, CallKept
  <2>4. Worked(w) /\ (Moves(w) \/ Rests(w))
    <3>1. CASE Single(w)
      <4>1. /\ Worked(w) /\ SameJob(w) /\ work'[w].k = 1
            /\ work'[w].pc = IF Blocking(w) THEN "global" ELSE "master"
        BY <2>2, <3>1 DEF Worked, Shapes, WorkFields, SameJob
      <4>2. QED
        BY <2>1, <2>3, <3>1, <4>1 DEF Moves
    <3>2. CASE ~Single(w)
      BY <2>1, <2>2, <2>3, <3>2, OverWorks
    <3>3. QED
      BY <3>1, <3>2
  <2>5. QED
    BY <2>1, <2>4, Unstirred, LocksSame DEF Does, Kinds, Leaves
<1>6. QED
  BY <1>1, <1>2, <1>3, <1>4, <1>5

(* What follows a callback: the other ranks, the master job. *)
LEMMA GlobalKinds ==
  ASSUME Shapes, NEW w \in Workers, UNCHANGED program,
         GlobalQueue(w) \/ GlobalAdvance(w) \/ GlobalSkip(w) \/ GlobalEnd(w) \/ FreeMaster(w)
  PROVE  Does(w)
<1>1. CASE GlobalQueue(w) \/ GlobalSkip(w) \/ GlobalEnd(w)
  <2>1. work[w].pc = "global" /\ Still /\ UNCHANGED <<call, api, jobsLock>>
    BY <1>1 DEF GlobalQueue, GlobalSkip, GlobalEnd, Doing, Still, fifos, locks
  <2>2. PICK held :
        \/ work' = [work EXCEPT ![w].held = held]
        \/ work' = [work EXCEPT ![w].k = @ + 1]
        \/ work' = [work EXCEPT ![w].pc = "master", ![w].held = {}]
    BY <1>1 DEF GlobalQueue, GlobalSkip, GlobalEnd
  <2>3. /\ Worked(w) /\ SameJob(w) /\ work'[w].pc \in {"global", "master"}
        /\ work'[w].k \in {work[w].k, work[w].k + 1}
    <3>1. CASE work' = [work EXCEPT ![w].held = held]
      BY <2>1, <3>1 DEF Worked, Shapes, WorkFields, SameJob
    <3>2. CASE work' = [work EXCEPT ![w].k = @ + 1]
      BY <2>1, <3>2 DEF Worked, Shapes, WorkFields, SameJob
    <3>3. CASE work' = [work EXCEPT ![w].pc = "master", ![w].held = {}]
      BY <2>1, <3>3 DEF Worked, Shapes, WorkFields, SameJob
    <3>4. QED
      BY <2>2, <3>1, <3>2, <3>3
  <2>4. Moves(w)
    BY <2>1, <2>3, CallKept DEF Moves
  <2>5. QED
    BY <2>1, <2>3, <2>4, Unstirred, LocksSame DEF Does, Kinds, Leaves
<1>2. CASE GlobalAdvance(w)
  <2> DEFINE r == GlobalRank(w)
  <2>1. /\ work[w].pc = "global" /\ work[w].k <= Len(CbRanks(w)) /\ r # work[w].rank
        /\ Pop(r) /\ ReleaseSlot(r, api) /\ UNCHANGED <<call, jobsLock>>
        /\ \/ NextJob(r) = None /\ queue' = queue
           \/ /\ NextJob(r) # None
              /\ queue' = [queue EXCEPT ![QueueOf[r]] = Append(@, Entry(r, NextJob(r)))]
        /\ work' = [work EXCEPT ![w].k = @ + 1]
    BY <1>2 DEF GlobalAdvance, Doing, locks
  <2>2. Worked(w) /\ SameJob(w) /\ work'[w].pc = "global" /\ work'[w].k = work[w].k + 1
    BY <2>1 DEF Worked, Shapes, WorkFields, SameJob
  <2>3. AdvancesOther(w)
    BY <2>1, <2>2, CallKept DEF AdvancesOther
  <2>4. QED
    BY <2>1, <2>2, <2>3, SlotStirs, LocksSame DEF Does, Kinds, Leaves
<1>3. CASE FreeMaster(w)
  <2>1. /\ work[w].pc = "master" /\ Still /\ UNCHANGED jobsLock
        /\ work' = CbOver(w, work[w].failed)
        /\ ReleaseSlot(SlotOwner(w), api)
        /\ call' = [call EXCEPT ![Cb(w)].master = None]
    BY <1>3 DEF FreeMaster, Doing, Still, fifos, locks
  <2>2. SameArrived
    BY <2>1 DEF Shapes, SameArrived, Arrived, CallFields
  <2>3. QED
    BY <2>1, <2>2, OverWorks, SlotStirs, LocksSame DEF Does, Kinds, Leaves
<1>4. QED
  BY <1>1, <1>2, <1>3

(* Every step of a worker is of one of the kinds. *)
LEMMA WorkKinds ==
  ASSUME Shapes, WorkHeads, Locked, NEW w \in Workers, UNCHANGED program, WorkStep(w)
  PROVE  Does(w)
BY RunKinds, EndKinds, ArrivalKinds, FunctionKinds, GlobalKinds DEF WorkStep, CallbackStep

-----------------------------------------------------------------------------
(* Calls and the names of calls.                                            *)
LEMMA CallFacts ==
  ASSUME Shapes, NEW id \in Ids(program)
  PROVE  /\ CallOK(Call(id))
         /\ RanksOf(id) \in Seq(Ranks) /\ RankSet(id) \subseteq Ranks
         /\ Call(id).op = "free" => Len(id) = 2
<1>1. ProgramOK(program)
  BY JobCallsAssumption DEF Shapes
<1>2. CallOK(Call(id)) /\ (Call(id).op = "free" => Len(id) = 2)
  BY <1>1 DEF ProgramOK, Call
<1>3. QED
  BY <1>2 DEF CallOK, RanksOf, RankSet

(* A job is not the empty answer of NextJob. *)
LEMMA JobsNotNone ==
  ASSUME Shapes, NEW j \in JobSet
  PROVE  j # None
<1>1. ProgramOK(program)
  BY JobCallsAssumption DEF Shapes
<1>2. PICK type \in {"copy", "launch", "sync", "callback"}, id \in Ids(program) :
        j = [type |-> type, id |-> id]
  BY DEF JobSet
<1>3. QED
  BY <1>1, <1>2 DEF ProgramOK

(* The jobs of a call for one rank: one or two, different, and of that *)
(* call. *)
LEMMA BatchFacts ==
  ASSUME Shapes, NEW id \in Ids(program), Call(id).op # "free"
  PROVE  /\ JobsOf(program, id) \in Seq(JobSet)
         /\ Len(JobsOf(program, id)) \in {1, 2} /\ Len(JobsOf(program, id)) = Need(id)
         /\ \A n \in 1..Need(id) : JobsOf(program, id)[n].id = id
         /\ \A m, n \in 1..Need(id) : JobsOf(program, id)[m] = JobsOf(program, id)[n] => m = n
         /\ \A n \in 1..Need(id) : JobsOf(program, id)[n].type = "callback" => Call(id).op = "callback"
<1> DEFINE types == JobTypes(Call(id))
<1>1. Call(id).op \in {"copy", "launch", "sync", "callback"}
  BY CallFacts DEF CallOK
<1>2. /\ types \in Seq({"copy", "launch", "sync", "callback"}) /\ Len(types) \in {1, 2}
      /\ \A m, n \in 1..Len(types) : types[m] = types[n] => m = n
      /\ \A n \in 1..Len(types) : types[n] = "callback" => Call(id).op = "callback"
  <2>1. CASE Call(id).sync /\ Call(id).op # "sync"
    <3>1. types = <<Call(id).op, "sync">>
      BY <2>1 DEF JobTypes
    <3>2. QED
      BY <1>1, <2>1, <3>1
  <2>2. CASE ~(Call(id).sync /\ Call(id).op # "sync")
    <3>1. types = <<Call(id).op>>
      BY <2>2 DEF JobTypes
    <3>2. QED
      BY <1>1, <3>1
  <2>3. QED
    BY <2>1, <2>2
<1>3. JobsOf(program, id) = [n \in 1..Len(types) |-> [type |-> types[n], id |-> id]]
  <2>1. JobsOf(program, id) = [n \in DOMAIN types |-> [type |-> types[n], id |-> id]]
    BY DEF JobsOf, Call
  <2>2. DOMAIN types = 1..Len(types)
    BY <1>2
  <2>3. QED
    BY <2>1, <2>2
<1>4. Need(id) = Len(types)
  BY DEF Need
<1> HIDE DEF types
<1>5. Len(types) \in Nat
  BY <1>2
<1>6. \A n \in 1..Len(types) : [type |-> types[n], id |-> id] \in JobSet
  BY <1>2 DEF JobSet
<1>7. JobsOf(program, id) \in Seq(JobSet) /\ Len(JobsOf(program, id)) = Len(types)
  BY <1>3, <1>5, <1>6
<1>8. QED
  BY <1>2, <1>3, <1>4, <1>7

-----------------------------------------------------------------------------
(* Queues.                                                                  *)
LEMMA QueueAppend ==
  ASSUME Shapes, Home, NEW r \in Ranks, NEW job \in JobSet,
         queue' = [queue EXCEPT ![QueueOf[r]] = Append(@, Entry(r, job))]
  PROVE  /\ queue' \in [Queues -> Seq([rank : Ranks, job : JobSet])]
         /\ Home' /\ InQueue(r)'
         /\ \A x \in Ranks \ {r} : InQueue(x)' <=> InQueue(x)
         /\ QueuedOnce /\ ~InQueue(r) => QueuedOnce'
         /\ \A q \in Queues : \A n \in DOMAIN queue'[q] :
              \/ n \in DOMAIN queue[q] /\ queue'[q][n] = queue[q][n]
              \/ queue'[q][n] = Entry(r, job)
<1> DEFINE h == QueueOf[r]
           s == queue[h]
           e == Entry(r, job)
<1>1. h \in Queues /\ \A x \in Ranks : QueueOf[x] \in Queues
  BY JobCallsAssumption
<1>2. e \in [rank : Ranks, job : JobSet] /\ e.rank = r
  BY DEF Entry
<1>3. s \in Seq([rank : Ranks, job : JobSet])
  BY <1>1 DEF Shapes
<1>4. queue' = [queue EXCEPT ![h] = Append(s, e)]
  OBVIOUS
<1> HIDE DEF s, e
<1>5. /\ Append(s, e) \in Seq([rank : Ranks, job : JobSet])
      /\ Len(s) \in Nat /\ Len(Append(s, e)) = Len(s) + 1
      /\ DOMAIN s = 1..Len(s) /\ DOMAIN Append(s, e) = 1..(Len(s) + 1)
      /\ \A n \in 1..Len(s) : Append(s, e)[n] = s[n]
      /\ Append(s, e)[Len(s) + 1] = e
  BY <1>2, <1>3
<1>6. queue'[h] = Append(s, e) /\ \A q \in Queues \ {h} : queue'[q] = queue[q]
  BY <1>1, <1>4 DEF Shapes
<1>7. queue' \in [Queues -> Seq([rank : Ranks, job : JobSet])]
  BY <1>1, <1>4, <1>5 DEF Shapes
<1>8. \A q \in Queues : \A n \in DOMAIN queue'[q] :
        \/ n \in DOMAIN queue[q] /\ queue'[q][n] = queue[q][n]
        \/ q = h /\ queue'[q][n] = e /\ n = Len(s) + 1
  <2>1. ASSUME NEW n \in DOMAIN queue'[h]
        PROVE  \/ n \in DOMAIN s /\ queue'[h][n] = s[n]
               \/ queue'[h][n] = e /\ n = Len(s) + 1
    BY <1>5, <1>6
  <2>2. QED
    BY <1>6, <2>1 DEF s
<1>9. \A q \in Queues : \A n \in DOMAIN queue[q] :
        n \in DOMAIN queue'[q] /\ queue'[q][n] = queue[q][n]
  <2>1. ASSUME NEW n \in DOMAIN s PROVE n \in DOMAIN queue'[h] /\ queue'[h][n] = s[n]
    BY <1>5, <1>6
  <2>2. QED
    BY <1>6, <2>1 DEF s
<1>10. Home'
  BY <1>2, <1>8 DEF Home
<1>11. InQueue(r)'
  BY <1>2, <1>5, <1>6 DEF InQueue
<1>12. \A x \in Ranks \ {r} : InQueue(x)' <=> InQueue(x)
  BY <1>1, <1>2, <1>8, <1>9 DEF InQueue
<1>13. ASSUME QueuedOnce, ~InQueue(r) PROVE QueuedOnce'
  <2>1. \A n \in DOMAIN queue[h] : queue[h][n].rank # r
    BY <1>13 DEF InQueue
  <2>2. \A q \in Queues : \A m, n \in DOMAIN queue'[q] :
          queue'[q][m].rank = queue'[q][n].rank => m = n
    BY <1>2, <1>8, <1>13, <2>1 DEF QueuedOnce
  <2>3. QED
    BY <2>2 DEF QueuedOnce
<1>14. QED
  BY <1>7, <1>8, <1>10, <1>11, <1>12, <1>13 DEF e

(* Sequences without their head. *)
LEMMA TailFacts ==
  ASSUME NEW S, NEW s \in Seq(S), s # <<>>
  PROVE  /\ Tail(s) \in Seq(S) /\ Head(s) = s[1] /\ s[1] \in S
         /\ Len(s) \in Nat /\ Len(s) > 0 /\ DOMAIN s = 1..Len(s)
         /\ Len(Tail(s)) = Len(s) - 1 /\ DOMAIN Tail(s) = 1..(Len(s) - 1)
         /\ \A n \in 1..(Len(s) - 1) : Tail(s)[n] = s[n + 1]
<1>1. Len(s) \in Nat /\ DOMAIN s = 1..Len(s) /\ Len(s) > 0
  OBVIOUS
<1>2. Head(s) = s[1] /\ s[1] \in S
  BY <1>1
<1>3. Tail(s) \in Seq(S) /\ Len(Tail(s)) = Len(s) - 1
  BY <1>1
<1>4. DOMAIN Tail(s) = 1..(Len(s) - 1)
  BY <1>1, <1>3
<1>5. \A n \in 1..(Len(s) - 1) : Tail(s)[n] = s[n + 1]
  BY <1>1
<1>6. QED
  BY <1>1, <1>2, <1>3, <1>4, <1>5

(* The first rank of a queue is taken out. *)
LEMMA QueueTake ==
  ASSUME Shapes, Home, QueuedOnce, NEW q \in Queues, queue[q] # <<>>,
         queue' = [queue EXCEPT ![q] = Tail(@)], NEW r, r = Head(queue[q]).rank
  PROVE  /\ queue' \in [Queues -> Seq([rank : Ranks, job : JobSet])]
         /\ r \in Ranks /\ InQueue(r) /\ ~InQueue(r)' /\ Home' /\ QueuedOnce'
         /\ \A x \in Ranks \ {r} : InQueue(x)' <=> InQueue(x)
         /\ \A p \in Queues : \A n \in DOMAIN queue'[p] :
              \E m \in DOMAIN queue[p] : queue'[p][n] = queue[p][m]
         /\ 1 \in DOMAIN queue[q] /\ Head(queue[q]) = queue[q][1]
<1> DEFINE s == queue[q]
<1>1. s \in Seq([rank : Ranks, job : JobSet]) /\ s # <<>>
  BY DEF Shapes
<1>2. queue' = [queue EXCEPT ![q] = Tail(s)]
  OBVIOUS
<1> HIDE DEF s
<1>3. /\ Tail(s) \in Seq([rank : Ranks, job : JobSet])
      /\ Len(s) \in Nat /\ Len(s) > 0 /\ DOMAIN s = 1..Len(s) /\ DOMAIN Tail(s) = 1..(Len(s) - 1)
      /\ \A n \in 1..(Len(s) - 1) : Tail(s)[n] = s[n + 1]
      /\ Head(s) = s[1] /\ s[1] \in [rank : Ranks, job : JobSet]
  BY <1>1, TailFacts
<1>4. queue'[q] = Tail(s) /\ \A p \in Queues \ {q} : queue'[p] = queue[p]
  BY <1>2 DEF Shapes
<1>5. queue' \in [Queues -> Seq([rank : Ranks, job : JobSet])]
  BY <1>2, <1>3 DEF Shapes
<1>6. ASSUME NEW n \in DOMAIN queue'[q]
      PROVE  n + 1 \in DOMAIN s /\ queue'[q][n] = s[n + 1] /\ n \in 1..(Len(s) - 1)
  <2>1. n \in 1..(Len(s) - 1)
    BY <1>3, <1>4
  <2>2. queue'[q][n] = s[n + 1]
    BY <1>3, <1>4, <2>1
  <2>3. n + 1 \in DOMAIN s
    BY <1>3, <2>1
  <2>4. QED
    BY <2>1, <2>2, <2>3
<1>7. \A p \in Queues : \A n \in DOMAIN queue'[p] :
        \E m \in DOMAIN queue[p] : queue'[p][n] = queue[p][m]
  BY <1>4, <1>6 DEF s
<1>8. r \in Ranks /\ 1 \in DOMAIN s /\ r = s[1].rank
  BY <1>3 DEF s
<1>9. QueueOf[r] = q
  BY <1>3, <1>8 DEF Home, s
<1>10. InQueue(r)
  BY <1>3, <1>8, <1>9 DEF InQueue, s
<1>11. \A m, n \in DOMAIN s : s[m].rank = s[n].rank => m = n
  BY DEF QueuedOnce, s
<1>12. ~InQueue(r)'
  <2>1. ASSUME NEW n \in DOMAIN queue'[q], queue'[q][n].rank = r PROVE FALSE
    <3>1. n + 1 = 1
      BY <1>6, <1>8, <1>11, <2>1
    <3>2. QED
      BY <1>6, <3>1
  <2>2. QED
    BY <1>9, <2>1 DEF InQueue
<1>13. Home'
  BY <1>7 DEF Home
<1>14. QueuedOnce'
  <2>1. ASSUME NEW m \in DOMAIN queue'[q], NEW n \in DOMAIN queue'[q],
               queue'[q][m].rank = queue'[q][n].rank
        PROVE  m = n
    <3>1. m + 1 = n + 1
      BY <1>6, <1>11, <2>1
    <3>2. QED
      BY <1>6, <3>1
  <2>2. QED
    BY <1>4, <2>1 DEF QueuedOnce
<1>15. \A x \in Ranks \ {r} : InQueue(x)' <=> InQueue(x)
  <2>1. ASSUME NEW x \in Ranks, x # r, QueueOf[x] = q, InQueue(x) PROVE InQueue(x)'
    <3>1. PICK n \in DOMAIN s : s[n].rank = x
      BY <2>1 DEF InQueue, s
    <3>2. n # 1
      BY <1>8, <2>1, <3>1
    <3>3. n - 1 \in DOMAIN queue'[q] /\ queue'[q][n - 1] = s[n]
      BY <1>3, <1>4, <3>2
    <3>4. QED
      BY <2>1, <3>1, <3>3 DEF InQueue
  <2>2. ASSUME NEW x \in Ranks, InQueue(x)' PROVE InQueue(x)
    BY <1>7, <2>2, JobCallsAssumption DEF InQueue
  <2>3. ASSUME NEW x \in Ranks, QueueOf[x] # q PROVE InQueue(x)' <=> InQueue(x)
    BY <1>4, <2>3, JobCallsAssumption DEF InQueue
  <2>4. QED
    BY <2>1, <2>2, <2>3
<1>16. QED
  BY <1>3, <1>5, <1>7, <1>8, <1>10, <1>12, <1>13, <1>14, <1>15 DEF s

-----------------------------------------------------------------------------
(* FIFOs.                                                                   *)
Shortens(r) ==
  /\ jobs'[r] = Tail(jobs[r]) /\ \A x \in Ranks \ {r} : jobs'[x] = jobs[x]

(* Nothing is submitted. *)
SameDomains == /\ DOMAIN outcome' = Ranks
               /\ \A x \in Ranks : DOMAIN outcome'[x] = DOMAIN outcome[x]

LEMMA EmptyFacts ==
  ASSUME NEW S, NEW s \in Seq(S)
  PROVE  s = <<>> <=> Len(s) = 0
OBVIOUS

(* The head of a FIFO is removed, and NextJob is the head that follows. *)
LEMMA PopEffect ==
  ASSUME Shapes, NEW r \in Ranks, jobs[r] # <<>>, Pop(r)
  PROVE  /\ jobs' \in [Ranks -> Seq(JobSet)] /\ Shortens(r) /\ SameDomains
         /\ \A x \in Ranks \ {r} : outcome'[x] = outcome[x]
         /\ NextJob(r) = None <=> jobs'[r] = <<>>
         /\ NextJob(r) # None => NextJob(r) \in JobSet /\ NextJob(r) = Head(jobs'[r])
<1> DEFINE s == jobs[r]
<1>1. s \in Seq(JobSet) /\ s # <<>>
  BY DEF Shapes
<1>2. jobs' = [jobs EXCEPT ![r] = Tail(s)]
  BY DEF Pop
<1> HIDE DEF s
<1>3. /\ Tail(s) \in Seq(JobSet)
      /\ Len(s) \in Nat /\ Len(s) > 0
      /\ Len(Tail(s)) = Len(s) - 1
      /\ \A n \in 1..(Len(s) - 1) : Tail(s)[n] = s[n + 1]
  BY <1>1, TailFacts
<1>4. jobs' \in [Ranks -> Seq(JobSet)] /\ Shortens(r) /\ jobs'[r] = Tail(s)
  BY <1>2, <1>3 DEF Shapes, Shortens, s
<1>5. SameDomains /\ \A x \in Ranks \ {r} : outcome'[x] = outcome[x]
  BY DEF Pop, Shapes, SameDomains
<1>6. CASE Len(s) = 1
  <2>1. Tail(s) = <<>>
    <3>1. Len(Tail(s)) = 0
      BY <1>3, <1>6
    <3>2. QED
      BY <1>3, <3>1, EmptyFacts
  <2>2. NextJob(r) = None
    BY <1>6 DEF NextJob, s
  <2>3. QED
    BY <1>4, <1>5, <2>1, <2>2
<1>7. CASE Len(s) # 1
  <2>1. Len(s) > 1 /\ ~(Len(s) < 2) /\ 1 \in 1..(Len(s) - 1)
    <3>1. ASSUME NEW m \in Nat, m > 0, m # 1 PROVE m > 1 /\ ~(m < 2) /\ 1 \in 1..(m - 1)
      BY <3>1
    <3>2. QED
      BY <1>3, <1>7, <3>1
  <2>2. NextJob(r) = s[2]
    BY <2>1 DEF NextJob, s
  <2>3. Tail(s)[1] = s[2]
    BY <1>3, <2>1
  <2>4. Tail(s) # <<>>
    <3>1. Len(Tail(s)) # 0
      BY <1>3, <2>1
    <3>2. QED
      BY <1>3, <3>1, EmptyFacts
  <2>5. Head(Tail(s)) = s[2] /\ s[2] \in JobSet
    BY <1>3, <2>3, <2>4, TailFacts
  <2>6. s[2] # None
    BY <2>5, JobsNotNone
  <2>7. QED
    BY <1>4, <1>5, <2>2, <2>4, <2>5, <2>6
<1>8. QED
  BY <1>6, <1>7

-----------------------------------------------------------------------------
(* Who has the FIFO of a rank.                                              *)
OtherServes(w, r) == \E v \in Workers \ {w} : work[v].rank = r /\ HasFifo(v)
OtherAhead(w, r) == \E v \in Workers \ {w} : work[v].rank = r /\ work[v].pc \in {"lock", "run", "cbinsert"}

(* A FIFO is with worker w or with another one, whom the step leaves alone. *)
LEMMA ServedSplit ==
  ASSUME NEW w \in Workers, NEW r, Worked(w)
  PROVE  /\ Served(r) <=> OtherServes(w, r) \/ (HasFifo(w) /\ work[w].rank = r)
         /\ Served(r)' <=> OtherServes(w, r) \/ (HasFifo(w)' /\ work'[w].rank = r)
         /\ Ahead(r) <=> OtherAhead(w, r) \/ (work[w].pc \in {"lock", "run", "cbinsert"} /\ work[w].rank = r)
         /\ Ahead(r)' <=> OtherAhead(w, r) \/ (work'[w].pc \in {"lock", "run", "cbinsert"} /\ work'[w].rank = r)
<1>1. \A v \in Workers \ {w} : work'[v] = work[v] /\ (HasFifo(v)' <=> HasFifo(v))
  BY SameFifo DEF Worked
<1>2. Served(r) <=> OtherServes(w, r) \/ (HasFifo(w) /\ work[w].rank = r)
  BY DEF Served, OtherServes
<1>3. Served(r)' <=> OtherServes(w, r) \/ (HasFifo(w)' /\ work'[w].rank = r)
  BY <1>1 DEF Served, OtherServes
<1>4. Ahead(r) <=> OtherAhead(w, r) \/ (work[w].pc \in {"lock", "run", "cbinsert"} /\ work[w].rank = r)
  BY DEF Ahead, OtherAhead
<1>5. Ahead(r)' <=> OtherAhead(w, r) \/ (work'[w].pc \in {"lock", "run", "cbinsert"} /\ work'[w].rank = r)
  BY <1>1 DEF Ahead, OtherAhead
<1>6. QED
  BY <1>2, <1>3, <1>4, <1>5

(* The worker keeps the FIFO it has, or goes on without one; or it lets go  *)
(* of the one it has.                                                       *)
Keeps(w) ==
  /\ queue' = queue /\ (HasFifo(w)' <=> HasFifo(w))
  /\ HasFifo(w) => work'[w].rank = work[w].rank

LetsGo(w) == queue' = queue /\ HasFifo(w) /\ ~HasFifo(w)'

Places == Home /\ QueuedOnce /\ OneWorker /\ NotBoth

(* If w keeps its FIFO, all FIFOs are where they were. *)
LEMMA KeepsPlaces ==
  ASSUME Shapes, Places, NEW w \in Workers, Worked(w), Keeps(w)
  PROVE  /\ Places'
         /\ \A r \in Ranks : (InQueue(r)' <=> InQueue(r)) /\ (Served(r)' <=> Served(r))
<1>1. \A r \in Ranks : InQueue(r)' <=> InQueue(r)
  BY DEF InQueue, Keeps
<1>2. \A r \in Ranks : Served(r)' <=> Served(r)
  BY ServedSplit DEF Keeps
<1>3. Home' /\ QueuedOnce'
  BY DEF Places, Home, QueuedOnce, Keeps
<1>4. \A v \in Workers : (HasFifo(v)' <=> HasFifo(v)) /\ (HasFifo(v) => work'[v].rank = work[v].rank)
  BY SameFifo DEF Worked, Keeps
<1>5. OneWorker'
  BY <1>4 DEF Places, OneWorker
<1>6. NotBoth'
  BY <1>1, <1>2 DEF Places, NotBoth
<1>7. QED
  BY <1>1, <1>2, <1>3, <1>5, <1>6 DEF Places

(* If w lets go of its FIFO, that FIFO is nowhere, and the others are where *)
(* they were. *)
LEMMA LetsGoPlaces ==
  ASSUME Shapes, Places, NEW w \in Workers, Worked(w), LetsGo(w), NEW s \in Ranks,
         s = work[w].rank
  PROVE  /\ Places'
         /\ \A r \in Ranks : InQueue(r)' <=> InQueue(r)
         /\ \A r \in Ranks \ {s} : Served(r)' <=> Served(r)
         /\ Served(s) /\ ~Served(s)' /\ ~InQueue(s)
<1>1. \A r \in Ranks : InQueue(r)' <=> InQueue(r)
  BY DEF InQueue, LetsGo
<1>2. \A r \in Ranks \ {s} : Served(r)' <=> Served(r)
  BY ServedSplit DEF LetsGo
<1>3. ~OtherServes(w, s)
  BY DEF Places, OneWorker, OtherServes, LetsGo
<1>4. Served(s) /\ ~Served(s)'
  BY <1>3, ServedSplit DEF LetsGo
<1>5. Home' /\ QueuedOnce'
  BY DEF Places, Home, QueuedOnce, LetsGo
<1>6. \A v \in Workers : HasFifo(v)' => HasFifo(v) /\ work'[v] = work[v]
  BY SameFifo DEF Worked, LetsGo
<1>7. OneWorker'
  BY <1>6 DEF Places, OneWorker
<1>8. NotBoth' /\ ~InQueue(s)
  BY <1>1, <1>2, <1>4 DEF Places, NotBoth
<1>9. QED
  BY <1>1, <1>2, <1>4, <1>5, <1>7, <1>8 DEF Places

(* If w takes a FIFO, it goes from the queue to w. *)
LEMMA TakesPlaces ==
  ASSUME Shapes, Places, NEW w \in Workers, Worked(w), Takes(w), NEW s,
         s = Head(queue[ServesOf[w]]).rank
  PROVE  /\ s \in Ranks /\ Places'
         /\ \A r \in Ranks \ {s} : (InQueue(r)' <=> InQueue(r)) /\ (Served(r)' <=> Served(r))
         /\ InQueue(s) /\ ~Served(s) /\ ~InQueue(s)' /\ Served(s)'
         /\ queue' \in [Queues -> Seq([rank : Ranks, job : JobSet])]
         /\ \A p \in Queues : \A n \in DOMAIN queue'[p] :
              \E m \in DOMAIN queue[p] : queue'[p][n] = queue[p][m]
         /\ \E n \in DOMAIN queue[ServesOf[w]] : Head(queue[ServesOf[w]]) = queue[ServesOf[w]][n]
<1> DEFINE q == ServesOf[w]
<1>1. q \in Queues /\ queue[q] # <<>> /\ queue' = [queue EXCEPT ![q] = Tail(@)]
  BY JobCallsAssumption DEF Takes
<1>2. /\ queue' \in [Queues -> Seq([rank : Ranks, job : JobSet])]
      /\ s \in Ranks /\ InQueue(s) /\ ~InQueue(s)' /\ Home' /\ QueuedOnce'
      /\ \A x \in Ranks \ {s} : InQueue(x)' <=> InQueue(x)
      /\ \A p \in Queues : \A n \in DOMAIN queue'[p] :
           \E m \in DOMAIN queue[p] : queue'[p][n] = queue[p][m]
      /\ 1 \in DOMAIN queue[q] /\ Head(queue[q]) = queue[q][1]
  BY <1>1, QueueTake DEF Places
<1>3. ~HasFifo(w) /\ HasFifo(w)' /\ work'[w].rank = s
  BY DEF Takes, HasFifo
<1>4. ~Served(s)
  BY <1>2 DEF Places, NotBoth
<1>5. \A r \in Ranks \ {s} : Served(r)' <=> Served(r)
  BY <1>3, ServedSplit
<1>6. Served(s)' /\ ~OtherServes(w, s)
  BY <1>3, <1>4, ServedSplit
<1>7. \A v \in Workers \ {w} : (HasFifo(v)' <=> HasFifo(v)) /\ work'[v] = work[v]
  BY SameFifo DEF Worked
<1>8. OneWorker'
  BY <1>3, <1>6, <1>7 DEF Places, OneWorker, OtherServes
<1>9. NotBoth'
  BY <1>2, <1>5 DEF Places, NotBoth
<1>10. QED
  BY <1>2, <1>4, <1>5, <1>6, <1>8, <1>9 DEF Places

(* The FIFO of s, which nobody has, is queued.                              *)
LEMMA QueuesPlaces ==
  ASSUME Shapes, Places, NEW w \in Workers, Worked(w), NEW s \in Ranks, NEW job \in JobSet,
         queue' = [queue EXCEPT ![QueueOf[s]] = Append(@, Entry(s, job))], ~InQueue(s),
         ~OtherServes(w, s),
         HasFifo(w)' => HasFifo(w) /\ work'[w].rank = work[w].rank /\ work[w].rank # s,
         HasFifo(w) => HasFifo(w)' \/ work[w].rank = s
  PROVE  /\ Places'
         /\ \A r \in Ranks \ {s} : (InQueue(r)' <=> InQueue(r)) /\ (Served(r)' <=> Served(r))
         /\ ~Served(s)' /\ InQueue(s)'
         /\ queue' \in [Queues -> Seq([rank : Ranks, job : JobSet])]
         /\ \A q \in Queues : \A n \in DOMAIN queue'[q] :
              \/ n \in DOMAIN queue[q] /\ queue'[q][n] = queue[q][n]
              \/ queue'[q][n] = Entry(s, job)
<1>1. /\ queue' \in [Queues -> Seq([rank : Ranks, job : JobSet])]
      /\ Home' /\ InQueue(s)' /\ QueuedOnce'
      /\ \A x \in Ranks \ {s} : InQueue(x)' <=> InQueue(x)
      /\ \A q \in Queues : \A n \in DOMAIN queue'[q] :
           \/ n \in DOMAIN queue[q] /\ queue'[q][n] = queue[q][n]
           \/ queue'[q][n] = Entry(s, job)
  BY QueueAppend DEF Places
<1>2. \A r \in Ranks \ {s} : Served(r)' <=> Served(r)
  BY ServedSplit
<1>3. ~Served(s)'
  BY ServedSplit
<1>4. \A v \in Workers : HasFifo(v)' => HasFifo(v) /\ work'[v].rank = work[v].rank
  BY SameFifo DEF Worked
<1>5. OneWorker'
  BY <1>4 DEF Places, OneWorker
<1>6. NotBoth'
  BY <1>1, <1>2, <1>3 DEF Places, NotBoth
<1>7. QED
  BY <1>1, <1>2, <1>3, <1>5, <1>6 DEF Places

-----------------------------------------------------------------------------
(* What the kinds of steps do to each rank.                                 *)
Untouched(r) ==
  /\ jobs'[r] = jobs[r] /\ DOMAIN outcome'[r] = DOMAIN outcome[r]
  /\ (InQueue(r)' <=> InQueue(r)) /\ (Served(r)' <=> Served(r))
  /\ Ahead(r)' => Ahead(r)

Typed == /\ jobs' \in [Ranks -> Seq(JobSet)] /\ DOMAIN outcome' = Ranks
         /\ queue' \in [Queues -> Seq([rank : Ranks, job : JobSet])]

Good == Shapes /\ Places /\ QueueHeads /\ WorkHeads /\ Calling

(* A worker that has a FIFO has it alone. *)
LEMMA Serving1 ==
  ASSUME Places, WorkHeads, NEW w \in Workers, HasFifo(w), NEW s, s = work[w].rank
  PROVE  /\ s \in Ranks /\ jobs[s] # <<>> /\ Served(s) /\ ~InQueue(s)
         /\ ~OtherServes(w, s) /\ ~OtherAhead(w, s)
<1>1. s \in Ranks /\ jobs[s] # <<>> /\ Served(s)
  BY DEF WorkHeads, Served
<1>2. ~InQueue(s)
  BY <1>1 DEF Places, NotBoth
<1>3. ~OtherServes(w, s)
  BY DEF Places, OneWorker, OtherServes
<1>4. ~OtherAhead(w, s)
  BY <1>3 DEF OtherServes, OtherAhead, HasFifo
<1>5. QED
  BY <1>1, <1>2, <1>3, <1>4

(* Going on with a job neither takes nor gives back the FIFO. *)
LEMMA MovesKeep ==
  ASSUME Calling, NEW w \in Workers, Worked(w), Moves(w)
  PROVE  /\ HasFifo(w)' <=> HasFifo(w)
         /\ work'[w].pc \in {"lock", "cbinsert"} => FALSE
         /\ work'[w].pc = "run" => work[w].pc = "lock"
<1>1. Blocking(w)' <=> Blocking(w)
  BY SameWorker DEF Worked, Moves, SameJob
<1>2. work'[w].pc \notin {"lock", "cbinsert"} /\ (work'[w].pc = "run" => work[w].pc = "lock")
  BY DEF Moves
<1>3. CASE /\ work[w].pc \in {"lock", "run", "poll", "polled"}
           /\ work'[w].pc \in {"run", "poll", "polled", "advance", "fail"}
  <2>1. HasFifo(w)
    BY <1>3 DEF HasFifo
  <2>2. HasFifo(w)'
    BY <1>3 DEF HasFifo
  <2>3. QED
    BY <1>2, <2>1, <2>2
<1>4. CASE work[w].pc = "cblock" /\ work'[w].pc \in {"cblock", "cbstart"}
  BY <1>1, <1>4 DEF HasFifo
<1>5. CASE work[w].pc = "cbstart" /\ work'[w].pc = "cbrun"
  BY <1>1, <1>5 DEF HasFifo
<1>6. CASE /\ work[w].pc = "cbrun" /\ IF Blocking(w) THEN work'[w].pc = "global"
                                       ELSE work'[w].pc = "master"
  BY <1>1, <1>6 DEF HasFifo
<1>7. CASE work[w].pc = "global" /\ work'[w].pc \in {"global", "master"}
  BY <1>1, <1>7 DEF HasFifo
<1>8. CASE work[w].pc \in {"cbrun", "master"} /\ Blocking(w) /\ work'[w].pc \in {"advance", "fail"}
  BY <1>1, <1>8 DEF HasFifo
<1>9. QED
  BY <1>2, <1>3, <1>4, <1>5, <1>6, <1>7, <1>8 DEF Moves

(* Five kinds of steps leave every FIFO where it is, *)
LEMMA QuietSteps ==
  ASSUME Good, NEW w \in Workers, Worked(w),
         Moves(w) \/ Rests(w) \/ Passes(w) \/ Lasts(w) \/ Fails(w)
  PROVE  /\ Keeps(w) /\ Places' /\ Typed /\ jobs' = jobs
         /\ \A r \in Ranks : Untouched(r)
<1>1. /\ jobs' = jobs /\ queue' = queue /\ DOMAIN outcome' = Ranks
      /\ \A r \in Ranks : DOMAIN outcome'[r] = DOMAIN outcome[r]
  BY DEF Moves, Rests, Passes, Lasts, Reaches, Fails, Still, Good, Shapes
<1>2. /\ HasFifo(w)' <=> HasFifo(w)
      /\ HasFifo(w) => work'[w].rank = work[w].rank
      /\ \A r : work'[w].rank = r /\ work'[w].pc \in {"lock", "run", "cbinsert"} =>
                  work[w].rank = r /\ work[w].pc \in {"lock", "run", "cbinsert"}
  <2>1. CASE Moves(w)
    BY <2>1, MovesKeep DEF Good, Moves, SameJob
  <2>2. CASE Rests(w)
    BY <2>2 DEF Rests, HasFifo
  <2>3. CASE Passes(w) \/ Fails(w)
    BY <2>3 DEF Passes, Fails, Reaches, HasFifo, SameJob
  <2>4. CASE Lasts(w)
    <3>1. Blocking(w)' <=> Blocking(w)
      BY <2>4, SameWorker DEF Worked, Lasts, SameJob
    <3>2. QED
      BY <2>4, <3>1 DEF Lasts, Reaches, HasFifo, SameJob
  <2>5. QED
    BY <2>1, <2>2, <2>3, <2>4
<1>3. Keeps(w)
  BY <1>1, <1>2 DEF Keeps
<1>4. Places' /\ \A r \in Ranks : (InQueue(r)' <=> InQueue(r)) /\ (Served(r)' <=> Served(r))
  BY <1>3, KeepsPlaces DEF Good
<1>5. \A r \in Ranks : Ahead(r)' => Ahead(r)
  BY <1>2, ServedSplit
<1>6. Typed
  BY <1>1 DEF Typed, Good, Shapes
<1>7. QED
  BY <1>1, <1>3, <1>4, <1>5, <1>6 DEF Untouched

(* and every head. *)
LEMMA QuietHeads ==
  ASSUME Good, NEW w \in Workers, Worked(w),
         Moves(w) \/ Rests(w) \/ Passes(w) \/ Lasts(w) \/ Fails(w)
  PROVE  QueueHeads' /\ WorkHeads'
<1>1. Keeps(w) /\ jobs' = jobs
  BY QuietSteps
<1>2. QueueHeads'
  BY <1>1 DEF Keeps, Good, QueueHeads
<1>3. ASSUME NEW v \in Workers, HasFifo(v)'
      PROVE  /\ work'[v].rank \in Ranks /\ jobs'[work'[v].rank] # <<>>
             /\ work'[v].pc = "cbinsert" => work'[v].next = Head(jobs'[work'[v].rank])
             /\ work'[v].pc \notin {"drop", "cbinsert"} => work'[v].job = Head(jobs'[work'[v].rank])
  <2>1. CASE v # w
    <3>1. HasFifo(v) /\ work'[v] = work[v]
      BY <1>3, <2>1, SameFifo DEF Worked
    <3>2. QED
      BY <1>1, <3>1 DEF Good, WorkHeads
  <2>2. CASE v = w
    <3>1. HasFifo(w) /\ work'[w].rank = work[w].rank
      BY <1>1, <1>3, <2>2 DEF Keeps
    <3>2. /\ work'[w].pc # "cbinsert"
          /\ work'[w].pc # "drop" => work'[w].job = work[w].job /\ work[w].pc \notin {"drop", "cbinsert"}
      <4>1. CASE Moves(w)
        BY <4>1 DEF Moves, SameJob
      <4>2. CASE Rests(w)
        BY <3>1, <4>2 DEF Rests, HasFifo
      <4>3. CASE Passes(w) \/ Lasts(w) \/ Fails(w)
        BY <4>3 DEF Passes, Lasts, Reaches, Fails, SameJob
      <4>4. QED
        BY <4>1, <4>2, <4>3
    <3>3. QED
      BY <1>1, <2>2, <3>1, <3>2 DEF Good, WorkHeads
  <2>3. QED
    BY <2>1, <2>2
<1>4. WorkHeads'
  BY <1>3 DEF WorkHeads
<1>5. QED
  BY <1>2, <1>4

(* A rank that is parked is with nobody, with the jobs it had. *)
LEMMA ParksStep ==
  ASSUME Good, NEW w \in Workers, Worked(w), Parks(w), NEW s, s = work[w].rank
  PROVE  /\ s \in Ranks /\ Places' /\ Typed /\ QueueHeads' /\ WorkHeads'
         /\ \A r \in Ranks \ {s} : Untouched(r)
         /\ Served(s) /\ ~InQueue(s) /\ ~InQueue(s)' /\ ~Served(s)' /\ ~Ahead(s)'
         /\ jobs[s] # <<>> /\ jobs' = jobs /\ outcome' = outcome
<1>1. HasFifo(w) /\ ~HasFifo(w)' /\ queue' = queue /\ jobs' = jobs /\ outcome' = outcome
  BY DEF Parks, Reaches, Still, HasFifo
<1>2. s \in Ranks /\ jobs[s] # <<>> /\ ~InQueue(s) /\ ~OtherAhead(w, s)
  BY <1>1, Serving1 DEF Good
<1>3. /\ Places'
      /\ \A r \in Ranks : InQueue(r)' <=> InQueue(r)
      /\ \A r \in Ranks \ {s} : Served(r)' <=> Served(r)
      /\ Served(s) /\ ~Served(s)'
  BY <1>1, <1>2, LetsGoPlaces DEF Good, LetsGo
<1>4. \A r \in Ranks : (Ahead(r)' => Ahead(r)) /\ ~Ahead(s)'
  BY <1>2, ServedSplit DEF Parks
<1>5. Typed
  BY <1>1 DEF Typed, Good, Shapes
<1>6. QueueHeads'
  BY <1>1 DEF Good, QueueHeads
<1>7. \A v \in Workers : HasFifo(v)' => HasFifo(v) /\ work'[v] = work[v]
  BY <1>1, SameFifo DEF Worked
<1>8. WorkHeads'
  BY <1>1, <1>7 DEF Good, WorkHeads
<1>9. QED
  BY <1>1, <1>2, <1>3, <1>4, <1>5, <1>6, <1>8 DEF Untouched

LEMMA ElementFacts ==
  ASSUME NEW S, NEW s \in Seq(S), NEW n \in DOMAIN s
  PROVE  s[n] \in S
OBVIOUS

(* The FIFO of s loses its first job, and is then with a worker or queued   *)
(* exactly when it is not empty.                                            *)
Shrinks(s) ==
  /\ s \in Ranks /\ jobs[s] # <<>> /\ Shortens(s) /\ ~InQueue(s)
  /\ InQueue(s)' \/ Served(s)' <=> jobs'[s] # <<>>

(* The heads of the FIFOs of the other workers and in the queues stay.      *)
LEMMA HeadsElsewhere ==
  ASSUME Good, NEW w \in Workers, Worked(w), NEW s \in Ranks, Shortens(s),
         ~InQueue(s), ~OtherServes(w, s)
  PROVE  /\ \A q \in Queues : \A n \in DOMAIN queue[q] :
              /\ jobs'[queue[q][n].rank] # <<>>
              /\ queue[q][n].job = Head(jobs'[queue[q][n].rank])
         /\ \A v \in Workers \ {w} : HasFifo(v)' =>
              /\ work'[v].rank \in Ranks /\ jobs'[work'[v].rank] # <<>>
              /\ work'[v].pc = "cbinsert" => work'[v].next = Head(jobs'[work'[v].rank])
              /\ work'[v].pc \notin {"drop", "cbinsert"} =>
                   work'[v].job = Head(jobs'[work'[v].rank])
<1>1. ASSUME NEW q \in Queues, NEW n \in DOMAIN queue[q]
      PROVE  /\ jobs'[queue[q][n].rank] # <<>>
             /\ queue[q][n].job = Head(jobs'[queue[q][n].rank])
  <2> DEFINE e == queue[q][n]
  <2>4. queue[q] \in Seq([rank : Ranks, job : JobSet])
    BY DEF Good, Shapes
  <2>5. e \in [rank : Ranks, job : JobSet]
    BY <2>4, ElementFacts, Zenon
  <2>6. QueueOf[e.rank] = q
    BY DEF Good, Places, Home
  <2>1. queue[q][n].rank \in Ranks /\ QueueOf[queue[q][n].rank] = q
    BY <2>5, <2>6
  <2>2. queue[q][n].rank # s
    BY <2>1 DEF InQueue
  <2>3. QED
    BY <2>1, <2>2 DEF Shortens, Good, QueueHeads
<1>2. ASSUME NEW v \in Workers \ {w}, HasFifo(v)'
      PROVE  /\ work'[v].rank \in Ranks /\ jobs'[work'[v].rank] # <<>>
             /\ work'[v].pc = "cbinsert" => work'[v].next = Head(jobs'[work'[v].rank])
             /\ work'[v].pc \notin {"drop", "cbinsert"} =>
                  work'[v].job = Head(jobs'[work'[v].rank])
  <2>1. HasFifo(v) /\ work'[v] = work[v]
    BY <1>2, SameFifo DEF Worked
  <2>2. work[v].rank \in Ranks /\ work[v].rank # s
    BY <2>1 DEF OtherServes, Good, WorkHeads
  <2>3. jobs'[work[v].rank] = jobs[work[v].rank]
    BY <2>2 DEF Shortens
  <2>4. QED
    BY <2>1, <2>2, <2>3 DEF Good, WorkHeads
<1>3. QED
  BY <1>1, <1>2

(* A job that is removed: its FIFO stays with the worker, if it is not *)
(* empty. *)
LEMMA PopsStep ==
  ASSUME Good, NEW w \in Workers, Worked(w), Pops(w), NEW s, s = work[w].rank
  PROVE  /\ Places' /\ Typed /\ QueueHeads' /\ WorkHeads' /\ SameDomains
         /\ \A r \in Ranks \ {s} : Untouched(r)
         /\ Served(s) /\ Shrinks(s)
<1>1. HasFifo(w) /\ queue' = queue /\ Pop(s) /\ work'[w].rank = s
  BY DEF Pops, HasFifo
<1>2. s \in Ranks /\ jobs[s] # <<>> /\ ~InQueue(s) /\ ~OtherServes(w, s) /\ ~OtherAhead(w, s) /\ Served(s)
  BY <1>1, Serving1 DEF Good
<1>3. /\ jobs' \in [Ranks -> Seq(JobSet)] /\ Shortens(s) /\ SameDomains
      /\ NextJob(s) = None <=> jobs'[s] = <<>>
      /\ NextJob(s) # None => NextJob(s) \in JobSet /\ NextJob(s) = Head(jobs'[s])
  BY <1>1, <1>2, PopEffect DEF Good
<1>4. /\ HasFifo(w)' <=> NextJob(s) # None
      /\ NextJob(s) # None => \/ work'[w].pc = "run" /\ work'[w].job = NextJob(s)
                              \/ work'[w].pc = "cbinsert" /\ work'[w].next = NextJob(s)
      /\ NextJob(s) = None => work'[w].pc \notin {"lock", "run", "cbinsert"}
  <2>1. CASE work[w].pc = "advance"
    BY <2>1 DEF Pops, HasFifo
  <2>2. CASE work[w].pc = "cbpop"
    <3>1. ~Blocking(w)
      BY <2>2 DEF Good, Calling, CbPhase
    <3>2. ~Blocking(w)'
      BY <2>2, <3>1, SameWorker DEF Pops, Worked, SameJob
    <3>3. QED
      BY <2>2, <3>2 DEF Pops, HasFifo
  <2>3. QED
    BY <2>1, <2>2 DEF Pops
<1>5. /\ Places' /\ \A r \in Ranks : InQueue(r)' <=> InQueue(r)
      /\ \A r \in Ranks \ {s} : Served(r)' <=> Served(r)
      /\ Served(s)' <=> NextJob(s) # None
  <2>1. CASE NextJob(s) = None
    <3>1. LetsGo(w)
      BY <1>1, <1>4, <2>1 DEF LetsGo
    <3>2. QED
      BY <1>2, <2>1, <3>1, LetsGoPlaces DEF Good
  <2>2. CASE NextJob(s) # None
    <3>1. Keeps(w)
      BY <1>1, <1>4, <2>2 DEF Keeps
    <3>2. QED
      BY <1>2, <2>2, <3>1, KeepsPlaces DEF Good
  <2>3. QED
    BY <2>1, <2>2
<1>6. \A r \in Ranks \ {s} : Ahead(r)' => Ahead(r)
  BY <1>1, ServedSplit
<1>7. Shrinks(s)
  BY <1>2, <1>3, <1>5 DEF Shrinks
<1>8. \A r \in Ranks \ {s} : Untouched(r)
  BY <1>3, <1>5, <1>6 DEF Untouched, Shortens, SameDomains
<1>9. Typed
  BY <1>1, <1>3 DEF Typed, SameDomains, Good, Shapes
<1>10. QueueHeads'
  BY <1>1, <1>2, <1>3, HeadsElsewhere DEF QueueHeads
<1>11. HasFifo(w)' =>
         /\ work'[w].rank \in Ranks /\ jobs'[work'[w].rank] # <<>>
         /\ work'[w].pc = "cbinsert" => work'[w].next = Head(jobs'[work'[w].rank])
         /\ work'[w].pc \notin {"drop", "cbinsert"} => work'[w].job = Head(jobs'[work'[w].rank])
  BY <1>1, <1>2, <1>3, <1>4
<1>12. WorkHeads'
  BY <1>2, <1>3, <1>11, HeadsElsewhere DEF WorkHeads
<1>13. QED
  BY <1>2, <1>3, <1>5, <1>7, <1>8, <1>9, <1>10, <1>12

(* So it does when a job is dropped. *)
LEMMA DropsStep ==
  ASSUME Good, NEW w \in Workers, Worked(w), Drops(w), NEW s, s = work[w].rank
  PROVE  /\ Places' /\ Typed /\ QueueHeads' /\ WorkHeads' /\ SameDomains
         /\ \A r \in Ranks \ {s} : Untouched(r)
         /\ Served(s) /\ Shrinks(s)
<1>1. HasFifo(w) /\ UNCHANGED <<queue, outcome>> /\ work'[w].rank = s
      /\ jobs' = [jobs EXCEPT ![s] = Tail(@)]
  BY DEF Drops, HasFifo, SameJob
<1>2. s \in Ranks /\ jobs[s] # <<>> /\ ~InQueue(s) /\ ~OtherServes(w, s) /\ ~OtherAhead(w, s) /\ Served(s)
  BY <1>1, Serving1 DEF Good
<1> DEFINE fifo == jobs[s]
<1>3. fifo \in Seq(JobSet) /\ fifo # <<>> /\ jobs' = [jobs EXCEPT ![s] = Tail(fifo)]
  BY <1>1, <1>2 DEF Good, Shapes
<1> HIDE DEF fifo
<1>4. Tail(fifo) \in Seq(JobSet) /\ Len(Tail(fifo)) = Len(fifo) - 1 /\ Len(fifo) \in Nat
  BY <1>3, TailFacts
<1>5. Tail(fifo) = <<>> <=> Len(fifo) = 1
  <2>1. Tail(fifo) = <<>> <=> Len(Tail(fifo)) = 0
    BY <1>4, EmptyFacts
  <2>2. QED
    BY <1>4, <2>1
<1>6. jobs' \in [Ranks -> Seq(JobSet)] /\ Shortens(s) /\ jobs'[s] = Tail(fifo)
  BY <1>2, <1>3, <1>4 DEF Good, Shapes, Shortens, fifo
<1>7. SameDomains
  BY <1>1 DEF SameDomains, Good, Shapes
<1>8. \/ Len(fifo) > 1 /\ work'[w].pc = "drop" /\ HasFifo(w)'
      \/ Len(fifo) = 1 /\ work'[w].pc = "unlock" /\ ~HasFifo(w)'
  BY DEF Drops, HasFifo, fifo
<1>9. /\ Places' /\ \A r \in Ranks : InQueue(r)' <=> InQueue(r)
      /\ \A r \in Ranks \ {s} : Served(r)' <=> Served(r)
      /\ Served(s)' <=> jobs'[s] # <<>>
  <2>1. CASE Len(fifo) = 1
    <3>1. LetsGo(w)
      BY <1>1, <1>4, <1>8, <2>1 DEF LetsGo
    <3>2. QED
      BY <1>2, <1>5, <1>6, <2>1, <3>1, LetsGoPlaces DEF Good
  <2>2. CASE Len(fifo) # 1
    <3>1. Keeps(w)
      BY <1>1, <1>8, <2>2 DEF Keeps
    <3>2. QED
      BY <1>2, <1>5, <1>6, <2>2, <3>1, KeepsPlaces DEF Good
  <2>3. QED
    BY <2>1, <2>2
<1>10. \A r \in Ranks \ {s} : Ahead(r)' => Ahead(r)
  BY <1>1, ServedSplit
<1>11. Shrinks(s)
  BY <1>2, <1>6, <1>9 DEF Shrinks
<1>12. \A r \in Ranks \ {s} : Untouched(r)
  BY <1>6, <1>7, <1>9, <1>10 DEF Untouched, Shortens, SameDomains
<1>13. Typed
  BY <1>1, <1>6, <1>7 DEF Typed, SameDomains, Good, Shapes
<1>14. QueueHeads'
  BY <1>1, <1>2, <1>6, HeadsElsewhere DEF QueueHeads
<1>18. Len(fifo) = 1 => Tail(fifo) = <<>>
  BY <1>5
<1>19. Len(fifo) > 1 => Tail(fifo) # <<>>
  BY <1>4, <1>5
<1>15. HasFifo(w)' => work'[w].pc = "drop" /\ work'[w].rank \in Ranks /\ jobs'[work'[w].rank] # <<>>
  BY <1>1, <1>2, <1>6, <1>8, <1>19
<1>16. WorkHeads'
  BY <1>2, <1>6, <1>15, HeadsElsewhere DEF WorkHeads
<1>17. QED
  BY <1>2, <1>7, <1>9, <1>11, <1>12, <1>13, <1>14, <1>16

(* The FIFO of s goes from a queue to a worker, or back.                    *)
Hands(s) ==
  /\ s \in Ranks /\ jobs' = jobs /\ outcome' = outcome
  /\ InQueue(s) \/ (Served(s) /\ Ahead(s))
  /\ InQueue(s)' \/ Served(s)'

(* A FIFO goes from its queue to a worker, *)
LEMMA TakesStep ==
  ASSUME Good, NEW w \in Workers, Worked(w), Takes(w), NEW s, s = Head(queue[ServesOf[w]]).rank
  PROVE  /\ Places' /\ Typed /\ QueueHeads' /\ WorkHeads' /\ SameDomains
         /\ \A r \in Ranks \ {s} : Untouched(r)
         /\ Hands(s)
<1> DEFINE q == ServesOf[w]
           e == Head(queue[q])
<1>1. /\ s \in Ranks /\ Places'
      /\ \A r \in Ranks \ {s} : (InQueue(r)' <=> InQueue(r)) /\ (Served(r)' <=> Served(r))
      /\ InQueue(s) /\ Served(s)'
      /\ queue' \in [Queues -> Seq([rank : Ranks, job : JobSet])]
      /\ \A p \in Queues : \A n \in DOMAIN queue'[p] :
           \E m \in DOMAIN queue[p] : queue'[p][n] = queue[p][m]
      /\ \E n \in DOMAIN queue[q] : e = queue[q][n]
  BY TakesPlaces DEF Good
<1>2. jobs' = jobs /\ outcome' = outcome /\ work[w].pc = "take" /\ work'[w].pc = "lock"
      /\ work'[w].rank = s /\ work'[w].job = e.job
  BY DEF Takes
<1>3. q \in Queues
  BY JobCallsAssumption
<1>4. \A p \in Queues : \A n \in DOMAIN queue[p] :
        jobs[queue[p][n].rank] # <<>> /\ queue[p][n].job = Head(jobs[queue[p][n].rank])
  BY DEF Good, QueueHeads
<1>5. jobs[s] # <<>> /\ e.job = Head(jobs[s])
  BY <1>1, <1>3, <1>4
<1>6. QueueHeads'
  <2>1. \A p \in Queues : \A n \in DOMAIN queue'[p] :
          jobs'[queue'[p][n].rank] # <<>> /\ queue'[p][n].job = Head(jobs'[queue'[p][n].rank])
    BY <1>1, <1>2, <1>4
  <2>2. QED
    BY <2>1 DEF QueueHeads
<1>7. WorkHeads'
  <2>1. \A v \in Workers \ {w} : HasFifo(v)' => HasFifo(v) /\ work'[v] = work[v]
    BY SameFifo DEF Worked
  <2>2. QED
    BY <1>1, <1>2, <1>5, <2>1 DEF Good, WorkHeads
<1>8. \A r \in Ranks \ {s} : Ahead(r)' => Ahead(r)
  BY <1>2, ServedSplit
<1>9. Typed /\ SameDomains
  BY <1>1, <1>2 DEF Typed, SameDomains, Good, Shapes
<1>10. \A r \in Ranks \ {s} : Untouched(r)
  BY <1>1, <1>2, <1>8 DEF Untouched
<1>11. Hands(s)
  BY <1>1, <1>2 DEF Hands
<1>12. QED
  BY <1>1, <1>6, <1>7, <1>9, <1>10, <1>11

(* and from a worker to its queue. *)
LEMMA InsertsStep ==
  ASSUME Good, NEW w \in Workers, Worked(w), Inserts(w), NEW s, s = work[w].rank
  PROVE  /\ Places' /\ Typed /\ QueueHeads' /\ WorkHeads' /\ SameDomains
         /\ \A r \in Ranks \ {s} : Untouched(r)
         /\ Hands(s)
<1> DEFINE job == work[w].next
<1>1. /\ HasFifo(w) /\ work[w].pc = "cbinsert" /\ work'[w].pc = "cbstart"
      /\ work'[w].rank = s /\ work'[w].job = work[w].job
      /\ jobs' = jobs /\ outcome' = outcome
      /\ queue' = [queue EXCEPT ![QueueOf[s]] = Append(@, Entry(s, job))]
  BY DEF Inserts, HasFifo, SameJob
<1>2. /\ s \in Ranks /\ jobs[s] # <<>> /\ Served(s) /\ ~InQueue(s)
      /\ ~OtherServes(w, s) /\ ~OtherAhead(w, s)
  BY <1>1, Serving1 DEF Good
<1>3. job = Head(jobs[s])
  BY <1>1 DEF Good, WorkHeads
<1>4. job \in JobSet
  <2>1. jobs[s] \in Seq(JobSet)
    BY <1>2 DEF Good, Shapes
  <2>2. QED
    BY <1>2, <1>3, <2>1, TailFacts
<1>5. ~HasFifo(w)'
  <2>1. ~Blocking(w)
    BY <1>1 DEF Good, Calling, CbPhase
  <2>2. ~Blocking(w)'
    BY <1>1, <2>1, SameWorker DEF Worked
  <2>3. QED
    BY <1>1, <2>2 DEF HasFifo
<1>6. /\ Places'
      /\ \A r \in Ranks \ {s} : (InQueue(r)' <=> InQueue(r)) /\ (Served(r)' <=> Served(r))
      /\ ~Served(s)' /\ InQueue(s)'
      /\ queue' \in [Queues -> Seq([rank : Ranks, job : JobSet])]
      /\ \A q \in Queues : \A n \in DOMAIN queue'[q] :
           \/ n \in DOMAIN queue[q] /\ queue'[q][n] = queue[q][n]
           \/ queue'[q][n] = Entry(s, job)
  <2> HIDE DEF job
  <2>1. QED
    BY <1>1, <1>2, <1>4, <1>5, QueuesPlaces DEF Good
<1>7. QueueHeads'
  <2>1. \A q \in Queues : \A n \in DOMAIN queue[q] :
          jobs[queue[q][n].rank] # <<>> /\ queue[q][n].job = Head(jobs[queue[q][n].rank])
    BY DEF Good, QueueHeads
  <2>2. Entry(s, job).rank = s /\ Entry(s, job).job = Head(jobs[s])
    BY <1>3 DEF Entry
  <2> HIDE DEF job
  <2>3. ASSUME NEW q \in Queues, NEW n \in DOMAIN queue'[q]
        PROVE  jobs'[queue'[q][n].rank] # <<>> /\ queue'[q][n].job = Head(jobs'[queue'[q][n].rank])
    <3>1. CASE n \in DOMAIN queue[q] /\ queue'[q][n] = queue[q][n]
      BY <1>1, <2>1, <3>1
    <3>2. CASE queue'[q][n] = Entry(s, job)
      BY <1>1, <1>2, <2>2, <3>2
    <3>3. QED
      BY <1>6, <3>1, <3>2
  <2>4. QED
    BY <2>3 DEF QueueHeads
<1>8. WorkHeads'
  <2>1. \A v \in Workers : HasFifo(v)' => HasFifo(v) /\ work'[v] = work[v]
    BY <1>5, SameFifo DEF Worked
  <2>2. QED
    BY <1>1, <2>1 DEF Good, WorkHeads
<1>9. \A r \in Ranks \ {s} : Ahead(r)' => Ahead(r)
  BY <1>1, ServedSplit
<1>10. Typed /\ SameDomains
  BY <1>1, <1>6 DEF Typed, SameDomains, Good, Shapes
<1>11. \A r \in Ranks \ {s} : Untouched(r)
  BY <1>1, <1>6, <1>9 DEF Untouched
<1>12. Ahead(s)
  BY <1>1 DEF Ahead
<1>13. Hands(s)
  BY <1>1, <1>2, <1>6, <1>12 DEF Hands
<1>14. QED
  BY <1>6, <1>7, <1>8, <1>10, <1>11, <1>13

(* Another rank of a blocking callback goes from being parked to its queue, *)
(* if it has jobs. *)
LEMMA AdvancesOtherStep ==
  ASSUME Good, Gathered, NEW w \in Workers, Worked(w), AdvancesOther(w), NEW s, s = GlobalRank(w)
  PROVE  /\ Places' /\ Typed /\ QueueHeads' /\ WorkHeads' /\ SameDomains
         /\ \A r \in Ranks \ {s} : Untouched(r)
         /\ ParkedUnder(s, Cb(w)) /\ Shrinks(s)
<1>18. /\ work[w].pc = "global" /\ work'[w].pc = "global"
       /\ work[w].k <= Len(CbRanks(w)) /\ s = CbRanks(w)[work[w].k]
  BY DEF AdvancesOther, GlobalRank
<1>19. Blocking(w) /\ Single(w) /\ work[w].k \in Nat \ {0} /\ Cb(w) \in Ids(program)
  BY <1>18 DEF Good, Calling, CbPhase
<1>20. CbRanks(w) = RanksOf(Cb(w))
  BY <1>19 DEF CbRanks, Single
<1>21. HasFifo(w)
  BY <1>18, <1>19 DEF HasFifo
<1>1. /\ HasFifo(w) /\ Blocking(w) /\ Single(w) /\ work[w].pc = "global" /\ work'[w].pc = "global"
      /\ work[w].k \in Nat \ {0} /\ CbRanks(w) = RanksOf(Cb(w)) /\ work[w].k <= Len(RanksOf(Cb(w)))
      /\ s = RanksOf(Cb(w))[work[w].k] /\ Cb(w) \in Ids(program)
  BY <1>18, <1>19, <1>20, <1>21
<1>2. Pop(s) /\ s # work[w].rank /\ SameJob(w)
  BY DEF AdvancesOther
<1>3. /\ RanksOf(Cb(w)) \in Seq(Ranks) /\ work[w].k \in DOMAIN RanksOf(Cb(w)) /\ s \in Ranks
  <2>1. RanksOf(Cb(w)) \in Seq(Ranks)
    BY <1>1, CallFacts DEF Good
  <2>2. work[w].k \in DOMAIN RanksOf(Cb(w))
    BY <1>1, <2>1
  <2>3. QED
    BY <1>1, <2>1, <2>2, ElementFacts
<1>4. ParkedUnder(s, Cb(w))
  BY <1>1, <1>2, <1>3 DEF Gathered
<1>5. jobs[s] # <<>> /\ ~InQueue(s) /\ ~Served(s)
  BY <1>4 DEF ParkedUnder
<1>6. ~OtherServes(w, s)
  BY <1>5 DEF OtherServes, Served
<1>7. /\ jobs' \in [Ranks -> Seq(JobSet)] /\ Shortens(s) /\ SameDomains
      /\ NextJob(s) = None <=> jobs'[s] = <<>>
      /\ NextJob(s) # None => NextJob(s) \in JobSet /\ NextJob(s) = Head(jobs'[s])
  BY <1>2, <1>3, <1>5, PopEffect DEF Good
<1>8. HasFifo(w)' /\ work'[w].rank = work[w].rank
  <2>1. Blocking(w)'
    BY <1>1, <1>2, SameWorker DEF Worked, SameJob
  <2>2. QED
    BY <1>1, <1>2, <2>1 DEF HasFifo, SameJob
<1>9. /\ Places'
      /\ \A r \in Ranks \ {s} : (InQueue(r)' <=> InQueue(r)) /\ (Served(r)' <=> Served(r))
      /\ ~Served(s)' /\ (InQueue(s)' <=> NextJob(s) # None)
      /\ queue' \in [Queues -> Seq([rank : Ranks, job : JobSet])]
      /\ \A q \in Queues : \A n \in DOMAIN queue'[q] :
           \/ n \in DOMAIN queue[q] /\ queue'[q][n] = queue[q][n]
           \/ NextJob(s) # None /\ queue'[q][n] = Entry(s, NextJob(s))
  <2>1. CASE NextJob(s) = None
    <3>1. queue' = queue
      BY <2>1 DEF AdvancesOther
    <3>2. Keeps(w)
      BY <1>1, <1>8, <3>1 DEF Keeps
    <3>3. Places' /\ \A r \in Ranks : (InQueue(r)' <=> InQueue(r)) /\ (Served(r)' <=> Served(r))
      BY <3>2, KeepsPlaces DEF Good
    <3>4. QED
      BY <1>3, <1>5, <2>1, <3>1, <3>3 DEF Good, Shapes
  <2>2. CASE NextJob(s) # None
    <3> DEFINE job == NextJob(s)
    <3>1. job \in JobSet /\ queue' = [queue EXCEPT ![QueueOf[s]] = Append(@, Entry(s, job))]
      BY <1>7, <2>2 DEF AdvancesOther
    <3> HIDE DEF job
    <3>2. /\ Places'
          /\ \A r \in Ranks \ {s} : (InQueue(r)' <=> InQueue(r)) /\ (Served(r)' <=> Served(r))
          /\ ~Served(s)' /\ InQueue(s)'
          /\ queue' \in [Queues -> Seq([rank : Ranks, job : JobSet])]
          /\ \A q \in Queues : \A n \in DOMAIN queue'[q] :
               \/ n \in DOMAIN queue[q] /\ queue'[q][n] = queue[q][n]
               \/ queue'[q][n] = Entry(s, job)
      BY <1>1, <1>2, <1>3, <1>5, <1>6, <1>8, <3>1, QueuesPlaces DEF Good
    <3>3. QED
      BY <2>2, <3>2 DEF job
  <2>3. QED
    BY <2>1, <2>2
<1>10. QueueHeads'
  <2>1. \A q \in Queues : \A n \in DOMAIN queue[q] :
          jobs'[queue[q][n].rank] # <<>> /\ queue[q][n].job = Head(jobs'[queue[q][n].rank])
    BY <1>3, <1>5, <1>6, <1>7, HeadsElsewhere
  <2>2. NextJob(s) # None => /\ Entry(s, NextJob(s)).rank = s
                             /\ Entry(s, NextJob(s)).job = Head(jobs'[s]) /\ jobs'[s] # <<>>
    BY <1>7 DEF Entry
  <2>3. \A q \in Queues : \A n \in DOMAIN queue'[q] :
          jobs'[queue'[q][n].rank] # <<>> /\ queue'[q][n].job = Head(jobs'[queue'[q][n].rank])
    <3> HIDE DEF NextJob
    <3>1. QED
      BY <1>9, <2>1, <2>2
  <2>4. QED
    BY <2>3 DEF QueueHeads
<1>11. HasFifo(w)' => /\ work'[w].rank \in Ranks /\ jobs'[work'[w].rank] # <<>>
                      /\ work'[w].job = Head(jobs'[work'[w].rank]) /\ work'[w].pc = "global"
  <2>1. work[w].rank \in Ranks /\ jobs[work[w].rank] # <<>> /\ work[w].job = Head(jobs[work[w].rank])
    BY <1>1 DEF Good, WorkHeads
  <2>2. jobs'[work[w].rank] = jobs[work[w].rank]
    BY <1>2, <1>7, <2>1 DEF Shortens
  <2>3. QED
    BY <1>1, <1>2, <1>8, <2>1, <2>2 DEF SameJob
<1>12. WorkHeads'
  BY <1>3, <1>5, <1>6, <1>7, <1>11, HeadsElsewhere DEF WorkHeads
<1>13. \A r \in Ranks : Ahead(r)' => Ahead(r)
  BY <1>1, ServedSplit
<1>14. Typed
  BY <1>7, <1>9 DEF Typed, SameDomains
<1>15. \A r \in Ranks \ {s} : Untouched(r)
  BY <1>7, <1>9, <1>13 DEF Untouched, Shortens, SameDomains
<1>16. Shrinks(s)
  BY <1>3, <1>5, <1>7, <1>9 DEF Shrinks
<1>17. QED
  BY <1>4, <1>7, <1>9, <1>10, <1>12, <1>14, <1>15, <1>16

(* Sequences put together. *)
LEMMA ConcatFacts ==
  ASSUME NEW S, NEW s \in Seq(S), NEW b \in Seq(S), b # <<>>
  PROVE  /\ s \o b \in Seq(S) /\ s \o b # <<>>
         /\ Len(s) \in Nat /\ Len(b) \in Nat /\ Len(s \o b) = Len(s) + Len(b)
         /\ DOMAIN s = 1..Len(s) /\ DOMAIN b = 1..Len(b) /\ DOMAIN (s \o b) = 1..(Len(s) + Len(b))
         /\ \A n \in 1..Len(s) : (s \o b)[n] = s[n]
         /\ \A n \in 1..(Len(s) + Len(b)) : n > Len(s) =>
              n - Len(s) \in 1..Len(b) /\ (s \o b)[n] = b[n - Len(s)]
         /\ s # <<>> => Head(s \o b) = Head(s)
         /\ s = <<>> => Head(s \o b) = b[1]
<1>1. Len(s) \in Nat /\ Len(b) \in Nat /\ DOMAIN s = 1..Len(s) /\ DOMAIN b = 1..Len(b)
  OBVIOUS
<1>2. s \o b \in Seq(S) /\ Len(s \o b) = Len(s) + Len(b)
  OBVIOUS
<1>3. DOMAIN (s \o b) = 1..(Len(s) + Len(b))
  BY <1>1, <1>2
<1>4. \A n \in 1..Len(s) : (s \o b)[n] = s[n]
  BY <1>1
<1>5. \A n \in 1..(Len(s) + Len(b)) : n > Len(s) =>
        n - Len(s) \in 1..Len(b) /\ (s \o b)[n] = b[n - Len(s)]
  <2>1. ASSUME NEW n \in 1..(Len(s) + Len(b)), n > Len(s)
        PROVE  n - Len(s) \in 1..Len(b)
    BY <1>1, <2>1
  <2>2. ASSUME NEW n \in 1..(Len(s) + Len(b)), n > Len(s)
        PROVE  (s \o b)[n] = b[n - Len(s)]
    BY <1>1, <2>2
  <2>3. QED
    BY <2>1, <2>2
<1>6. Len(b) > 0
  BY <1>1, EmptyFacts
<1>7. s \o b # <<>>
  BY <1>1, <1>2, <1>6, EmptyFacts
<1>8. Head(s \o b) = (s \o b)[1]
  BY <1>2, <1>7, TailFacts
<1>9. s # <<>> => Head(s \o b) = Head(s)
  <2>1. SUFFICES ASSUME s # <<>> PROVE Head(s \o b) = Head(s)
    OBVIOUS
  <2>2. Len(s) > 0 /\ Head(s) = s[1]
    BY <2>1, TailFacts
  <2>3. 1 \in 1..Len(s)
    BY <1>1, <2>2
  <2>4. QED
    BY <1>4, <1>8, <2>2, <2>3
<1>10. s = <<>> => Head(s \o b) = b[1]
  <2>1. SUFFICES ASSUME s = <<>> PROVE (s \o b)[1] = b[1]
    BY <1>8
  <2>2. Len(s) = 0
    BY <2>1
  <2>3. 1 \in 1..(Len(s) + Len(b)) /\ 1 > Len(s) /\ 1 - Len(s) = 1
    BY <1>1, <1>6, <2>2
  <2>4. QED
    BY <1>5, <2>3
<1>11. QED
  BY <1>1, <1>2, <1>3, <1>4, <1>5, <1>7, <1>9, <1>10

(* The FIFO of s grows by the jobs of call id.                              *)
Grows(s, id) ==
  LET batch == JobsOf(program, id)
  IN  /\ jobs' = [jobs EXCEPT ![s] = @ \o batch]
      /\ jobs'[s] = jobs[s] \o batch /\ jobs'[s] # <<>>
      /\ \A r \in Ranks \ {s} : jobs'[r] = jobs[r]
      /\ \A r \in Ranks \ {s} : outcome'[r] = outcome[r]
      /\ DOMAIN outcome'[s] = DOMAIN outcome[s] \cup {batch[n] : n \in 1..Need(id)}
      /\ jobs[s] = <<>> => InQueue(s)'
      /\ jobs[s] # <<>> => /\ (InQueue(s)' <=> InQueue(s)) /\ (Served(s)' <=> Served(s))
                           /\ Head(jobs'[s]) = Head(jobs[s])
      /\ Ahead(s)' <=> Ahead(s)

(* If no worker moves, no FIFO does. *)
LEMMA SameWork ==
  ASSUME program' = program, work' = work
  PROVE  /\ \A v : HasFifo(v)' <=> HasFifo(v)
         /\ \A r : (Served(r)' <=> Served(r)) /\ (Ahead(r)' <=> Ahead(r))
<1>1. \A v : HasFifo(v)' <=> HasFifo(v)
  BY SameFifo
<1>2. QED
  BY <1>1 DEF Served, Ahead

(* What a thread that adds jobs knows of its call.                          *)
LEMMA AddFacts ==
  ASSUME Shapes, Frames, NEW t \in Threads, api[t].pc \in {"add", "addqueue"},
         NEW s, s = AddRank(t), NEW id, id = api[t].id
  PROVE  /\ id \in Ids(program) /\ s \in RankSet(id) /\ s \in Ranks /\ Call(id).op # "free"
         /\ api[t].i \in DOMAIN RanksOf(id) /\ s = RanksOf(id)[api[t].i]
<1>1. id \in Ids(program) /\ Call(id).op # "free" /\ api[t].i \in DOMAIN RanksOf(id)
  BY DEF Frames
<1>2. RankSet(id) \subseteq Ranks
  BY <1>1, CallFacts
<1>3. QED
  BY <1>1, <1>2 DEF AddRank, RankSet

(* A FIFO that was empty joins its queue.                                   *)
Joins(s, job) == queue' = [queue EXCEPT ![QueueOf[s]] = Append(@, Entry(s, job))]

HasJoined(s, job) ==
  /\ queue' \in [Queues -> Seq([rank : Ranks, job : JobSet])]
  /\ Home' /\ QueuedOnce' /\ InQueue(s)'
  /\ \A x \in Ranks \ {s} : InQueue(x)' <=> InQueue(x)
  /\ \A q \in Queues : \A n \in DOMAIN queue'[q] :
       \/ n \in DOMAIN queue[q] /\ queue'[q][n] = queue[q][n]
       \/ queue'[q][n] = Entry(s, job)

LEMMA JoinsQueue ==
  ASSUME Shapes, Home, QueuedOnce, NEW s \in Ranks, NEW job \in JobSet, Joins(s, job), ~InQueue(s)
  PROVE  HasJoined(s, job)
BY QueueAppend DEF Joins, HasJoined

(* The jobs of a call are appended to the FIFO of a rank. *)
LEMMA AppendsStep ==
  ASSUME Good, Frames, NEW t \in Threads, Appends(t),
         NEW s, s = AddRank(t), NEW id, id = api[t].id
  PROVE  /\ Places' /\ Typed /\ QueueHeads' /\ WorkHeads'
         /\ \A r \in Ranks \ {s} : Untouched(r)
         /\ Grows(s, id) /\ ~(jobs[s] = <<>> /\ InQueue(s))
         /\ s \in Ranks /\ id \in Ids(program)
<1> DEFINE batch == JobsOf(program, id)
<1>1. /\ UNCHANGED <<program, call, work>> /\ api[t].pc \in {"add", "addqueue"}
      /\ jobs' = [jobs EXCEPT ![s] = @ \o batch]
      /\ outcome' = [outcome EXCEPT ![s] = WithQueued(@, {batch[n] : n \in 1..Need(id)})]
      /\ \/ jobs[s] # <<>> /\ queue' = queue
         \/ /\ jobs[s] = <<>>
            /\ queue' = [queue EXCEPT ![QueueOf[s]] = Append(@, Entry(s, batch[1]))]
  BY DEF Appends, Append2
<1>2. id \in Ids(program) /\ s \in Ranks /\ Call(id).op # "free"
  BY <1>1, AddFacts DEF Good
<1>3. batch \in Seq(JobSet) /\ batch # <<>> /\ batch[1] \in JobSet
  <2>1. batch \in Seq(JobSet) /\ Len(batch) \in {1, 2}
    BY <1>2, BatchFacts DEF Good
  <2>2. batch # <<>>
    <3> HIDE DEF batch
    <3>1. batch = <<>> => Len(batch) = 0
      BY <2>1, EmptyFacts
    <3>2. ASSUME NEW n \in {1, 2} PROVE n # 0
      OBVIOUS
    <3>3. QED
      BY <2>1, <3>1, <3>2, Zenon
  <2>3. QED
    BY <2>1, <2>2, TailFacts
<1> DEFINE fifo == jobs[s]
<1> HIDE DEF batch
<1>4. fifo \in Seq(JobSet) /\ jobs' = [jobs EXCEPT ![s] = fifo \o batch]
  BY <1>1, <1>2 DEF Good, Shapes
<1>5. jobs[s] = fifo
  OBVIOUS
<1> HIDE DEF fifo
<1>6. /\ fifo \o batch \in Seq(JobSet) /\ fifo \o batch # <<>>
      /\ fifo # <<>> => Head(fifo \o batch) = Head(fifo)
      /\ fifo = <<>> => Head(fifo \o batch) = batch[1]
  BY <1>3, <1>4, ConcatFacts
<1>7. /\ jobs' \in [Ranks -> Seq(JobSet)] /\ jobs'[s] = fifo \o batch
      /\ \A r \in Ranks \ {s} : jobs'[r] = jobs[r]
  BY <1>2, <1>4, <1>6 DEF Good, Shapes
<1>8. /\ DOMAIN outcome' = Ranks /\ \A r \in Ranks \ {s} : outcome'[r] = outcome[r]
      /\ DOMAIN outcome'[s] = DOMAIN outcome[s] \cup {batch[n] : n \in 1..Need(id)}
  BY <1>1, <1>2 DEF Good, Shapes, WithQueued
<1>9. /\ \A v : HasFifo(v)' <=> HasFifo(v)
      /\ \A r : (Served(r)' <=> Served(r)) /\ (Ahead(r)' <=> Ahead(r))
  BY <1>1, SameWork
<1>10. \A r \in Ranks : jobs[r] # <<>> => jobs'[r] # <<>> /\ Head(jobs'[r]) = Head(jobs[r])
  BY <1>5, <1>6, <1>7
<1>11. jobs[s] = <<>> => ~InQueue(s) /\ ~Served(s)
  <2>1. ASSUME InQueue(s) PROVE jobs[s] # <<>>
    <3>1. QueueOf[s] \in Queues
      BY <1>2, JobCallsAssumption
    <3>2. PICK n \in DOMAIN queue[QueueOf[s]] : queue[QueueOf[s]][n].rank = s
      BY <2>1 DEF InQueue
    <3>3. QED
      BY <3>1, <3>2 DEF Good, QueueHeads
  <2>2. ASSUME Served(s) PROVE jobs[s] # <<>>
    BY <2>2 DEF Served, Good, WorkHeads
  <2>3. QED
    BY <2>1, <2>2
<1>12. /\ queue' \in [Queues -> Seq([rank : Ranks, job : JobSet])]
       /\ Home' /\ QueuedOnce'
       /\ \A x \in Ranks \ {s} : InQueue(x)' <=> InQueue(x)
       /\ jobs[s] = <<>> => InQueue(s)'
       /\ jobs[s] # <<>> => (InQueue(s)' <=> InQueue(s))
       /\ \A q \in Queues : \A n \in DOMAIN queue'[q] :
            \/ n \in DOMAIN queue[q] /\ queue'[q][n] = queue[q][n]
            \/ jobs[s] = <<>> /\ queue'[q][n] = Entry(s, batch[1])
  <2>1. CASE jobs[s] # <<>>
    <3>1. queue' = queue
      BY <1>1, <2>1
    <3>2. QED
      BY <2>1, <3>1 DEF Good, Shapes, Places, Home, QueuedOnce, InQueue
  <2>2. CASE jobs[s] = <<>>
    <3>1. batch[1] \in JobSet /\ Joins(s, batch[1])
      BY <1>1, <1>3, <2>2 DEF Joins
    <3>2. HasJoined(s, batch[1])
      BY <1>2, <1>11, <2>2, <3>1, JoinsQueue DEF Good, Places
    <3>3. QED
      BY <2>2, <3>2 DEF HasJoined
  <2>3. QED
    BY <2>1, <2>2
<1>13. OneWorker'
  BY <1>1, <1>9 DEF Good, Places, OneWorker
<1>14. NotBoth'
  BY <1>9, <1>11, <1>12 DEF Good, Places, NotBoth
<1>15. QueueHeads'
  <2>1. \A q \in Queues : \A n \in DOMAIN queue[q] :
          queue[q][n].rank \in Ranks /\ jobs[queue[q][n].rank] # <<>>
          /\ queue[q][n].job = Head(jobs[queue[q][n].rank])
    <3>1. ASSUME NEW q \in Queues, NEW n \in DOMAIN queue[q] PROVE queue[q][n].rank \in Ranks
      <4>1. queue[q] \in Seq([rank : Ranks, job : JobSet])
        BY DEF Good, Shapes
      <4>2. queue[q][n] \in [rank : Ranks, job : JobSet]
        BY <4>1, ElementFacts, Zenon
      <4>3. QED
        BY <4>2
    <3>2. QED
      BY <3>1 DEF Good, QueueHeads
  <2>2. Entry(s, batch[1]).rank = s /\ Entry(s, batch[1]).job = batch[1]
    BY DEF Entry
  <2>3. ASSUME NEW q \in Queues, NEW n \in DOMAIN queue'[q]
        PROVE  jobs'[queue'[q][n].rank] # <<>> /\ queue'[q][n].job = Head(jobs'[queue'[q][n].rank])
    <3>1. CASE n \in DOMAIN queue[q] /\ queue'[q][n] = queue[q][n]
      BY <1>10, <2>1, <3>1
    <3>2. CASE jobs[s] = <<>> /\ queue'[q][n] = Entry(s, batch[1])
      BY <1>5, <1>6, <1>7, <2>2, <3>2
    <3>3. QED
      BY <1>12, <3>1, <3>2
  <2>4. QED
    BY <2>3 DEF QueueHeads
<1>16. WorkHeads'
  BY <1>1, <1>9, <1>10 DEF Good, WorkHeads
<1>17. Typed
  BY <1>7, <1>8, <1>12 DEF Typed
<1>18. \A r \in Ranks \ {s} : Untouched(r)
  BY <1>7, <1>8, <1>9, <1>12 DEF Untouched
<1>19. Grows(s, id)
  <2>1. jobs'[s] = jobs[s] \o batch /\ jobs'[s] # <<>>
    BY <1>5, <1>6, <1>7
  <2>2. QED
    BY <1>1, <1>2, <1>7, <1>8, <1>9, <1>10, <1>12, <2>1 DEF Grows, batch
<1>20. QED
  BY <1>2, <1>11, <1>12, <1>13, <1>14, <1>15, <1>16, <1>17, <1>18, <1>19 DEF Places

-----------------------------------------------------------------------------
(* What may happen to a rank in a step.                                     *)
Sleeps(r) ==
  /\ jobs'[r] = jobs[r] /\ DOMAIN outcome'[r] = DOMAIN outcome[r] /\ jobs[r] # <<>>
  /\ Served(r) /\ ~InQueue(r)' /\ ~Served(r)' /\ ~Ahead(r)'
  /\ \E w \in Workers : Parks(w) /\ r = work[w].rank

(* It loses the head of its FIFO, to its worker or to the end of a blocking *)
(* callback. *)
Loses(r) ==
  /\ Shrinks(r) /\ DOMAIN outcome'[r] = DOMAIN outcome[r]
  /\ \/ Served(r)
     \/ \E w \in Workers : AdvancesOther(w) /\ r = GlobalRank(w) /\ ParkedUnder(r, Cb(w))

NewTo(id, r) == \A j \in DOMAIN outcome[r] : j.id # id

(* It gets the jobs of a call, for the first time. *)
Gains(r) ==
  \E id \in Ids(program) :
    /\ Grows(r, id) /\ r \in RankSet(id) /\ Call(id).op # "free" /\ NewTo(id, r)
    /\ ~(jobs[r] = <<>> /\ InQueue(r))

(* What a step of a worker does to a rank, and any step. *)
ServeStep(r) == Untouched(r) \/ Sleeps(r) \/ Loses(r) \/ Hands(r)

RankStep(r) == ServeStep(r) \/ Gains(r)

Well == Places /\ QueueHeads /\ WorkHeads

(* A step of a worker: one of four things to each rank. *)
LEMMA WorkRanks ==
  ASSUME Good, Gathered, NEW w \in Workers, Does(w)
  PROVE  Well' /\ Typed /\ \A r \in Ranks : ServeStep(r)
<1>1. Worked(w) /\ Kinds(w)
  BY DEF Does
<1>2. CASE Moves(w) \/ Rests(w) \/ Passes(w) \/ Lasts(w) \/ Fails(w)
  <2>1. Places' /\ Typed /\ \A r \in Ranks : Untouched(r)
    BY <1>1, <1>2, QuietSteps
  <2>2. QueueHeads' /\ WorkHeads'
    BY <1>1, <1>2, QuietHeads
  <2>3. QED
    BY <2>1, <2>2 DEF RankStep, ServeStep, Well
<1>3. CASE Parks(w)
  <2> DEFINE s == work[w].rank
  <2>1. /\ s \in Ranks /\ Places' /\ Typed /\ QueueHeads' /\ WorkHeads'
        /\ \A r \in Ranks \ {s} : Untouched(r)
        /\ Served(s) /\ jobs[s] # <<>> /\ jobs' = jobs /\ outcome' = outcome
    BY <1>1, <1>3, ParksStep
  <2>2. \A r : r = s => ~InQueue(r)' /\ ~Served(r)' /\ ~Ahead(r)'
    BY <1>1, <1>3, ParksStep
  <2>3. \A r : r = s => Sleeps(r)
    BY <1>3, <2>1, <2>2 DEF Sleeps
  <2>4. QED
    BY <2>1, <2>3 DEF RankStep, ServeStep, Well
<1>4. CASE Pops(w) \/ Drops(w)
  <2> DEFINE s == work[w].rank
  <2>1. /\ Places' /\ Typed /\ QueueHeads' /\ WorkHeads' /\ SameDomains
        /\ \A r \in Ranks \ {s} : Untouched(r)
        /\ Served(s)
    BY <1>1, <1>4, PopsStep, DropsStep
  <2>2. \A r : r = s => Shrinks(r)
    BY <1>1, <1>4, PopsStep, DropsStep
  <2>3. \A r \in Ranks : r = s => Loses(r)
    BY <2>1, <2>2 DEF Loses, SameDomains
  <2>4. QED
    BY <2>1, <2>3 DEF RankStep, ServeStep, Well
<1>5. CASE Takes(w)
  <2> DEFINE s == Head(queue[ServesOf[w]]).rank
  <2>1. /\ Places' /\ Typed /\ QueueHeads' /\ WorkHeads'
        /\ \A r \in Ranks \ {s} : Untouched(r)
    BY <1>1, <1>5, TakesStep
  <2>2. \A r : r = s => Hands(r)
    BY <1>1, <1>5, TakesStep
  <2>3. QED
    BY <2>1, <2>2 DEF RankStep, ServeStep, Well
<1>6. CASE Inserts(w)
  <2> DEFINE s == work[w].rank
  <2>1. /\ Places' /\ Typed /\ QueueHeads' /\ WorkHeads'
        /\ \A r \in Ranks \ {s} : Untouched(r)
    BY <1>1, <1>6, InsertsStep
  <2>2. \A r : r = s => Hands(r)
    BY <1>1, <1>6, InsertsStep
  <2>3. QED
    BY <2>1, <2>2 DEF RankStep, ServeStep, Well
<1>7. CASE AdvancesOther(w)
  <2> DEFINE s == GlobalRank(w)
  <2>1. /\ Places' /\ Typed /\ QueueHeads' /\ WorkHeads' /\ SameDomains
        /\ \A r \in Ranks \ {s} : Untouched(r)
    BY <1>1, <1>7, AdvancesOtherStep
  <2>2. \A r : r = s => Shrinks(r) /\ ParkedUnder(r, Cb(w))
    BY <1>1, <1>7, AdvancesOtherStep
  <2>3. \A r \in Ranks : r = s => Loses(r)
    BY <1>7, <2>1, <2>2 DEF Loses, SameDomains
  <2>4. QED
    BY <2>1, <2>3 DEF RankStep, ServeStep, Well
<1>8. QED
  BY <1>1, <1>2, <1>3, <1>4, <1>5, <1>6, <1>7 DEF Kinds

(* A calm step: nothing. *)
LEMMA CalmRanks ==
  ASSUME Good, NEW t \in Threads, Calm(t)
  PROVE  Well' /\ Typed /\ (\A r \in Ranks : Untouched(r)) /\ UNCHANGED <<program, jobs, outcome, queue, work>>
<1>1. UNCHANGED <<program, jobs, outcome, queue, work>>
  BY DEF Calm
<1>2. /\ \A v : HasFifo(v)' <=> HasFifo(v)
      /\ \A r : (Served(r)' <=> Served(r)) /\ (Ahead(r)' <=> Ahead(r))
  BY <1>1, SameWork
<1>3. \A r : InQueue(r)' <=> InQueue(r)
  BY <1>1 DEF InQueue
<1>4. Home' /\ QueuedOnce' /\ OneWorker' /\ NotBoth'
  BY <1>1, <1>2, <1>3 DEF Good, Places, Home, QueuedOnce, OneWorker, NotBoth
<1>5. QueueHeads' /\ WorkHeads'
  BY <1>1, <1>2 DEF Good, QueueHeads, WorkHeads
<1>6. Typed
  BY <1>1 DEF Good, Shapes, Typed
<1>7. \A r \in Ranks : Untouched(r)
  BY <1>1, <1>2, <1>3 DEF Untouched
<1>8. QED
  BY <1>1, <1>4, <1>5, <1>6, <1>7 DEF Well, Places

(* Any step of the API. *)
LEMMA ApiRanks ==
  ASSUME Good, Frames, PendingFresh, NEW t \in Threads, Calm(t) \/ Appends(t)
  PROVE  Well' /\ Typed /\ \A r \in Ranks : RankStep(r)
<1>1. CASE Calm(t)
  BY <1>1, CalmRanks DEF RankStep, ServeStep
<1>2. CASE Appends(t)
  <2> DEFINE s == AddRank(t)
             id == api[t].id
  <2>1. /\ Places' /\ Typed /\ QueueHeads' /\ WorkHeads'
        /\ \A r \in Ranks \ {s} : Untouched(r)
        /\ s \in Ranks /\ id \in Ids(program) /\ ~(jobs[s] = <<>> /\ InQueue(s))
    BY <1>2, AppendsStep
  <2>2. \A r : r = s => Grows(r, id)
    BY <1>2, AppendsStep
  <2>3. api[t].pc \in {"add", "addqueue"}
    BY <1>2 DEF Appends
  <2>4. s \in RankSet(id) /\ Call(id).op # "free" /\ api[t].i \in DOMAIN RanksOf(id)
        /\ s = RanksOf(id)[api[t].i]
    BY <2>3, AddFacts DEF Good
  <2>5. NewTo(id, s)
    <3>1. api[t].i \in Nat
      <4>1. RanksOf(id) \in Seq(Ranks)
        BY <2>1, CallFacts DEF Good
      <4>2. QED
        BY <2>4, <4>1
    <3>2. QED
      BY <2>3, <2>4, <3>1 DEF PendingFresh, NewTo
  <2>6. \A r : r = s => Gains(r)
    <3> HIDE DEF s, id
    <3>1. QED
      BY <2>1, <2>2, <2>4, <2>5 DEF Gains
  <2>7. QED
    BY <2>1, <2>6 DEF RankStep, ServeStep, Well
<1>3. QED
  BY <1>1, <1>2

-----------------------------------------------------------------------------
(* The FIFOs that are parked.                                               *)
Grown ==
  /\ program' = program /\ DOMAIN call' = Ids(program)
  /\ \A id \in Ids(program) : DOMAIN call'[id] = CallFields /\ Arrived(id) \subseteq call'[id].arrived

LEMMA HeadFacts ==
  ASSUME Shapes, NEW r \in Ranks, jobs[r] # <<>>
  PROVE  /\ Head(jobs[r]) \in JobSet /\ Head(jobs[r]) = jobs[r][1] /\ 1 \in DOMAIN jobs[r]
         /\ Head(jobs[r]).id \in Ids(program)
         /\ Head(jobs[r]) = [type |-> Head(jobs[r]).type, id |-> Head(jobs[r]).id]
<1>1. jobs[r] \in Seq(JobSet)
  BY DEF Shapes
<1>2. /\ Head(jobs[r]) \in JobSet /\ Head(jobs[r]) = jobs[r][1] /\ 1 \in DOMAIN jobs[r]
  <2> DEFINE fifo == jobs[r]
  <2>1. fifo \in Seq(JobSet) /\ fifo # <<>>
    BY <1>1
  <2> HIDE DEF fifo
  <2>2. Head(fifo) \in JobSet /\ Head(fifo) = fifo[1] /\ 1 \in DOMAIN fifo
    BY <2>1, TailFacts
  <2>3. QED
    BY <2>2 DEF fifo
<1>3. QED
  BY <1>2 DEF JobSet

LEMMA CbJobs ==
  ASSUME NEW a, NEW b, CbJob(a) = CbJob(b)
  PROVE  a = b
BY DEF CbJob

(* A rank is parked while the head of its FIFO is the same callback. *)
LEMMA ParkedHead ==
  ASSUME Shapes, Grown, NEW r \in Ranks, jobs[r] # <<>>, Head(jobs'[r]) = Head(jobs[r]), Parked(r)
  PROVE  Parked(r)'
<1>1. Head(jobs[r]).id \in Ids(program)
  BY HeadFacts
<1>2. \A id \in Ids(program) : Call(id)' = Call(id) /\ Arrived(id) \subseteq call'[id].arrived
  BY DEF Grown, Call
<1>3. QED
  BY <1>1, <1>2 DEF Parked, Arrived

(* A rank that is parked stays so until the callback is removed from its *)
(* FIFO. *)
LEMMA ParkedStays ==
  ASSUME NEW r \in Ranks, RankStep(r), NEW id, ParkedUnder(r, id), ~Loses(r)
  PROVE  ParkedUnder(r, id)'
<1>1. jobs[r] # <<>> /\ Head(jobs[r]) = CbJob(id) /\ ~InQueue(r) /\ ~Served(r)
  BY DEF ParkedUnder
<1>2. CASE Untouched(r)
  BY <1>1, <1>2 DEF Untouched, ParkedUnder
<1>3. CASE Gains(r)
  BY <1>1, <1>3 DEF Gains, Grows, ParkedUnder
<1>4. QED
  BY <1>1, <1>2, <1>3 DEF RankStep, ServeStep, Sleeps, Hands

(* A FIFO with jobs is queued, with a worker or parked. *)
LEMMA GoesOnStep ==
  ASSUME Shapes, Grown, GoesOn, NEW r \in Ranks, RankStep(r), Sleeps(r) => Parked(r)',
         jobs'[r] # <<>>
  PROVE  InQueue(r)' \/ Served(r)' \/ Parked(r)'
<1>1. CASE Untouched(r)
  <2>1. InQueue(r) \/ Served(r) \/ Parked(r)
    BY <1>1 DEF Untouched, GoesOn
  <2>2. Parked(r) => Parked(r)'
    BY <1>1, ParkedHead DEF Untouched
  <2>3. QED
    BY <1>1, <2>1, <2>2 DEF Untouched
<1>2. CASE Gains(r)
  <2>1. CASE jobs[r] = <<>>
    BY <1>2, <2>1 DEF Gains, Grows
  <2>2. CASE jobs[r] # <<>>
    <3>1. InQueue(r) \/ Served(r) \/ Parked(r)
      BY <2>2 DEF GoesOn
    <3>2. (InQueue(r)' <=> InQueue(r)) /\ (Served(r)' <=> Served(r)) /\ Head(jobs'[r]) = Head(jobs[r])
      BY <1>2, <2>2 DEF Gains, Grows
    <3>3. Parked(r) => Parked(r)'
      BY <2>2, <3>2, ParkedHead
    <3>4. QED
      BY <3>1, <3>2, <3>3
  <2>3. QED
    BY <2>1, <2>2
<1>3. CASE Loses(r)
  BY <1>3 DEF Loses, Shrinks
<1>4. CASE Hands(r)
  BY <1>4 DEF Hands
<1>5. QED
  BY <1>1, <1>2, <1>3, <1>4 DEF RankStep, ServeStep

(* The ranks of a callback that has not begun stay parked.                  *)
LEMMA GatheringStep ==
  ASSUME Shapes, Calling, Gathering, NEW id \in Ids(program), Blocks(id),
         ~(RankSet(id) \subseteq Arrived(id)), NEW r \in Arrived(id), RankStep(r)
  PROVE  ParkedUnder(r, id)'
<1>1. r \in Ranks
  BY DEF Shapes
<1>2. ParkedUnder(r, id)
  BY DEF Gathering
<1>3. ~Loses(r)
  <2>1. SUFFICES ASSUME Loses(r) PROVE FALSE
    OBVIOUS
  <2>2. PICK w \in Workers : AdvancesOther(w) /\ ParkedUnder(r, Cb(w))
    BY <1>2, <2>1 DEF Loses, ParkedUnder
  <2>3. Cb(w) = id
    BY <1>2, <2>2, CbJobs DEF ParkedUnder
  <2>4. work[w].pc = "global"
    BY <2>2 DEF AdvancesOther
  <2>5. RankSet(id) \subseteq Arrived(id)
    BY <2>3, <2>4 DEF Calling, CbPhase
  <2>6. QED
    BY <2>5
<1>4. QED
  BY <1>1, <1>2, <1>3, ParkedStays

(* A callback of r that has begun does not come back.                       *)
LEMMA OnceOnlyStep ==
  ASSUME Shapes, OnceOnly, NEW id \in Ids(program), NEW r \in Arrived(id), RankStep(r)
  PROVE  /\ CbJob(id) \in DOMAIN outcome'[r]
         /\ \A n \in DOMAIN jobs'[r] : jobs'[r][n] = CbJob(id) =>
              n = 1 /\ ~InQueue(r)' /\ ~Ahead(r)'
<1>1. r \in Ranks /\ jobs[r] \in Seq(JobSet)
  BY DEF Shapes
<1>2. /\ CbJob(id) \in DOMAIN outcome[r]
      /\ \A n \in DOMAIN jobs[r] : jobs[r][n] = CbJob(id) => n = 1 /\ ~InQueue(r) /\ ~Ahead(r)
  BY DEF OnceOnly
<1>3. CASE Untouched(r)
  BY <1>2, <1>3 DEF Untouched
<1>4. CASE Sleeps(r)
  BY <1>2, <1>4 DEF Sleeps
<1>5. CASE Hands(r)
  BY <1>2, <1>5 DEF Hands
<1>6. CASE Loses(r)
  <2>1. jobs'[r] = Tail(jobs[r]) /\ jobs[r] # <<>> /\ DOMAIN outcome'[r] = DOMAIN outcome[r]
    BY <1>6 DEF Loses, Shrinks, Shortens
  <2> DEFINE fifo == jobs[r]
  <2>2. fifo \in Seq(JobSet) /\ fifo # <<>> /\ jobs'[r] = Tail(fifo)
    BY <1>1, <2>1
  <2> HIDE DEF fifo
  <2>3. ASSUME NEW n \in DOMAIN jobs'[r] PROVE n # 0 /\ n + 1 \in DOMAIN fifo /\ jobs'[r][n] = fifo[n + 1] /\ n + 1 # 1
    <3>1. /\ Len(fifo) \in Nat /\ DOMAIN fifo = 1..Len(fifo)
          /\ DOMAIN Tail(fifo) = 1..(Len(fifo) - 1)
          /\ \A m \in 1..(Len(fifo) - 1) : Tail(fifo)[m] = fifo[m + 1]
      BY <2>2, TailFacts
    <3>2. n \in 1..(Len(fifo) - 1)
      BY <2>2, <2>3, <3>1
    <3>3. n # 0 /\ n + 1 \in 1..Len(fifo) /\ n + 1 # 1
      BY <3>1, <3>2
    <3>4. QED
      BY <2>2, <3>1, <3>2, <3>3
  <2>4. \A m \in DOMAIN fifo : fifo[m] = CbJob(id) => m = 1
    BY <1>2 DEF fifo
  <2>5. QED
    BY <1>2, <2>1, <2>3, <2>4
<1>7. CASE Gains(r)
  <2>1. PICK c \in Ids(program) : /\ Grows(r, c) /\ Call(c).op # "free" /\ NewTo(c, r)
                                  /\ ~(jobs[r] = <<>> /\ InQueue(r))
    BY <1>7 DEF Gains
  <2> DEFINE batch == JobsOf(program, c)
             fifo == jobs[r]
  <2>2. /\ jobs'[r] = fifo \o batch
        /\ DOMAIN outcome[r] \subseteq DOMAIN outcome'[r]
        /\ jobs[r] # <<>> => (InQueue(r)' <=> InQueue(r))
        /\ Ahead(r)' <=> Ahead(r)
    BY <2>1 DEF Grows
  <2>3. /\ batch \in Seq(JobSet) /\ Len(batch) \in {1, 2} /\ Len(batch) = Need(c)
        /\ \A n \in 1..Need(c) : batch[n].id = c
    BY <2>1, BatchFacts
  <2>4. c # id
    BY <1>2, <2>1 DEF NewTo, CbJob
  <2>5. fifo \in Seq(JobSet) /\ \A m \in DOMAIN fifo : fifo[m] = CbJob(id) => m = 1 /\ ~InQueue(r) /\ ~Ahead(r)
    BY <1>1, <1>2
  <2>6. \A m \in DOMAIN fifo : jobs[r] # <<>>
    BY <1>1
  <2> HIDE DEF batch, fifo
  <2>7. batch # <<>>
    <3>1. batch = <<>> => Len(batch) = 0
      BY <2>3, EmptyFacts
    <3>2. ASSUME NEW n \in {1, 2} PROVE n # 0
      OBVIOUS
    <3>3. QED
      BY <2>3, <3>1, <3>2, Zenon
  <2>8. /\ Len(fifo) \in Nat /\ Len(batch) \in Nat /\ DOMAIN fifo = 1..Len(fifo)
        /\ DOMAIN (fifo \o batch) = 1..(Len(fifo) + Len(batch))
        /\ \A n \in 1..Len(fifo) : (fifo \o batch)[n] = fifo[n]
        /\ \A n \in 1..(Len(fifo) + Len(batch)) : n > Len(fifo) =>
             n - Len(fifo) \in 1..Len(batch) /\ (fifo \o batch)[n] = batch[n - Len(fifo)]
    BY <2>3, <2>5, <2>7, ConcatFacts
  <2>9. ASSUME NEW n \in DOMAIN jobs'[r], jobs'[r][n] = CbJob(id)
        PROVE  n \in DOMAIN fifo /\ fifo[n] = CbJob(id)
    <3>1. n \in 1..(Len(fifo) + Len(batch))
      BY <2>2, <2>8, <2>9
    <3>2. ~(n > Len(fifo))
      <4>1. SUFFICES ASSUME n > Len(fifo) PROVE FALSE
        OBVIOUS
      <4>2. n - Len(fifo) \in 1..Need(c) /\ jobs'[r][n] = batch[n - Len(fifo)]
        BY <2>2, <2>3, <2>8, <3>1, <4>1
      <4>3. CbJob(id).id = c
        BY <2>3, <2>9, <4>2
      <4>4. QED
        BY <2>4, <4>3 DEF CbJob
    <3>3. n \in 1..Len(fifo)
      BY <2>8, <3>1, <3>2
    <3>4. QED
      BY <2>2, <2>8, <2>9, <3>3
  <2>10. QED
    BY <1>2, <2>2, <2>5, <2>6, <2>9
<1>8. QED
  BY <1>3, <1>4, <1>5, <1>6, <1>7 DEF RankStep, ServeStep

(* The jobs of a FIFO are those submitted to it, each once.                 *)
Apiece(r) ==
  /\ \A m, n \in DOMAIN jobs[r] : jobs[r][m] = jobs[r][n] => m = n
  /\ \A n \in DOMAIN jobs[r] :
       /\ jobs[r][n] \in DOMAIN outcome[r]
       /\ jobs[r][n].id \in Ids(program) /\ r \in RankSet(jobs[r][n].id)
       /\ jobs[r][n].type = "callback" => Call(jobs[r][n].id).op = "callback"

LEMMA ApieceStep ==
  ASSUME Shapes, program' = program, NEW r \in Ranks, Apiece(r), RankStep(r)
  PROVE  Apiece(r)'
<1>1. jobs[r] \in Seq(JobSet)
  BY DEF Shapes
<1>2. \A id : Call(id)' = Call(id) /\ RankSet(id)' = RankSet(id)
  BY SameCalls
<1>3. CASE jobs'[r] = jobs[r] /\ DOMAIN outcome'[r] = DOMAIN outcome[r]
  BY <1>2, <1>3 DEF Apiece
<1>4. CASE Loses(r)
  <2>1. jobs'[r] = Tail(jobs[r]) /\ jobs[r] # <<>> /\ DOMAIN outcome'[r] = DOMAIN outcome[r]
    BY <1>4 DEF Loses, Shrinks, Shortens
  <2> DEFINE fifo == jobs[r]
  <2>2. fifo \in Seq(JobSet) /\ fifo # <<>> /\ jobs'[r] = Tail(fifo)
    BY <1>1, <2>1
  <2>3. /\ \A m, n \in DOMAIN fifo : fifo[m] = fifo[n] => m = n
        /\ \A n \in DOMAIN fifo :
             /\ fifo[n] \in DOMAIN outcome[r]
             /\ fifo[n].id \in Ids(program) /\ r \in RankSet(fifo[n].id)
             /\ fifo[n].type = "callback" => Call(fifo[n].id).op = "callback"
    BY DEF Apiece
  <2> HIDE DEF fifo
  <2>4. ASSUME NEW n \in DOMAIN jobs'[r]
        PROVE  n \in Nat /\ n + 1 \in DOMAIN fifo /\ jobs'[r][n] = fifo[n + 1]
    <3>1. /\ Len(fifo) \in Nat /\ DOMAIN fifo = 1..Len(fifo)
          /\ DOMAIN Tail(fifo) = 1..(Len(fifo) - 1)
          /\ \A m \in 1..(Len(fifo) - 1) : Tail(fifo)[m] = fifo[m + 1]
      BY <2>2, TailFacts
    <3>2. n \in 1..(Len(fifo) - 1)
      BY <2>2, <2>4, <3>1
    <3>3. n \in Nat /\ n + 1 \in 1..Len(fifo)
      BY <3>1, <3>2
    <3>4. QED
      BY <2>2, <3>1, <3>2, <3>3
  <2>5. ASSUME NEW m \in DOMAIN jobs'[r], NEW n \in DOMAIN jobs'[r], jobs'[r][m] = jobs'[r][n]
        PROVE  m = n
    <3>1. m + 1 = n + 1
      BY <2>3, <2>4, <2>5
    <3>2. QED
      BY <2>4, <3>1
  <2>6. ASSUME NEW n \in DOMAIN jobs'[r]
        PROVE  /\ jobs'[r][n] \in DOMAIN outcome'[r]
               /\ jobs'[r][n].id \in Ids(program) /\ r \in RankSet(jobs'[r][n].id)
               /\ jobs'[r][n].type = "callback" => Call(jobs'[r][n].id).op = "callback"
    BY <2>1, <2>3, <2>4
  <2>7. QED
    BY <1>2, <2>5, <2>6 DEF Apiece
<1>5. CASE Gains(r)
  <2>1. PICK c \in Ids(program) : /\ Grows(r, c) /\ Call(c).op # "free" /\ NewTo(c, r)
                                  /\ r \in RankSet(c)
    BY <1>5 DEF Gains
  <2> DEFINE batch == JobsOf(program, c)
             fifo == jobs[r]
  <2>2. /\ jobs'[r] = fifo \o batch
        /\ DOMAIN outcome'[r] = DOMAIN outcome[r] \cup {batch[n] : n \in 1..Need(c)}
    BY <2>1 DEF Grows
  <2>3. /\ batch \in Seq(JobSet) /\ Len(batch) \in {1, 2} /\ Len(batch) = Need(c)
        /\ \A n \in 1..Need(c) : batch[n].id = c
        /\ \A m, n \in 1..Need(c) : batch[m] = batch[n] => m = n
        /\ \A n \in 1..Need(c) : batch[n].type = "callback" => Call(c).op = "callback"
    BY <2>1, BatchFacts
  <2>4. /\ \A m, n \in DOMAIN fifo : fifo[m] = fifo[n] => m = n
        /\ \A n \in DOMAIN fifo :
             /\ fifo[n] \in DOMAIN outcome[r]
             /\ fifo[n].id \in Ids(program) /\ r \in RankSet(fifo[n].id)
             /\ fifo[n].type = "callback" => Call(fifo[n].id).op = "callback"
    BY DEF Apiece
  <2>5. fifo \in Seq(JobSet)
    BY <1>1
  <2> HIDE DEF batch, fifo
  <2>6. batch # <<>>
    <3>1. batch = <<>> => Len(batch) = 0
      BY <2>3, EmptyFacts
    <3>2. ASSUME NEW n \in {1, 2} PROVE n # 0
      OBVIOUS
    <3>3. QED
      BY <2>3, <3>1, <3>2, Zenon
  <2>7. /\ Len(fifo) \in Nat /\ Len(batch) \in Nat /\ DOMAIN fifo = 1..Len(fifo)
        /\ DOMAIN (fifo \o batch) = 1..(Len(fifo) + Len(batch))
        /\ \A n \in 1..Len(fifo) : (fifo \o batch)[n] = fifo[n]
        /\ \A n \in 1..(Len(fifo) + Len(batch)) : n > Len(fifo) =>
             n - Len(fifo) \in 1..Len(batch) /\ (fifo \o batch)[n] = batch[n - Len(fifo)]
    BY <2>3, <2>5, <2>6, ConcatFacts
  <2>8. ASSUME NEW n \in DOMAIN jobs'[r]
        PROVE  \/ n \in DOMAIN fifo /\ jobs'[r][n] = fifo[n]
               \/ /\ n \in Int /\ n - Len(fifo) \in 1..Need(c)
                  /\ jobs'[r][n] = batch[n - Len(fifo)]
    <3>1. n \in 1..(Len(fifo) + Len(batch))
      BY <2>2, <2>7, <2>8
    <3>2. CASE n > Len(fifo)
      BY <2>2, <2>3, <2>7, <3>1, <3>2
    <3>3. CASE ~(n > Len(fifo))
      <4>1. n \in 1..Len(fifo)
        BY <2>7, <3>1, <3>3
      <4>2. QED
        BY <2>2, <2>7, <4>1
    <3>4. QED
      BY <3>2, <3>3
  <2>9. \A n \in DOMAIN fifo : fifo[n].id # c
    BY <2>1, <2>4 DEF NewTo
  <2>10. ASSUME NEW m \in DOMAIN jobs'[r], NEW n \in DOMAIN jobs'[r], jobs'[r][m] = jobs'[r][n]
         PROVE  m = n
    <3>1. CASE m \in DOMAIN fifo /\ n \in DOMAIN fifo /\ jobs'[r][m] = fifo[m] /\ jobs'[r][n] = fifo[n]
      BY <2>4, <2>10, <3>1
    <3>2. CASE /\ m \in Int /\ n \in Int
               /\ m - Len(fifo) \in 1..Need(c) /\ n - Len(fifo) \in 1..Need(c)
               /\ jobs'[r][m] = batch[m - Len(fifo)] /\ jobs'[r][n] = batch[n - Len(fifo)]
      <4>1. m - Len(fifo) = n - Len(fifo)
        BY <2>3, <2>10, <3>2
      <4>2. QED
        BY <2>7, <3>2, <4>1
    <3>3. QED
      BY <2>3, <2>8, <2>9, <2>10, <3>1, <3>2
  <2>11. ASSUME NEW n \in DOMAIN jobs'[r]
         PROVE  /\ jobs'[r][n] \in DOMAIN outcome'[r]
                /\ jobs'[r][n].id \in Ids(program) /\ r \in RankSet(jobs'[r][n].id)
                /\ jobs'[r][n].type = "callback" => Call(jobs'[r][n].id).op = "callback"
    <3>1. CASE n \in DOMAIN fifo /\ jobs'[r][n] = fifo[n]
      BY <2>2, <2>4, <3>1
    <3>2. CASE n - Len(fifo) \in 1..Need(c) /\ jobs'[r][n] = batch[n - Len(fifo)]
      BY <2>1, <2>2, <2>3, <3>2
    <3>3. QED
      BY <2>8, <3>1, <3>2
  <2>12. QED
    BY <1>2, <2>10, <2>11 DEF Apiece
<1>6. QED
  BY <1>3, <1>4, <1>5 DEF RankStep, ServeStep, Untouched, Sleeps, Hands

-----------------------------------------------------------------------------
(* A worker that comes to a callback job.                                   *)
LEMMA AtCallback ==
  ASSUME Good, Distinct, OnceOnly, NEW w \in Workers, Reaches(w),
         NEW s, s = work[w].rank, NEW id, id = Cb(w)
  PROVE  /\ s \in Ranks /\ jobs[s] # <<>> /\ Served(s) /\ ~InQueue(s) /\ ~OtherAhead(w, s)
         /\ work[w].job = CbJob(id) /\ id \in Ids(program) /\ Call(id).op = "callback"
         /\ Head(jobs[s]) = CbJob(id) /\ s \in RankSet(id) /\ s \notin Arrived(id)
         /\ CbJob(id) \in DOMAIN outcome[s]
         /\ \A n \in DOMAIN jobs[s] : jobs[s][n] = CbJob(id) => n = 1
<1>1. work[w].pc = "run" /\ work[w].job.type = "callback"
  BY DEF Reaches
<1>2. HasFifo(w)
  BY <1>1 DEF HasFifo
<1>3. s \in Ranks /\ jobs[s] # <<>> /\ Served(s) /\ ~InQueue(s) /\ ~OtherAhead(w, s)
  BY <1>2, Serving1 DEF Good
<1>4. work[w].job = Head(jobs[s])
  BY <1>1, <1>2 DEF Good, WorkHeads
<1>5. /\ Head(jobs[s]) = jobs[s][1] /\ 1 \in DOMAIN jobs[s] /\ id \in Ids(program)
      /\ work[w].job = [type |-> work[w].job.type, id |-> id]
  BY <1>3, <1>4, HeadFacts DEF Good, Cb
<1>6. work[w].job = CbJob(id)
  BY <1>1, <1>5 DEF CbJob
<1>7. jobs[s][1] = CbJob(id)
  BY <1>4, <1>5, <1>6
<1>8. /\ CbJob(id) \in DOMAIN outcome[s] /\ s \in RankSet(id) /\ Call(id).op = "callback"
      /\ \A n \in DOMAIN jobs[s] : jobs[s][n] = CbJob(id) => n = 1
  <2>1. jobs[s][1].id = id /\ jobs[s][1].type = "callback"
    BY <1>7 DEF CbJob
  <2>2. QED
    BY <1>3, <1>5, <1>7, <2>1 DEF Distinct
<1>9. Ahead(s)
  BY <1>1 DEF Ahead
<1>10. s \notin Arrived(id)
  BY <1>5, <1>7, <1>9 DEF OnceOnly
<1>11. QED
  BY <1>3, <1>4, <1>5, <1>6, <1>7, <1>8, <1>10

(* After the arrival nobody is about to begin with the first job of the *)
(* rank. *)
LEMMA ReachKinds ==
  ASSUME Good, NEW w \in Workers, Worked(w), Parks(w) \/ Passes(w) \/ Lasts(w),
         NEW s, s = work[w].rank
  PROVE  ~InQueue(s)' /\ ~Ahead(s)' /\ Still
<1>1. Still /\ work[w].pc = "run" /\ work'[w].pc \in {"take", "advance", "cbpop", "cblock", "cbstart"}
  BY DEF Parks, Passes, Lasts, Reaches
<1>2. HasFifo(w)
  BY <1>1 DEF HasFifo
<1>3. ~InQueue(s) /\ ~OtherAhead(w, s)
  BY <1>2, Serving1 DEF Good
<1>4. ~Ahead(s)'
  BY <1>1, <1>3, ServedSplit
<1>5. ~InQueue(s)'
  BY <1>1, <1>3 DEF Still, InQueue
<1>6. QED
  BY <1>1, <1>4, <1>5

-----------------------------------------------------------------------------
(* What a step of a worker keeps.                                           *)
Aside == GoesOn /\ Gathering /\ OnceOnly /\ Distinct

(* At most one rank arrives at one callback. *)
LEMMA DoesGrow ==
  ASSUME Shapes, NEW w \in Workers, Does(w)
  PROVE  /\ Grown
         /\ SameArrived \/ ((Parks(w) \/ Passes(w) \/ Lasts(w)) /\ Arriving(w) /\ Reaches(w))
<1>1. program' = program
  BY DEF Does, Worked
<1>2. SameArrived \/ ((Parks(w) \/ Passes(w) \/ Lasts(w)) /\ Arriving(w) /\ Reaches(w))
  <2>1. CASE Parks(w) \/ Passes(w) \/ Lasts(w)
    <3>1. Reaches(w)
      BY <2>1 DEF Parks, Passes, Lasts
    <3>2. QED
      BY <2>1, <3>1 DEF Reaches
  <2>2. CASE ~(Parks(w) \/ Passes(w) \/ Lasts(w))
    <3>1. Kinds(w)
      BY DEF Does
    <3>2. SameArrived
      BY <2>2, <3>1 DEF Kinds, Moves, Rests, Takes, Pops, Inserts, AdvancesOther, Fails, Drops
    <3>3. QED
      BY <3>2
  <2>3. QED
    BY <2>1, <2>2
<1>3. CASE SameArrived
  <2>1. Grown
    BY <1>1, <1>3 DEF SameArrived, Grown
  <2>2. QED
    BY <1>2, <2>1
<1>4. CASE Arriving(w)
  <2>1. Grown
    BY <1>1, <1>4 DEF Arriving, Grown
  <2>2. QED
    BY <1>2, <2>1
<1>5. QED
  BY <1>2, <1>3, <1>4

(* Parks leaves the rank parked in the sense of the specification. *)
LEMMA ParksParked ==
  ASSUME Good, Distinct, OnceOnly, program' = program, NEW w \in Workers, Parks(w), NEW s, s = work[w].rank
  PROVE  Parked(s)'
<1> DEFINE id == Cb(w)
<1>1. /\ s \in Ranks /\ Head(jobs[s]) = CbJob(id) /\ id \in Ids(program)
  BY AtCallback DEF Parks
<1>2. jobs' = jobs /\ s \in call'[id].arrived /\ UsesMaster(Call(id)) /\ ~Call(id).nonblocking
  BY <1>1 DEF Parks, Reaches, Still, Arriving, Single, Blocking
<1>5. CallOf(program', id) = Call(id)
  BY DEF Call
<1> HIDE DEF id
<1>4. Head(jobs'[s]) = CbJob(id) /\ CbJob(id).type = "callback" /\ CbJob(id).id = id
  BY <1>1, <1>2 DEF CbJob
<1>6. QED
  BY <1>2, <1>4, <1>5 DEF Parked, Call

(* A worker keeps the parts about callbacks that have arrived. *)
LEMMA WorkAside ==
  ASSUME Good, Aside, Gathered, NEW w \in Workers, Does(w), \A r \in Ranks : RankStep(r)
  PROVE  Aside'
<1>1. /\ Shapes /\ Calling /\ GoesOn /\ Gathering /\ OnceOnly /\ Distinct
      /\ Worked(w) /\ program' = program
  BY DEF Good, Aside, Does, Worked
<1>2. /\ Grown
      /\ SameArrived \/ ((Parks(w) \/ Passes(w) \/ Lasts(w)) /\ Arriving(w) /\ Reaches(w))
  BY <1>1, DoesGrow
<1>3. \A id : /\ Call(id)' = Call(id) /\ RankSet(id)' = RankSet(id) /\ (Blocks(id)' <=> Blocks(id))
  BY <1>1, SameCalls
<1>4. GoesOn'
  <2>1. ASSUME NEW r \in Ranks, jobs'[r] # <<>> PROVE InQueue(r)' \/ Served(r)' \/ Parked(r)'
    <3>1. Sleeps(r) => Parked(r)'
      BY <1>1, ParksParked DEF Sleeps
    <3>2. QED
      BY <1>1, <1>2, <2>1, <3>1, GoesOnStep
  <2>2. QED
    BY <2>1 DEF GoesOn
(* The rank that arrives, if one does.                                      *)
<1>5. ASSUME NEW id \in Ids(program), NEW r \in call'[id].arrived, r \notin Arrived(id)
      PROVE  /\ Parks(w) \/ Passes(w) \/ Lasts(w)
             /\ Arriving(w) /\ Reaches(w) /\ id = Cb(w) /\ r = work[w].rank
  <2>1. ~SameArrived
    BY <1>5 DEF SameArrived
  <2>2. QED
    BY <1>2, <1>5, <2>1 DEF Arriving
<1>6. ASSUME NEW id \in Ids(program), Blocks(id), ~(RankSet(id) \subseteq call'[id].arrived),
             NEW r \in call'[id].arrived
      PROVE  ParkedUnder(r, id)'
  <2>1. CASE r \in Arrived(id)
    <3>1. ~(RankSet(id) \subseteq Arrived(id)) /\ r \in Ranks
      BY <1>1, <1>2, <1>6, <2>1 DEF Grown, Shapes
    <3>2. QED
      BY <1>1, <1>6, <2>1, <3>1, GatheringStep
  <2>2. CASE r \notin Arrived(id)
    <3>1. /\ Parks(w) \/ Passes(w) \/ Lasts(w)
          /\ Arriving(w) /\ Reaches(w) /\ id = Cb(w) /\ r = work[w].rank
      BY <1>5, <2>2
    <3>2. Blocking(w) /\ Single(w)
      BY <1>6, <3>1 DEF Blocks, Blocking, Single
    <3>3. ~Passes(w)
      BY <3>2 DEF Passes
    <3>4. ~Lasts(w)
      <4>1. SUFFICES ASSUME Lasts(w) PROVE RankSet(id) \subseteq call'[id].arrived
        BY <1>6
      <4>2. Others(w) = {}
        BY <3>2, <4>1 DEF Lasts
      <4>3. call'[id].arrived = Arrived(id) \cup {r}
        BY <3>1 DEF Arriving
      <4>4. QED
        BY <3>1, <4>2, <4>3 DEF Others, Arrived
    <3>5. Parks(w)
      BY <3>1, <3>3, <3>4
    <3>6. Head(jobs[r]) = CbJob(id)
      BY <1>1, <3>1, AtCallback
    <3>7. jobs[r] # <<>> /\ jobs' = jobs /\ ~InQueue(r)' /\ ~Served(r)'
      BY <1>1, <3>1, <3>5, ParksStep
    <3>8. QED
      BY <3>6, <3>7 DEF ParkedUnder
  <2>3. QED
    BY <2>1, <2>2
<1>7. Gathering'
  <2>1. \A id \in Ids(program') : Blocks(id)' /\ ~(RankSet(id)' \subseteq call'[id].arrived) =>
          \A r \in call'[id].arrived : ParkedUnder(r, id)'
    BY <1>1, <1>3, <1>6
  <2>2. QED
    BY <2>1 DEF Gathering, Arrived
<1>8. ASSUME NEW id \in Ids(program), NEW r \in call'[id].arrived
      PROVE  /\ CbJob(id) \in DOMAIN outcome'[r]
             /\ \A n \in DOMAIN jobs'[r] : jobs'[r][n] = CbJob(id) =>
                  n = 1 /\ ~InQueue(r)' /\ ~Ahead(r)'
  <2>1. CASE r \in Arrived(id)
    <3>1. r \in Ranks
      BY <1>1, <2>1 DEF Shapes
    <3>2. QED
      BY <1>1, <2>1, <3>1, OnceOnlyStep
  <2>2. CASE r \notin Arrived(id)
    <3>1. /\ Parks(w) \/ Passes(w) \/ Lasts(w)
          /\ Arriving(w) /\ Reaches(w) /\ id = Cb(w) /\ r = work[w].rank
      BY <1>5, <2>2
    <3>2. /\ CbJob(id) \in DOMAIN outcome[r]
          /\ \A n \in DOMAIN jobs[r] : jobs[r][n] = CbJob(id) => n = 1
      BY <1>1, <3>1, AtCallback
    <3>3. ~InQueue(r)' /\ ~Ahead(r)' /\ Still
      BY <1>1, <3>1, ReachKinds
    <3>4. QED
      BY <3>2, <3>3 DEF Still
  <2>3. QED
    BY <2>1, <2>2
<1>9. OnceOnly'
  BY <1>1, <1>8 DEF OnceOnly, Arrived
<1>10. Distinct'
  <2>1. \A r \in Ranks : Apiece(r)'
    BY <1>1, ApieceStep DEF Distinct, Apiece
  <2>2. QED
    BY <2>1 DEF Distinct, Apiece
<1>11. QED
  BY <1>4, <1>7, <1>9, <1>10 DEF Aside

(* A worker with a callback.                                                *)
Called(w) ==
  work[w].pc \in CbPhase =>
    /\ work[w].job = CbJob(Cb(w)) /\ Cb(w) \in Ids(program) /\ Call(Cb(w)).op = "callback"
    /\ work[w].rank \in RankSet(Cb(w)) /\ work[w].rank \in Arrived(Cb(w))
    /\ Single(w) => RankSet(Cb(w)) \subseteq Arrived(Cb(w))
    /\ work[w].pc \in {"cbpop", "cbinsert"} => ~Blocking(w)
    /\ work[w].pc \in {"cblock", "global"} => Blocking(w) /\ Single(w)
    /\ work[w].pc = "global" => work[w].k \in Nat \ {0}

(* A worker that goes on with a callback, *)
LEMMA CalledOn ==
  ASSUME Grown, NEW w \in Workers, Called(w), work[w].pc \in CbPhase, SameJob(w),
         work'[w].pc \in {"cbpop", "cbinsert"} => ~Blocking(w),
         work'[w].pc \in {"cblock", "global"} => Blocking(w) /\ Single(w),
         work'[w].pc = "global" => work'[w].k \in Nat \ {0}
  PROVE  Called(w)'
<1>1. program' = program
  BY DEF Grown
<1>2. work'[w].job = work[w].job /\ work'[w].rank = work[w].rank
  BY DEF SameJob
<1>3. Cb(w)' = Cb(w) /\ (Single(w)' <=> Single(w)) /\ (Blocking(w)' <=> Blocking(w))
  BY <1>1, <1>2, SameWorker
<1>4. \A id : Call(id)' = Call(id) /\ RankSet(id)' = RankSet(id)
  BY <1>1, SameCalls
<1> DEFINE id == Cb(w)
<1>5. /\ work[w].job = CbJob(id) /\ id \in Ids(program) /\ Call(id).op = "callback"
      /\ work[w].rank \in RankSet(id) /\ work[w].rank \in Arrived(id)
      /\ Single(w) => RankSet(id) \subseteq Arrived(id)
  BY DEF Called
<1>6. Arrived(id) \subseteq call'[id].arrived
  BY <1>5 DEF Grown
<1>7. /\ work'[w].job = CbJob(id) /\ id \in Ids(program') /\ CallOf(program', id).op = "callback"
      /\ work'[w].rank \in RankSet(id) /\ work'[w].rank \in call'[id].arrived
      /\ Single(w) => RankSet(id) \subseteq call'[id].arrived
  BY <1>1, <1>2, <1>5, <1>6 DEF Call
<1> HIDE DEF id
<1>8. Cb(w)' = id
  BY <1>3 DEF id
<1>9. \A x : x = id => /\ Arrived(x)' = call'[id].arrived /\ RankSet(x)' = RankSet(id)
                       /\ Call(x)' = CallOf(program', id) /\ CbJob(x) = CbJob(id)
  BY <1>4 DEF Arrived, Call
<1>10. /\ Arrived(Cb(w))' = call'[id].arrived /\ RankSet(Cb(w))' = RankSet(id)
       /\ Call(Cb(w))' = CallOf(program', id) /\ CbJob(Cb(w))' = CbJob(id)
  BY <1>8, <1>4 DEF Arrived, Call, CbJob, RankSet, RanksOf
<1>11. QED
  BY <1>3, <1>7, <1>8, <1>10 DEF Called

(* one that comes to it last, *)
LEMMA LastsCalled ==
  ASSUME Good, Distinct, OnceOnly, NEW w \in Workers, Worked(w), Lasts(w)
  PROVE  Called(w)'
<1> DEFINE id == Cb(w)
<1>1. Reaches(w) /\ SameJob(w) /\ program' = program
  BY DEF Lasts, Worked
<1>2. /\ work[w].job = CbJob(id) /\ id \in Ids(program) /\ Call(id).op = "callback"
      /\ work[w].rank \in RankSet(id)
  BY <1>1, AtCallback
<1>3. work'[w].job = work[w].job /\ work'[w].rank = work[w].rank
  BY <1>1 DEF SameJob
<1>4. Cb(w)' = id /\ (Single(w)' <=> Single(w)) /\ (Blocking(w)' <=> Blocking(w))
  BY <1>1, <1>3, SameWorker
<1>5. call'[id].arrived = Arrived(id) \cup {work[w].rank}
  BY <1>1, <1>2 DEF Reaches, Arriving
<1>6. Single(w) => RankSet(id) \subseteq call'[id].arrived
  BY <1>5 DEF Lasts, Others, Arrived
<1>7. /\ work'[w].pc \in {"cbpop", "cbinsert"} => ~Blocking(w)
      /\ work'[w].pc \in {"cblock", "global"} => Blocking(w) /\ Single(w)
      /\ work'[w].pc # "global"
  BY DEF Lasts
<1>8. /\ work'[w].job = CbJob(id) /\ id \in Ids(program') /\ CallOf(program', id).op = "callback"
      /\ work'[w].rank \in RankSet(id) /\ work'[w].rank \in call'[id].arrived
  BY <1>1, <1>2, <1>3, <1>5 DEF Call
<1> HIDE DEF id
<1>9. /\ Arrived(Cb(w))' = call'[id].arrived /\ RankSet(Cb(w))' = RankSet(id)
      /\ Call(Cb(w))' = CallOf(program', id) /\ CbJob(Cb(w))' = CbJob(id)
  BY <1>1, <1>4 DEF Arrived, Call, CbJob, RankSet, RanksOf
<1>10. QED
  BY <1>4, <1>6, <1>7, <1>8, <1>9 DEF Called

(* and the others. *)
LEMMA OtherCalled ==
  ASSUME Grown, NEW v \in Workers, Called(v), work'[v] = work[v]
  PROVE  Called(v)'
<1>1. CASE work[v].pc \in CbPhase
  <2>1. /\ work[v].pc \in {"cbpop", "cbinsert"} => ~Blocking(v)
        /\ work[v].pc \in {"cblock", "global"} => Blocking(v) /\ Single(v)
        /\ work[v].pc = "global" => work[v].k \in Nat \ {0}
    BY <1>1 DEF Called
  <2>2. QED
    BY <1>1, <2>1, CalledOn DEF SameJob
<1>2. CASE work[v].pc \notin CbPhase
  BY <1>2 DEF Called
<1>3. QED
  BY <1>1, <1>2

LEMMA WorkCalling ==
  ASSUME Good, Aside, NEW w \in Workers, Does(w)
  PROVE  Calling'
<1>1. /\ Shapes /\ OnceOnly /\ Distinct /\ Worked(w) /\ Kinds(w)
      /\ \A v \in Workers : Called(v)
  BY DEF Good, Aside, Does, Calling, Called
<1>2. Grown
  BY <1>1, DoesGrow
<1>3. \A v \in Workers \ {w} : Called(v)'
  BY <1>1, <1>2, OtherCalled DEF Worked
<1>4. Called(w)'
  <2>1. CASE work'[w].pc \notin CbPhase
    BY <2>1 DEF Called
  <2>2. CASE Lasts(w)
    BY <1>1, <2>2, LastsCalled
  <2>3. CASE work'[w].pc \in CbPhase /\ ~Lasts(w)
    <3>1. Moves(w) \/ Pops(w) \/ Inserts(w) \/ AdvancesOther(w)
      BY <1>1, <2>3 DEF Kinds, CbPhase, Rests, Takes, Parks, Passes, Fails, Drops
    <3>2. CASE Moves(w)
      <4>1. /\ work[w].pc \in CbPhase /\ SameJob(w)
            /\ work'[w].pc \notin {"cbpop", "cbinsert"}
            /\ \/ work'[w].pc \in {"cblock", "global"} => work[w].pc = work'[w].pc
               \/ Blocking(w) /\ Single(w)
            /\ work'[w].pc = "global" => \/ work'[w].k = 1
                                         \/ work[w].pc = "global" /\ work'[w].k \in {work[w].k, work[w].k + 1}
        BY <2>3, <3>2 DEF Moves, CbPhase
      <4>2. /\ work[w].pc \in {"cblock", "global"} => Blocking(w) /\ Single(w)
            /\ work[w].pc = "global" => work[w].k \in Nat \ {0}
        BY <1>1, <4>1 DEF Called
      <4>3. work'[w].pc = "global" => work'[w].k \in Nat \ {0}
        BY <4>1, <4>2
      <4>4. work'[w].pc \in {"cblock", "global"} => Blocking(w) /\ Single(w)
        BY <4>1, <4>2
      <4>5. QED
        BY <1>1, <1>2, <4>1, <4>3, <4>4, CalledOn
    <3>3. CASE Pops(w)
      <4>1. /\ work[w].pc = "cbpop" /\ SameJob(w)
            /\ work'[w].pc \notin {"cblock", "global"}
        BY <2>3, <3>3 DEF Pops, CbPhase
      <4>2. ~Blocking(w)
        BY <1>1, <4>1 DEF Called, CbPhase
      <4>3. work[w].pc \in CbPhase
        BY <4>1 DEF CbPhase
      <4>4. QED
        BY <1>1, <1>2, <4>1, <4>2, <4>3, CalledOn
    <3>4. CASE Inserts(w)
      <4>1. work[w].pc \in CbPhase /\ SameJob(w) /\ work'[w].pc = "cbstart"
        BY <3>4 DEF Inserts, CbPhase
      <4>2. QED
        BY <1>1, <1>2, <4>1, CalledOn
    <3>5. CASE AdvancesOther(w)
      <4>1. /\ work[w].pc = "global" /\ SameJob(w) /\ work'[w].pc = "global"
            /\ work'[w].k = work[w].k + 1
        BY <3>5 DEF AdvancesOther
      <4>2. work[w].pc \in CbPhase
        BY <4>1 DEF CbPhase
      <4>3. Blocking(w) /\ Single(w) /\ work[w].k \in Nat \ {0}
        BY <1>1, <4>1, <4>2 DEF Called
      <4>4. work'[w].k \in Nat \ {0}
        BY <4>1, <4>3
      <4>5. QED
        BY <1>1, <1>2, <4>1, <4>2, <4>3, <4>4, CalledOn
    <3>6. QED
      BY <3>1, <3>2, <3>3, <3>4, <3>5
  <2>4. QED
    BY <2>1, <2>2, <2>3
<1>5. \A v \in Workers : Called(v)'
  BY <1>3, <1>4
<1>6. QED
  BY <1>5 DEF Calling, Called

(* Workers with the same callback.                                          *)
LEMMA WorkApart ==
  ASSUME Good, Aside, Apart, NEW w \in Workers, Does(w)
  PROVE  Apart'
<1>1. /\ OnceOnly /\ Distinct /\ Calling /\ Worked(w) /\ Kinds(w) /\ program' = program
  BY DEF Good, Aside, Does, Worked
<1>2. /\ work'[w].pc \in CbPhase
         => Lasts(w) \/ (work[w].pc \in CbPhase)
      /\ work'[w].pc \in CbPhase => SameJob(w)
  BY <1>1 DEF Kinds, CbPhase, Moves, Rests, Takes, Parks, Passes, Lasts, Pops, Inserts,
              AdvancesOther, Fails, Drops, SameJob
<1>3. \A v \in Workers : work'[v].pc \in CbPhase =>
        /\ work'[v].rank = work[v].rank /\ Cb(v)' = Cb(v) /\ (Single(v)' <=> Single(v))
  <2>1. \A v \in Workers : work'[v].pc \in CbPhase => SameJob(v)
    BY <1>1, <1>2 DEF Worked, SameJob
  <2>2. QED
    BY <1>1, <2>1, SameWorker DEF SameJob
<1>4. ASSUME Lasts(w), NEW u \in Workers, u # w, work[u].pc \in CbPhase, Cb(u) = Cb(w)
      PROVE  ~Single(w) /\ ~Single(u) /\ work[u].rank # work[w].rank
  <2>1. work[w].rank \in RankSet(Cb(w)) /\ work[w].rank \notin Arrived(Cb(w))
    BY <1>1, <1>4, AtCallback DEF Lasts
  <2>2. work[u].rank \in Arrived(Cb(u)) /\ (Single(u) => RankSet(Cb(u)) \subseteq Arrived(Cb(u)))
    BY <1>1, <1>4 DEF Calling
  <2>3. Single(u) <=> Single(w)
    BY <1>4 DEF Single
  <2>4. QED
    BY <1>4, <2>1, <2>2, <2>3
<1>5. \A v \in Workers \ {w} : work'[v] = work[v]
  BY <1>1 DEF Worked
<1>6. ASSUME NEW v \in Workers, NEW u \in Workers, v # u, work'[v].pc \in CbPhase,
             work'[u].pc \in CbPhase, Cb(v)' = Cb(u)'
      PROVE  ~Single(v)' /\ work'[v].rank # work'[u].rank
  <2>1. /\ work'[v].rank = work[v].rank /\ Cb(v)' = Cb(v) /\ (Single(v)' <=> Single(v))
        /\ work'[u].rank = work[u].rank /\ Cb(u)' = Cb(u)
    BY <1>3, <1>6
  <2>2. Cb(v) = Cb(u)
    BY <1>6, <2>1
  <2>3. CASE work[v].pc \in CbPhase /\ work[u].pc \in CbPhase
    BY <1>6, <2>1, <2>2, <2>3 DEF Apart
  <2>4. CASE v = w /\ Lasts(w) /\ work[u].pc \in CbPhase
    BY <1>4, <1>6, <2>1, <2>2, <2>4
  <2>5. CASE u = w /\ Lasts(w) /\ work[v].pc \in CbPhase
    BY <1>4, <1>6, <2>1, <2>2, <2>5
  <2>6. QED
    BY <1>2, <1>5, <1>6, <2>3, <2>4, <2>5
<1>7. QED
  BY <1>6 DEF Apart

(* The other ranks of a callback that blocks them stay parked.              *)
Holding == {"cblock", "cbstart", "cbrun", "global"}

LEMMA HoldsOn ==
  ASSUME Good, Apart, Gathered, NEW v \in Workers, work[v].pc \in Holding,
         Blocking(v), Single(v), NEW id, id = Cb(v), NEW i \in DOMAIN RanksOf(id),
         NEW r, r = RanksOf(id)[i], r # work[v].rank, RankStep(r),
         work[v].pc = "global" => i >= work[v].k,
         AdvancesOther(v) => i >= work[v].k + 1
  PROVE  ParkedUnder(r, id)'
<1>1. ParkedUnder(r, id)
  BY DEF Gathered, Holding
<1>2. /\ id \in Ids(program) /\ work[v].pc = "global" => work[v].k \in Nat \ {0}
      /\ \A x \in Workers : work[x].pc = "global" => Blocking(x) /\ Single(x)
      /\ work[v].pc \in CbPhase
  BY DEF Good, Calling, Holding, CbPhase
<1>5. id \in Ids(program)
  BY <1>2 DEF Good, Calling
<1>3. r \in Ranks /\ RanksOf(id) \in Seq(Ranks)
      /\ \A m, n \in DOMAIN RanksOf(id) : RanksOf(id)[m] = RanksOf(id)[n] => m = n
  BY <1>5, CallFacts DEF Good, CallOK, RanksOf, RankSet
<1>4. ~Loses(r)
  <2>1. SUFFICES ASSUME Loses(r) PROVE FALSE
    OBVIOUS
  <2>2. PICK x \in Workers : AdvancesOther(x) /\ r = GlobalRank(x) /\ ParkedUnder(r, Cb(x))
    BY <1>1, <2>1 DEF Loses, ParkedUnder
  <2>3. Cb(x) = Cb(v) /\ work[x].pc = "global"
    BY <1>1, <2>2, CbJobs DEF ParkedUnder, AdvancesOther
  <2>4. x = v
    BY <1>2, <2>3 DEF Apart, CbPhase
  <2>5. CbRanks(v) = RanksOf(id) /\ work[v].k <= Len(CbRanks(v)) /\ work[v].k \in Nat \ {0}
    <3>1. work[v].k \in Nat \ {0}
      BY <2>3, <2>4 DEF Good, Calling, CbPhase
    <3>2. QED
      BY <2>2, <2>4, <3>1 DEF CbRanks, Single, AdvancesOther
  <2>6. work[v].k \in DOMAIN RanksOf(id) /\ r = RanksOf(id)[work[v].k]
    BY <1>3, <2>2, <2>4, <2>5 DEF GlobalRank
  <2>7. i = work[v].k
    BY <1>3, <2>6
  <2>8. i >= work[v].k + 1
    BY <2>2, <2>4
  <2>9. QED
    BY <2>5, <2>7, <2>8
<1>6. QED
  BY <1>1, <1>3, <1>4, ParkedStays

LEMMA WorkGathered ==
  ASSUME Good, Aside, Apart, Gathered, NEW w \in Workers, Does(w), \A r \in Ranks : RankStep(r)
  PROVE  Gathered'
<1>1. /\ Shapes /\ OnceOnly /\ Distinct /\ Gathering /\ Calling /\ Worked(w) /\ Kinds(w)
      /\ program' = program
  BY DEF Good, Aside, Does, Worked
<1>2. \A id : RanksOf(id)' = RanksOf(id) /\ Call(id)' = Call(id)
  BY <1>1, SameCalls
<1>3. ASSUME NEW v \in Workers, work'[v].pc \in Holding, Blocking(v)', Single(v)'
      PROVE  /\ SameJob(v) /\ Cb(v)' = Cb(v) /\ Blocking(v) /\ Single(v)
             /\ \/ Lasts(v)
                \/ /\ work[v].pc \in Holding
                   /\ work'[v].pc = "global" =>
                        \/ work[v].pc = "cbrun"
                        \/ work[v].pc = "global" /\ work'[v].k \in {work[v].k, work[v].k + 1}
                   /\ AdvancesOther(v) => work'[v].k = work[v].k + 1 /\ work'[v].pc = "global"
                   /\ work[v].pc = "global" => work'[v].pc = "global"
  <2>1. CASE v # w
    <3>1. work'[v] = work[v]
      BY <1>1, <2>1 DEF Worked
    <3>2. Cb(v)' = Cb(v) /\ Blocking(v) /\ Single(v)
      BY <1>1, <1>3, <3>1, SameWorker
    <3>3. AdvancesOther(v) => work'[v].k = work[v].k + 1 /\ work'[v].pc = "global"
      BY DEF AdvancesOther
    <3>4. QED
      BY <1>3, <3>1, <3>2, <3>3 DEF SameJob
  <2>2. CASE v = w
    <3>1. SameJob(w)
      BY <1>1, <1>3, <2>2 DEF Kinds, Holding, Moves, Rests, Takes, Parks, Passes, Lasts, Pops, Inserts,
                    AdvancesOther, Fails, Drops, SameJob
    <3>2. Cb(w)' = Cb(w) /\ Blocking(w) /\ Single(w)
      BY <1>1, <1>3, <2>2, <3>1, SameWorker DEF SameJob
    <3>3. ~(work[w].pc \in {"cbpop", "cbinsert"})
      BY <1>1, <3>2 DEF Calling, CbPhase
    <3>4. Lasts(w) \/ Moves(w) \/ AdvancesOther(w)
      BY <1>1, <1>3, <2>2, <3>3 DEF Kinds, Holding, Rests, Takes, Parks, Passes, Pops, Inserts,
                    Fails, Drops
    <3>5. CASE Moves(w)
      BY <1>3, <2>2, <3>1, <3>2, <3>5 DEF Moves, Holding, AdvancesOther
    <3>6. CASE AdvancesOther(w)
      BY <1>3, <2>2, <3>1, <3>2, <3>6 DEF Holding, AdvancesOther
    <3>7. QED
      BY <2>2, <3>1, <3>2, <3>4, <3>5, <3>6
  <2>3. QED
    BY <2>1, <2>2
<1>4. ASSUME NEW v \in Workers, work'[v].pc \in Holding, Blocking(v)', Single(v)',
             NEW id, id = Cb(v), NEW i \in DOMAIN RanksOf(id), NEW r, r = RanksOf(id)[i],
             r # work'[v].rank, work'[v].pc = "global" => i >= work'[v].k
      PROVE  ParkedUnder(r, id)'
  <2>1. work'[v].rank = work[v].rank /\ Blocking(v) /\ Single(v)
    BY <1>3, <1>4 DEF SameJob
  <2>2. CASE Lasts(v)
    <3>1. /\ id \in Ids(program) /\ work[v].rank \in RankSet(id) /\ work[v].rank \notin Arrived(id)
          /\ Call(id).op = "callback"
      BY <1>1, <1>4, <2>2, AtCallback DEF Lasts
    <3>2. Others(v) = {}
      BY <2>1, <2>2 DEF Lasts
    <3>3. r \in Arrived(id)
      BY <1>4, <2>1, <3>2 DEF Others, RankSet, Arrived
    <3>4. Blocks(id) /\ ~(RankSet(id) \subseteq Arrived(id))
      BY <1>4, <2>1, <3>1 DEF Blocks, Blocking, Single
    <3>5. r \in Ranks
      BY <1>1, <3>1, <3>3 DEF Shapes
    <3>6. QED
      BY <1>1, <3>1, <3>3, <3>4, <3>5, GatheringStep
  <2>3. CASE ~Lasts(v)
    <3>1. /\ work[v].pc \in Holding
          /\ work'[v].pc = "global" =>
               \/ work[v].pc = "cbrun"
               \/ work[v].pc = "global" /\ work'[v].k \in {work[v].k, work[v].k + 1}
          /\ AdvancesOther(v) => work'[v].k = work[v].k + 1 /\ work'[v].pc = "global"
          /\ work[v].pc = "global" => work'[v].pc = "global"
      BY <1>3, <1>4, <2>3
    <3>2. id \in Ids(program) /\ (work[v].pc = "global" => work[v].k \in Nat \ {0})
      BY <1>1, <1>4, <3>1 DEF Calling, Holding, CbPhase
    <3>3. RanksOf(id) \in Seq(Ranks)
      BY <1>1, <3>2, CallFacts
    <3>4. i \in Nat /\ r \in Ranks
      BY <1>4, <3>3
    <3>5. work[v].pc = "global" => i >= work[v].k
      BY <1>4, <3>1, <3>2, <3>4
    <3>6. AdvancesOther(v) => i >= work[v].k + 1
      BY <1>4, <3>1
    <3>7. QED
      BY <1>4, <2>1, <3>1, <3>4, <3>5, <3>6, HoldsOn
  <2>4. QED
    BY <2>2, <2>3
<1>5. ASSUME NEW v \in Workers, work'[v].pc \in Holding, Blocking(v)', Single(v)'
      PROVE  \A i \in DOMAIN RanksOf(Cb(v)) :
               RanksOf(Cb(v))[i] # work'[v].rank /\ (work'[v].pc = "global" => i >= work'[v].k) =>
                 \A r, id : r = RanksOf(Cb(v))[i] /\ id = Cb(v) => ParkedUnder(r, id)'
  BY <1>4, <1>5
<1>6. \A v \in Workers : work'[v].pc \in Holding /\ Blocking(v)' /\ Single(v)' => Cb(v)' = Cb(v)
  BY <1>3
<1>7. QED
  BY <1>2, <1>5, <1>6 DEF Gathered, Holding, ParkedUnder, InQueue, Served

-----------------------------------------------------------------------------
(* What a step of the API keeps.                                            *)
LEMMA ApiAside ==
  ASSUME Good, Aside, Gathered, Apart, NEW t \in Threads, Calm(t) \/ Appends(t),
         \A r \in Ranks : RankStep(r)
  PROVE  Aside' /\ Calling' /\ Apart' /\ Gathered'
<1>1. /\ Shapes /\ Calling /\ GoesOn /\ Gathering /\ OnceOnly /\ Distinct
  BY DEF Good, Aside
<1>2. program' = program /\ work' = work /\ SameArrived
  BY <1>1, CallKept DEF Calm, Appends
<1>3. Grown
  BY <1>2 DEF SameArrived, Grown
<1>4. \A id : /\ Call(id)' = Call(id) /\ RankSet(id)' = RankSet(id) /\ (Blocks(id)' <=> Blocks(id))
              /\ RanksOf(id)' = RanksOf(id)
  BY <1>2, SameCalls
<1>5. \A v : Cb(v)' = Cb(v) /\ (Single(v)' <=> Single(v)) /\ (Blocking(v)' <=> Blocking(v))
  BY <1>2, SameWorker
<1>6. GoesOn'
  <2>1. \A r \in Ranks : ~Sleeps(r)
    BY <1>2 DEF Sleeps, Parks, Reaches
  <2>2. \A r \in Ranks : jobs'[r] # <<>> => InQueue(r)' \/ Served(r)' \/ Parked(r)'
    BY <1>1, <1>3, <2>1, GoesOnStep
  <2>3. QED
    BY <2>2 DEF GoesOn
<1>7. Gathering'
  <2>1. \A id \in Ids(program) : Blocks(id) /\ ~(RankSet(id) \subseteq Arrived(id)) =>
          \A r \in Arrived(id) : ParkedUnder(r, id)'
    BY <1>1, GatheringStep DEF Shapes
  <2>2. \A id \in Ids(program) : Arrived(id)' = Arrived(id)
    BY <1>2 DEF SameArrived, Arrived
  <2>3. QED
    BY <1>2, <1>4, <2>1, <2>2 DEF Gathering
<1>8. OnceOnly'
  <2>1. \A id \in Ids(program) : \A r \in Arrived(id) :
          /\ CbJob(id) \in DOMAIN outcome'[r]
          /\ \A n \in DOMAIN jobs'[r] : jobs'[r][n] = CbJob(id) =>
               n = 1 /\ ~InQueue(r)' /\ ~Ahead(r)'
    BY <1>1, OnceOnlyStep DEF Shapes
  <2>2. \A id \in Ids(program) : Arrived(id)' = Arrived(id)
    BY <1>2 DEF SameArrived, Arrived
  <2>3. QED
    BY <1>2, <2>1, <2>2 DEF OnceOnly
<1>9. Distinct'
  <2>1. \A r \in Ranks : Apiece(r)'
    BY <1>1, <1>2, ApieceStep DEF Distinct, Apiece
  <2>2. QED
    BY <2>1 DEF Distinct, Apiece
<1>10. Calling'
  <2>1. \A v \in Workers : Called(v)
    BY <1>1 DEF Calling, Called
  <2>2. \A v \in Workers : Called(v)'
    BY <1>2, <1>3, <2>1, OtherCalled
  <2>3. QED
    BY <2>2 DEF Calling, Called
<1>11. Apart'
  BY <1>2, <1>5 DEF Apart
<1>12. ASSUME NEW v \in Workers, work[v].pc \in Holding, Blocking(v), Single(v),
              NEW id, id = Cb(v), NEW i \in DOMAIN RanksOf(id), NEW r, r = RanksOf(id)[i],
              r # work[v].rank, work[v].pc = "global" => i >= work[v].k
       PROVE  ParkedUnder(r, id)'
  <2>1. id \in Ids(program) /\ (work[v].pc = "global" => work[v].k \in Nat \ {0})
    BY <1>1, <1>12 DEF Calling, Holding, CbPhase
  <2>2. ~AdvancesOther(v)
    <3>1. SUFFICES ASSUME AdvancesOther(v) PROVE FALSE
      OBVIOUS
    <3>2. work[v].pc = "global" /\ work[v].k = work[v].k + 1
      BY <1>2, <3>1 DEF AdvancesOther
    <3>3. QED
      BY <2>1, <3>2
  <2>3. RanksOf(id) \in Seq(Ranks)
    BY <1>1, <2>1, CallFacts
  <2>4. r \in Ranks
    BY <1>12, <2>3
  <2>5. QED
    BY <1>12, <2>2, <2>4, HoldsOn
<1>13. \A v \in Workers : work[v].pc \in Holding /\ Blocking(v) /\ Single(v) =>
         \A i \in DOMAIN RanksOf(Cb(v)) :
           RanksOf(Cb(v))[i] # work[v].rank /\ (work[v].pc = "global" => i >= work[v].k) =>
             \A r, id : r = RanksOf(Cb(v))[i] /\ id = Cb(v) => ParkedUnder(r, id)'
  BY <1>12
<1>14. Gathered'
  BY <1>2, <1>4, <1>5, <1>13 DEF Gathered, Holding, ParkedUnder, InQueue, Served
<1>15. QED
  BY <1>6, <1>7, <1>8, <1>9, <1>10, <1>11, <1>14 DEF Aside

-----------------------------------------------------------------------------
(* The names of the calls that a callback makes.                            *)
LEMMA IdFacts ==
  ASSUME Shapes, NEW id \in Ids(program), Call(id).op = "callback", NEW m \in DOMAIN Call(id).body
  PROVE  /\ id \in TopIds(program) /\ id = <<id[1], id[2]>> /\ Call(id) = program[id[1]][id[2]]
         /\ id[1] \in Clients
<1>1. ProgramOK(program)
  BY JobCallsAssumption DEF Shapes
<1>2. Len(id) = 2
  <2>1. SUFFICES ASSUME Len(id) # 2 PROVE FALSE
    OBVIOUS
  <2>2. Call(id).body = <<>>
    BY <1>1, <2>1 DEF ProgramOK, Call
  <2>3. QED
    BY <2>2
<1>3. id \in TopIds(program) \/ id \in BodyIds(program)
  BY DEF Ids
<1>4. ASSUME id \in BodyIds(program) PROVE FALSE
  <2>1. \E i \in TopIds(program) : \E k, r : id = <<i[1], i[2], k, r>>
    BY <1>4 DEF BodyIds
  <2>2. PICK i, k, r : id = <<i[1], i[2], k, r>>
    BY <2>1
  <2>3. Len(<<i[1], i[2], k, r>>) = 4
    OBVIOUS
  <2>4. QED
    BY <1>2, <2>2, <2>3
<1>5. \E c \in DOMAIN program : \E n \in DOMAIN program[c] : id = <<c, n>>
  BY <1>3, <1>4 DEF TopIds
<1>6. Call(id) = program[id[1]][id[2]]
  BY <1>2 DEF Call, CallOf
<1>7. QED
  BY <1>1, <1>3, <1>4, <1>5, <1>6 DEF ProgramOK

(* The rank that the name of a call in a callback carries. *)
With(id, r) == IF UsesMaster(Call(id)) THEN Call(id).ranks[1] ELSE r

LEMMA BodyName ==
  ASSUME NEW id, NEW r, NEW m \in DOMAIN Call(id).body
  PROVE  BodyOf(program, id, r)[m] = <<id[1], id[2], m, With(id, r)>>
BY DEF BodyOf, Call, With

(* The calls of a callback are calls of the program. *)
LEMMA BodyInIds ==
  ASSUME Shapes, NEW id \in Ids(program), Call(id).op = "callback", NEW r \in RankSet(id),
         NEW m \in DOMAIN Call(id).body
  PROVE  BodyOf(program, id, r)[m] \in Ids(program)
<1>1. id \in TopIds(program) /\ Call(id) = program[id[1]][id[2]]
  BY IdFacts
<1>2. With(id, r) \in CalledWith(Call(id))
  BY DEF With, CalledWith, RankSet, RanksOf
<1>3. <<id[1], id[2], m, With(id, r)>> \in BodyIds(program)
  BY <1>1, <1>2 DEF BodyIds
<1>4. QED
  BY <1>3, BodyName DEF Ids

(* The name of such a call tells the callback, the place in it, and the *)
(* rank if each rank calls the function. *)
LEMMA BodyNames ==
  ASSUME Shapes, NEW a \in Ids(program), NEW b \in Ids(program), Call(a).op = "callback",
         Call(b).op = "callback", NEW m \in DOMAIN Call(a).body, NEW n \in DOMAIN Call(b).body,
         NEW r, NEW s, BodyOf(program, a, r)[m] = BodyOf(program, b, s)[n]
  PROVE  a = b /\ m = n /\ (~UsesMaster(Call(a)) => r = s)
<1>1. <<a[1], a[2], m, With(a, r)>> = <<b[1], b[2], n, With(b, s)>>
  BY BodyName
<1>2. a[1] = b[1] /\ a[2] = b[2] /\ m = n /\ With(a, r) = With(b, s)
  BY <1>1
<1>3. a = b
  BY <1>2, IdFacts
<1>4. QED
  BY <1>2, <1>3 DEF With

LEMMA BodyLength ==
  ASSUME NEW id, NEW r, NEW m \in DOMAIN Call(id).body
  PROVE  Len(BodyOf(program, id, r)[m]) = 4
<1>1. BodyOf(program, id, r)[m] = <<id[1], id[2], m, With(id, r)>>
  BY BodyName
<1>2. QED
  BY <1>1

LEMMA BodySequence ==
  ASSUME Shapes, NEW id \in Ids(program), Call(id).op = "callback", NEW r \in RankSet(id)
  PROVE  /\ BodyOf(program, id, r) \in Seq(Ids(program))
         /\ DOMAIN BodyOf(program, id, r) = DOMAIN Call(id).body
<1>1. ProgramOK(program)
  BY JobCallsAssumption DEF Shapes
<1>2. Len(Call(id).body) \in Nat /\ DOMAIN Call(id).body = 1..Len(Call(id).body)
  BY <1>1 DEF ProgramOK, Call
<1>3. DOMAIN BodyOf(program, id, r) = DOMAIN Call(id).body
  BY DEF BodyOf, Call
<1>4. \A m \in DOMAIN Call(id).body : BodyOf(program, id, r)[m] \in Ids(program)
  BY BodyInIds
<1>5. BodyOf(program, id, r) = [m \in 1..Len(Call(id).body) |-> BodyOf(program, id, r)[m]]
  BY <1>2 DEF BodyOf, Call
<1>6. QED
  BY <1>2, <1>3, <1>4, <1>5

(* A thread that has nothing to do takes no step of the API.                *)
LEMMA ApiBusy ==
  ASSUME NEW t \in Threads, ApiStep(t)
  PROVE  api[t] # Idle(<<>>)
<1>1. Idle(<<>>).pc = "idle" /\ Idle(<<>>).todo = <<>>
  BY DEF Idle
<1>2. api[t].pc # "idle" \/ api[t].todo # <<>>
  BY DEF ApiStep, Begin, GetSlots, GetFails, Unget, SetJobs, DoJobs, AddJobs, AddQueue, Added,
         Woken, InlineLock, InlineLaunch, InlinePolled, InlineEnd, FreeSet, Joined, At
<1>3. QED
  BY <1>1, <1>2

(* The calls of a thread are its own.                                       *)
Mindful == Shapes /\ Calling /\ Apart /\ Frames /\ Names

(* A worker has calls to make only while it runs the function of a *)
(* callback, *)
LEMMA MineBusy ==
  ASSUME Frames, NEW w \in Workers, NEW id \in Mine(w)
  PROVE  work[w].pc = "cbrun"
<1>1. SUFFICES ASSUME work[w].pc # "cbrun" PROVE FALSE
  OBVIOUS
<1>2. api[w] = Idle(<<>>)
  BY <1>1 DEF Frames
<1>3. api[w].pc = "idle" /\ api[w].todo = <<>>
  BY <1>2 DEF Idle
<1>4. QED
  BY <1>3 DEF Mine

(* and they are those of that callback. *)
LEMMA WorkerCalls ==
  ASSUME Mindful, NEW w \in Workers, NEW id \in Mine(w)
  PROVE  /\ work[w].pc = "cbrun" /\ Cb(w) \in Ids(program) /\ Call(Cb(w)).op = "callback"
         /\ work[w].rank \in Arrived(Cb(w)) /\ (Single(w) => RankSet(Cb(w)) \subseteq Arrived(Cb(w)))
         /\ \E m \in DOMAIN Call(Cb(w)).body : id = BodyOf(program, Cb(w), work[w].rank)[m]
<1>1. work[w].pc = "cbrun" /\ work[w].pc \in CbPhase
  BY MineBusy DEF Mindful, CbPhase
<1>2. w \in Threads
  BY DEF Threads
<1>3. QED
  BY <1>1, <1>2 DEF Mindful, Calling, Names

(* No call is made by two threads. *)
LEMMA MineApart ==
  ASSUME Mindful, NEW t \in Threads, NEW u \in Threads, t # u, NEW id \in Mine(t), id \in Mine(u)
  PROVE  FALSE
<1>1. \A c \in Clients : \A x \in Mine(c) : Len(x) = 2 /\ x[1] = c
  BY DEF Mindful, Names, Threads
<1>2. \A w \in Workers : id \in Mine(w) => Len(id) = 4
  BY WorkerCalls, BodyLength
<1>3. CASE t \in Clients /\ u \in Clients
  BY <1>1, <1>3
<1>4. CASE \/ t \in Clients /\ u \in Workers
           \/ t \in Workers /\ u \in Clients
  BY <1>1, <1>2, <1>4
<1>5. CASE t \in Workers /\ u \in Workers
  <2>1. PICK m \in DOMAIN Call(Cb(t)).body : id = BodyOf(program, Cb(t), work[t].rank)[m]
    BY <1>5, WorkerCalls
  <2>2. PICK n \in DOMAIN Call(Cb(u)).body : id = BodyOf(program, Cb(u), work[u].rank)[n]
    BY <1>5, WorkerCalls
  <2>3. /\ Cb(t) \in Ids(program) /\ Call(Cb(t)).op = "callback"
        /\ Cb(u) \in Ids(program) /\ Call(Cb(u)).op = "callback"
        /\ work[t].pc = "cbrun" /\ work[u].pc = "cbrun"
    BY <1>5, WorkerCalls
  <2>4. Cb(t) = Cb(u) /\ (~UsesMaster(Call(Cb(t))) => work[t].rank = work[u].rank)
    <3>1. ASSUME NEW a, a = Cb(t), NEW b, b = Cb(u), NEW r, r = work[t].rank, NEW s, s = work[u].rank
          PROVE  a = b /\ (~UsesMaster(Call(a)) => r = s)
      <4>1. /\ a \in Ids(program) /\ Call(a).op = "callback"
            /\ b \in Ids(program) /\ Call(b).op = "callback"
            /\ m \in DOMAIN Call(a).body /\ n \in DOMAIN Call(b).body
            /\ BodyOf(program, a, r)[m] = BodyOf(program, b, s)[n]
        BY <2>1, <2>2, <2>3, <3>1
      <4>2. QED
        BY <4>1, BodyNames DEF Mindful
    <3>2. QED
      BY <3>1
  <2>5. ~Single(t) /\ work[t].rank # work[u].rank
    BY <1>5, <2>3, <2>4 DEF Mindful, Apart, CbPhase
  <2>6. QED
    BY <2>4, <2>5 DEF Single
<1>6. QED
  BY <1>3, <1>4, <1>5 DEF Threads

-----------------------------------------------------------------------------
(* What a step of worker w does to the frame of thread t.                   *)
Wakes(t) ==
  /\ api'[t].id = api[t].id /\ api'[t].todo = api[t].todo
  /\ \/ api[t].pc = "asleep" /\ api'[t].pc = "get"
     \/ api[t].pc = "wait" /\ api'[t].pc = "woken"

(* The function of a callback begins, with the calls of its body. *)
Opens(w, t) ==
  /\ t = w /\ work[w].pc = "cbstart" /\ work'[w].pc = "cbrun"
  /\ api'[t] = Idle(BodyOf(program, Cb(w), work[w].rank))

LEMMA WorkFrames ==
  ASSUME Shapes, NEW w \in Workers, Does(w)
  PROVE  /\ DOMAIN api' = Threads
         /\ \A t \in Threads : DOMAIN api'[t] = ApiFields
         /\ \A t \in Threads : api'[t] = api[t] \/ Wakes(t) \/ Opens(w, t)
<1>1. CASE Stirred
  BY <1>1 DEF Stirred, Wakes
<1>2. CASE Enters(w)
  <2>1. w \in Threads
    BY DEF Threads
  <2>2. DOMAIN Idle(BodyOf(program, Cb(w), work[w].rank)) = ApiFields
    BY DEF Idle, ApiFields
  <2>3. QED
    BY <1>2, <2>1, <2>2 DEF Enters, Shapes, Opens
<1>3. QED
  BY <1>1, <1>2 DEF Does

(* Mutexes of ranks. *)
LEMMA WorkLocked ==
  ASSUME Good, Frames, Locked, NEW w \in Workers, Does(w), \A r \in Ranks : ServeStep(r)
  PROVE  Locked'
<1>1. Shapes /\ WorkHeads /\ Worked(w) /\ Kinds(w) /\ LocksKept(w) /\ program' = program
  BY DEF Good, Does, Worked
<1>2. None \notin Threads
  BY JobCallsAssumption DEF Threads
<1>3. ASSUME NEW v \in Workers \ {w}, work'[v].pc = "drop"
      PROVE  jobsLock'[work'[v].rank] = v
  <2>1. work'[v] = work[v] /\ work[v].pc = "drop"
    BY <1>1, <1>3 DEF Worked
  <2>2. jobsLock[work[v].rank] = v /\ v # None
    BY <1>2, <2>1 DEF Locked, Threads
  <2>3. work[v].rank \in Ranks
    BY <1>1, <2>1 DEF WorkHeads, HasFifo
  <2>4. QED
    BY <1>1, <2>1, <2>2, <2>3 DEF LocksKept
<1>4. ASSUME work'[w].pc = "drop"
      PROVE  jobsLock'[work'[w].rank] = w
  <2>1. Fails(w) \/ Drops(w)
    BY <1>1, <1>4 DEF Kinds, Moves, Rests, Takes, Parks, Passes, Lasts, Pops, Inserts, AdvancesOther
  <2>2. CASE Fails(w)
    <3>1. work[w].pc = "fail" /\ work'[w].rank = work[w].rank
          /\ jobsLock' = [jobsLock EXCEPT ![work[w].rank] = w]
      BY <2>2 DEF Fails, SameJob
    <3>2. work[w].rank \in Ranks
      BY <1>1, <3>1 DEF WorkHeads, HasFifo
    <3>3. QED
      BY <1>1, <3>1, <3>2 DEF Shapes
  <2>3. CASE Drops(w)
    <3>1. work[w].pc = "drop" /\ work'[w].rank = work[w].rank /\ jobsLock' = jobsLock
      BY <1>4, <2>3 DEF Drops, SameJob
    <3>2. QED
      BY <3>1 DEF Locked
  <2>4. QED
    BY <2>1, <2>2, <2>3
<1>5. ASSUME NEW t \in Threads, api'[t].pc = "addqueue", NEW s, s = AddRank(t)
      PROVE  AddRank(t)' = s /\ jobsLock'[s] = t /\ jobs'[s] = <<>>
  <2>1. api'[t] = api[t] /\ api[t].pc = "addqueue"
    <3>1. ~Opens(w, t) /\ ~Wakes(t)
      BY <1>5 DEF Opens, Wakes, Idle
    <3>2. QED
      BY <1>1, <1>5, <3>1, WorkFrames
  <2>2. t # w
    <3>1. SUFFICES ASSUME t = w PROVE FALSE
      OBVIOUS
    <3>2. work[w].pc = "cbrun"
      BY <2>1, <3>1 DEF Frames, Idle
    <3>3. QED
      BY <2>1, <3>1, <3>2 DEF Does, Leaves, Idle
  <2>3. s \in Ranks
    BY <1>1, <1>5, <2>1, AddFacts
  <2>4. jobsLock[s] = t /\ jobs[s] = <<>>
    BY <1>5, <2>1 DEF Locked
  <2>5. jobsLock'[s] = t
    BY <1>1, <1>2, <2>2, <2>3, <2>4 DEF LocksKept
  <2>6. jobs'[s] = <<>>
    BY <2>3, <2>4 DEF ServeStep, Untouched, Sleeps, Loses, Shrinks, Hands
  <2>7. AddRank(t)' = s
    BY <1>1, <1>5, <2>1 DEF AddRank, RanksOf, Call
  <2>8. QED
    BY <2>5, <2>6, <2>7
<1>6. \A v \in Workers : work'[v].pc = "drop" => jobsLock'[work'[v].rank] = v
  BY <1>3, <1>4
<1>7. \A t \in Threads : api'[t].pc = "addqueue" => (jobsLock[AddRank(t)] = t /\ jobs[AddRank(t)] = <<>>)'
  BY <1>5
<1>8. QED
  BY <1>6, <1>7 DEF Locked


LEMMA ApiLocked ==
  ASSUME Good, Frames, Locked, NEW t \in Threads, Calm(t) \/ Appends(t), api[t] # Idle(<<>>)
  PROVE  Locked'
<1>1. Shapes /\ WorkHeads /\ LocksKept(t) /\ FramesKept(t) /\ UNCHANGED <<program, work>>
  BY DEF Good, Calm, Appends
<1>2. None \notin Threads
  BY JobCallsAssumption DEF Threads
<1>3. ASSUME NEW v \in Workers, work'[v].pc = "drop"
      PROVE  jobsLock'[work'[v].rank] = v
  <2>1. work'[v] = work[v] /\ work[v].pc = "drop"
    BY <1>1, <1>3
  <2>2. jobsLock[work[v].rank] = v /\ v # None
    BY <1>2, <2>1 DEF Locked, Threads
  <2>3. work[v].rank \in Ranks
    BY <1>1, <2>1 DEF WorkHeads, HasFifo
  <2>4. v # t
    BY <2>1 DEF Frames
  <2>5. QED
    BY <1>1, <2>1, <2>2, <2>3, <2>4 DEF LocksKept
<1>4. ASSUME NEW u \in Threads \ {t}, api'[u].pc = "addqueue", NEW s, s = AddRank(u)
      PROVE  AddRank(u)' = s /\ jobsLock'[s] = u /\ jobs'[s] = <<>>
  <2>1. api'[u] = api[u] /\ api[u].pc = "addqueue"
    BY <1>1, <1>4 DEF FramesKept
  <2>2. s \in Ranks
    BY <1>1, <1>4, <2>1, AddFacts
  <2>3. jobsLock[s] = u /\ jobs[s] = <<>>
    BY <1>4, <2>1 DEF Locked
  <2>4. jobsLock'[s] = u
    BY <1>1, <1>2, <2>2, <2>3 DEF LocksKept
  <2>5. jobs'[s] = <<>>
    <3>1. CASE Calm(t)
      BY <2>3, <3>1 DEF Calm
    <3>2. CASE Appends(t)
      <4>1. AddRank(t) # s
        BY <1>2, <2>3, <3>2 DEF Appends
      <4>2. \A r \in Ranks : r # AddRank(t) => jobs'[r] = jobs[r]
        BY <1>1, <3>2 DEF Appends, Append2, Shapes
      <4>3. QED
        BY <2>2, <2>3, <4>1, <4>2
    <3>3. QED
      BY <3>1, <3>2
  <2>6. AddRank(u)' = s
    BY <1>1, <1>4, <2>1 DEF AddRank, RanksOf, Call
  <2>7. QED
    BY <2>4, <2>5, <2>6
<1>5. ASSUME api'[t].pc = "addqueue", NEW s, s = AddRank(t)
      PROVE  AddRank(t)' = s /\ jobsLock'[s] = t /\ jobs'[s] = <<>>
  <2>1. GoesOnWith(t) /\ jobs' = jobs
    BY <1>5 DEF Calm, Appends, Begins, ReturnsTo, Halts, Idle, Early
  <2>2. /\ api[t].pc = "add" /\ api'[t].i = api[t].i /\ api'[t].id = api[t].id
        /\ jobs[s] = <<>> /\ jobsLock' = [jobsLock EXCEPT ![s] = t]
    BY <1>5, <2>1 DEF GoesOnWith
  <2>3. s \in Ranks
    BY <1>1, <1>5, <2>2, AddFacts
  <2>4. jobsLock'[s] = t
    BY <1>1, <2>2, <2>3 DEF Shapes
  <2>5. AddRank(t)' = s
    BY <1>1, <1>5, <2>2 DEF AddRank, RanksOf, Call
  <2>6. QED
    BY <2>1, <2>2, <2>4, <2>5
<1>6. \A v \in Workers : work'[v].pc = "drop" => jobsLock'[work'[v].rank] = v
  BY <1>3
<1>7. \A u \in Threads : api'[u].pc = "addqueue" => (jobsLock[AddRank(u)] = u /\ jobs[AddRank(u)] = <<>>)'
  BY <1>4, <1>5
<1>8. QED
  BY <1>6, <1>7 DEF Locked


-----------------------------------------------------------------------------
(* The frames.                                                              *)
Framed(t) ==
  /\ api[t].pc # "idle" =>
       api[t].id \in Ids(program) /\ (api[t].pc # "join" => Call(api[t].id).op # "free")
  /\ api[t].pc \in {"set", "do", "dostale"} => api[t].i = 1
  /\ api[t].pc \in {"add", "addqueue"} => api[t].i \in DOMAIN RanksOf(api[t].id)

LEMMA FramedStays ==
  ASSUME Frames, program' = program, NEW t \in Threads, api'[t] = api[t]
  PROVE  Framed(t)'
<1>1. Framed(t)
  BY DEF Frames, Framed
<1>2. QED
  BY <1>1 DEF Framed, RanksOf, Call

LEMMA WorkFramed ==
  ASSUME Good, Frames, NEW w \in Workers, Does(w)
  PROVE  Frames'
<1>1. Shapes /\ Worked(w) /\ program' = program
  BY DEF Good, Does, Worked
<1>2. \A t \in Threads : api'[t] = api[t] \/ Wakes(t) \/ Opens(w, t)
  BY <1>1, WorkFrames
<1>3. ASSUME NEW v \in Workers, work'[v].pc # "cbrun"
      PROVE  api'[v] = Idle(<<>>)
  <2>1. v \in Threads
    BY DEF Threads
  <2>2. api[v] = Idle(<<>>)
    <3>1. CASE v = w
      BY <3>1 DEF Does, Leaves, Frames
    <3>2. CASE v # w
      BY <1>1, <1>3, <3>2 DEF Worked, Frames
    <3>3. QED
      BY <3>1, <3>2
  <2>3. ~Wakes(v) /\ ~Opens(w, v)
    BY <1>3, <2>2 DEF Wakes, Opens, Idle
  <2>4. QED
    BY <1>2, <2>1, <2>2, <2>3
<1>4. ASSUME NEW t \in Threads
      PROVE  Framed(t)'
  <2>1. CASE api'[t] = api[t]
    BY <1>1, <2>1, FramedStays
  <2>2. CASE Wakes(t)
    <3>1. /\ api[t].pc \notin {"idle", "join"} /\ api'[t].id = api[t].id
          /\ api'[t].pc \in {"get", "woken"}
      BY <2>2 DEF Wakes
    <3>2. api[t].id \in Ids(program) /\ Call(api[t].id).op # "free"
      BY <3>1 DEF Frames
    <3>3. QED
      BY <1>1, <3>1, <3>2 DEF Framed, Call
  <2>3. CASE Opens(w, t)
    BY <2>3 DEF Opens, Idle, Framed
  <2>4. QED
    BY <1>2, <2>1, <2>2, <2>3
<1>5. QED
  BY <1>3, <1>4 DEF Frames, Framed

LEMMA ApiFramed ==
  ASSUME Good, Frames, NEW t \in Threads, Calm(t) \/ Appends(t), api[t] # Idle(<<>>)
  PROVE  Frames'
<1>1. Shapes /\ FramesKept(t) /\ UNCHANGED <<program, work>>
  BY DEF Good, Calm, Appends
<1>2. ASSUME NEW v \in Workers, work'[v].pc # "cbrun"
      PROVE  api'[v] = Idle(<<>>)
  <2>1. api[v] = Idle(<<>>) /\ v \in Threads
    BY <1>1, <1>2 DEF Frames, Threads
  <2>2. QED
    BY <1>1, <2>1 DEF FramesKept
<1>3. ASSUME NEW u \in Threads \ {t}
      PROVE  Framed(u)'
  BY <1>1, FramedStays DEF FramesKept
<1>4. Framed(t)'
  <2>1. CASE Begins(t)
    <3>1. api[t].todo \in Seq(Ids(program)) /\ api[t].todo # <<>> /\ api'[t].id = Head(api[t].todo)
      BY <1>1, <2>1 DEF Shapes, Begins
    <3>2. api'[t].id \in Ids(program)
      BY <3>1, TailFacts
    <3>3. \/ api'[t].pc \in {"get", "set"} /\ api'[t].i = 1 /\ Call(api'[t].id).op # "free"
          \/ api'[t].pc = "join"
      BY <2>1 DEF Begins
    <3>4. QED
      BY <1>1, <3>2, <3>3 DEF Framed, Call
  <2>2. CASE GoesOnWith(t)
    <3>1. /\ api[t].pc \notin {"idle", "join"} /\ api'[t].id = api[t].id
          /\ api'[t].pc = "set" => api'[t].i = 1
          /\ api'[t].pc \in {"do", "dostale"} => api[t].pc = "set" /\ api'[t].i = api[t].i
          /\ api'[t].pc = "add" => api[t].pc = "do" /\ api'[t].i = api[t].i
          /\ api'[t].pc = "addqueue" => api[t].pc = "add" /\ api'[t].i = api[t].i
      BY <2>2 DEF GoesOnWith
    <3>2. api[t].id \in Ids(program) /\ Call(api[t].id).op # "free"
      BY <3>1 DEF Frames
    <3>3. 1 \in DOMAIN RanksOf(api[t].id)
      <4>1. RanksOf(api[t].id) \in Seq(Ranks) /\ RanksOf(api[t].id) # <<>>
        BY <1>1, <3>2, CallFacts DEF CallOK, RanksOf
      <4>2. QED
        BY <4>1
    <3>4. /\ api'[t].pc \in {"set", "do", "dostale"} => api'[t].i = 1
          /\ api'[t].pc \in {"add", "addqueue"} => api'[t].i \in DOMAIN RanksOf(api[t].id)
      BY <3>1, <3>3 DEF Frames
    <3>5. QED
      BY <1>1, <3>1, <3>2, <3>4 DEF Framed, Call, RanksOf
  <2>3. CASE ReturnsTo(t)
    BY <2>3 DEF ReturnsTo, Idle, Framed
  <2>4. CASE Halts(t)
    BY <1>1, <2>4, FramedStays DEF Halts
  <2>5. CASE Appends(t)
    <3>1. /\ api[t].pc \in {"add", "addqueue"} /\ api'[t].id = api[t].id
          /\ api'[t].i = api[t].i + 1
          /\ api'[t].pc = IF api[t].i = Len(RanksOf(api[t].id)) THEN "added" ELSE "add"
      BY <2>5 DEF Appends
    <3>2. /\ api[t].id \in Ids(program) /\ Call(api[t].id).op # "free"
          /\ api[t].i \in DOMAIN RanksOf(api[t].id)
      BY <3>1 DEF Frames
    <3>3. RanksOf(api[t].id) \in Seq(Ranks)
      BY <1>1, <3>2, CallFacts
    <3>4. api'[t].pc = "add" => api'[t].i \in DOMAIN RanksOf(api[t].id)
      BY <3>1, <3>2, <3>3
    <3>5. QED
      BY <1>1, <3>1, <3>2, <3>4 DEF Framed, Call, RanksOf
  <2>6. QED
    BY <2>1, <2>2, <2>3, <2>4, <2>5 DEF Calm
<1>5. QED
  BY <1>2, <1>3, <1>4 DEF Frames, Framed


-----------------------------------------------------------------------------
(* The names of the calls of a thread.                                      *)
Named(t) ==
  /\ \A m, n \in DOMAIN api[t].todo : api[t].todo[m] = api[t].todo[n] => m = n
  /\ \A n \in DOMAIN api[t].todo : api[t].todo[n] \in Ids(program)
  /\ api[t].pc # "idle" => \A n \in DOMAIN api[t].todo : api[t].todo[n] # api[t].id
  /\ t \in Clients => \A id \in Mine(t) : Len(id) = 2 /\ id[1] = t
  /\ t \in Workers => \A id \in Mine(t) :
       \E m \in DOMAIN Call(Cb(t)).body : id = BodyOf(program, Cb(t), work[t].rank)[m]

(* Calls are taken from the front of todo, and none is added. *)
FrameKeeps(t) ==
  /\ api'[t].todo = api[t].todo
  /\ api'[t].pc # "idle" => api[t].pc # "idle" /\ api'[t].id = api[t].id

SameTask(t) == t \in Workers => Cb(t)' = Cb(t) /\ work'[t].rank = work[t].rank

LEMMA NamesKeep ==
  ASSUME Names, program' = program, NEW t \in Threads, FrameKeeps(t), SameTask(t)
  PROVE  Named(t)'
<1>1. Named(t)
  BY DEF Names, Named
<1>2. \A id : id \in Mine(t)' => id \in Mine(t)
  BY DEF Mine, FrameKeeps
<1>3. t \in Workers => \A id \in Mine(t)' :
        \E m \in DOMAIN Call(Cb(t)).body : id = BodyOf(program, Cb(t), work[t].rank)[m]
  BY <1>1, <1>2 DEF Named
<1>4. t \in Workers => \A id \in Mine(t)' :
        (\E m \in DOMAIN Call(Cb(t)).body : id = BodyOf(program, Cb(t), work[t].rank)[m])'
  <2>1. t \in Workers => /\ Call(Cb(t))' = Call(Cb(t))
                         /\ BodyOf(program, Cb(t), work[t].rank)' = BodyOf(program, Cb(t), work[t].rank)
    BY DEF SameTask, Call, BodyOf
  <2>2. QED
    BY <1>3, <2>1
<1>5. t \in Clients => \A id \in Mine(t)' : Len(id) = 2 /\ id[1] = t
  BY <1>1, <1>2 DEF Named
<1>6. /\ \A m, n \in DOMAIN api'[t].todo : api'[t].todo[m] = api'[t].todo[n] => m = n
      /\ \A n \in DOMAIN api'[t].todo : api'[t].todo[n] \in Ids(program)
      /\ api'[t].pc # "idle" => \A n \in DOMAIN api'[t].todo : api'[t].todo[n] # api'[t].id
  BY <1>1 DEF Named, FrameKeeps
<1>7. QED
  BY <1>4, <1>5, <1>6 DEF Named

(* The call that begins was the first of those to make. *)
LEMMA NamesBegin ==
  ASSUME Shapes, Names, UNCHANGED <<program, work>>, NEW t \in Threads, Begins(t)
  PROVE  Named(t)' /\ (api'[t].id \in Mine(t)) /\ \E n \in DOMAIN api[t].todo : api'[t].id = api[t].todo[n]
<1> DEFINE todo == api[t].todo
<1>1. Named(t) /\ todo \in Seq(Ids(program))
  BY DEF Names, Named, Shapes
<1>2. todo # <<>> /\ api'[t].id = Head(todo) /\ api'[t].todo = Tail(todo)
  BY DEF Begins
<1>3. /\ Head(todo) = todo[1] /\ Len(todo) \in Nat /\ Len(todo) > 0 /\ DOMAIN todo = 1..Len(todo)
      /\ DOMAIN Tail(todo) = 1..(Len(todo) - 1)
      /\ \A n \in 1..(Len(todo) - 1) : Tail(todo)[n] = todo[n + 1]
  BY <1>1, <1>2, TailFacts
<1>4. \A m, n \in DOMAIN todo : todo[m] = todo[n] => m = n
  BY <1>1 DEF Named
<1>5. /\ \A n \in DOMAIN todo : todo[n] \in Ids(program)
      /\ t \in Clients => \A id \in Mine(t) : Len(id) = 2 /\ id[1] = t
      /\ t \in Workers => \A id \in Mine(t) :
           \E m \in DOMAIN Call(Cb(t)).body : id = BodyOf(program, Cb(t), work[t].rank)[m]
  BY <1>1 DEF Named
<1> HIDE DEF todo
<1>6. /\ \A m, n \in DOMAIN Tail(todo) : Tail(todo)[m] = Tail(todo)[n] => m = n
      /\ \A n \in DOMAIN Tail(todo) : Tail(todo)[n] # Head(todo)
      /\ \A n \in DOMAIN Tail(todo) : \E m \in DOMAIN todo : Tail(todo)[n] = todo[m]
      /\ \E m \in DOMAIN todo : Head(todo) = todo[m]
  <2>1. \A n \in DOMAIN Tail(todo) : n \in Nat /\ n + 1 \in DOMAIN todo /\ n + 1 # 1 /\ Tail(todo)[n] = todo[n + 1]
    BY <1>3
  <2>2. 1 \in DOMAIN todo
    BY <1>3
  <2>3. \A m, n \in DOMAIN Tail(todo) : Tail(todo)[m] = Tail(todo)[n] => m + 1 = n + 1
    BY <1>4, <2>1
  <2>4. \A m, n \in DOMAIN Tail(todo) : Tail(todo)[m] = Tail(todo)[n] => m = n
    BY <2>1, <2>3
  <2>5. QED
    BY <1>3, <1>4, <2>1, <2>2, <2>4
<1>7. \A id : id \in Mine(t)' => \E m \in DOMAIN todo : id = todo[m]
  BY <1>2, <1>6 DEF Mine, todo
<1>8. \A m \in DOMAIN todo : todo[m] \in Mine(t)
  BY DEF Mine, todo
<1>9. t \in Workers => \A id \in Mine(t)' :
        (\E m \in DOMAIN Call(Cb(t)).body : id = BodyOf(program, Cb(t), work[t].rank)[m])'
  <2>1. /\ Call(Cb(t))' = Call(Cb(t))
        /\ BodyOf(program, Cb(t), work[t].rank)' = BodyOf(program, Cb(t), work[t].rank)
    BY DEF Call, BodyOf, Cb
  <2>2. QED
    BY <1>5, <1>7, <1>8, <2>1
<1>10. t \in Clients => \A id \in Mine(t)' : Len(id) = 2 /\ id[1] = t
  BY <1>5, <1>7, <1>8
<1>11. /\ \A m, n \in DOMAIN api'[t].todo : api'[t].todo[m] = api'[t].todo[n] => m = n
       /\ \A n \in DOMAIN api'[t].todo : api'[t].todo[n] \in Ids(program)
       /\ \A n \in DOMAIN api'[t].todo : api'[t].todo[n] # api'[t].id
  BY <1>2, <1>5, <1>6
<1>12. Named(t)'
  BY <1>9, <1>10, <1>11 DEF Named
<1>13. QED
  BY <1>2, <1>6, <1>8, <1>12 DEF todo


(* A worker that takes a step as a worker is not in the middle of a call. *)
LEMMA WorkerIdle ==
  ASSUME Shapes, Frames, NEW w \in Workers, Does(w)
  PROVE  /\ api[w] = Idle(<<>>) /\ w \in Threads
         /\ api'[w] = Idle(<<>>) \/ Opens(w, w)
         /\ \A t \in Threads : Opens(w, t) => t = w
<1>1. w \in Threads
  BY DEF Threads
<1>2. api[w] = Idle(<<>>)
  BY DEF Does, Leaves, Frames
<1>3. ~Wakes(w)
  BY <1>2 DEF Wakes, Idle
<1>4. QED
  BY <1>1, <1>2, <1>3, WorkFrames DEF Opens

LEMMA OpensFacts ==
  ASSUME Good, NEW w \in Workers, Does(w), Opens(w, w)
  PROVE  /\ Cb(w) \in Ids(program) /\ Call(Cb(w)).op = "callback" /\ work[w].rank \in RankSet(Cb(w))
         /\ Cb(w)' = Cb(w) /\ work'[w].rank = work[w].rank /\ program' = program
         /\ api'[w].pc = "idle" /\ api'[w].todo = BodyOf(program, Cb(w), work[w].rank)
<1>1. work[w].pc = "cbstart" /\ work'[w].pc = "cbrun"
  BY DEF Opens
<1>2. Moves(w) /\ program' = program
  BY <1>1 DEF Does, Worked, Kinds, Rests, Takes, Parks, Passes, Lasts, Reaches, Pops, Inserts,
              AdvancesOther, Fails, Drops
<1>3. Cb(w)' = Cb(w) /\ work'[w].rank = work[w].rank
  BY <1>2, SameWorker DEF Moves, SameJob
<1>4. Cb(w) \in Ids(program) /\ Call(Cb(w)).op = "callback" /\ work[w].rank \in RankSet(Cb(w))
  BY <1>1 DEF Good, Calling, CbPhase
<1>5. api'[w].pc = "idle" /\ api'[w].todo = BodyOf(program, Cb(w), work[w].rank)
  BY DEF Opens, Idle
<1>6. QED
  BY <1>2, <1>3, <1>4, <1>5

LEMMA WorkNamed ==
  ASSUME Good, Frames, Names, NEW w \in Workers, Does(w)
  PROVE  Names'
<1>1. Shapes /\ Worked(w) /\ program' = program
  BY DEF Good, Does, Worked
<1>2. \A t \in Threads : api'[t] = api[t] \/ Wakes(t) \/ Opens(w, t)
  BY <1>1, WorkFrames
<1>3. ASSUME NEW t \in Threads \ {w}
      PROVE  Named(t)'
  <2>1. ~Opens(w, t)
    BY DEF Opens
  <2>2. FrameKeeps(t)
    BY <1>2, <2>1 DEF Wakes, FrameKeeps
  <2>3. SameTask(t)
    BY <1>1 DEF SameTask, Worked, Cb
  <2>4. QED
    BY <1>1, <2>2, <2>3, NamesKeep
<1>4. Named(w)'
  <2>1. CASE api'[w] = Idle(<<>>)
    <3>1. api'[w].pc = "idle" /\ DOMAIN api'[w].todo = {}
      BY <2>1 DEF Idle
    <3>2. \A id \in Mine(w)' : FALSE
      BY <3>1 DEF Mine
    <3>3. QED
      BY <3>1, <3>2 DEF Named
  <2>2. CASE Opens(w, w)
    <3> DEFINE id == Cb(w)
               r == work[w].rank
               todo == BodyOf(program, id, r)
    <3>1. /\ id \in Ids(program) /\ Call(id).op = "callback" /\ r \in RankSet(id)
          /\ Cb(w)' = id /\ work'[w].rank = r /\ program' = program
          /\ api'[w].pc = "idle" /\ api'[w].todo = todo
      BY <2>2, OpensFacts
    <3>2. todo \in Seq(Ids(program)) /\ DOMAIN todo = DOMAIN Call(id).body
      BY <1>1, <3>1, BodySequence
    <3>3. \A m, n \in DOMAIN todo : todo[m] = todo[n] => m = n
      BY <1>1, <3>1, <3>2, BodyNames
    <3>4. w \notin Clients
      BY JobCallsAssumption
    <3>5. /\ \A x \in Mine(w)' : \E m \in DOMAIN Call(id).body : x = todo[m]
          /\ \A n \in DOMAIN todo : todo[n] \in Ids(program)
      BY <3>1, <3>2 DEF Mine
    <3>6. Call(Cb(w))' = Call(id) /\ BodyOf(program, Cb(w), work[w].rank)' = todo
      BY <3>1 DEF Call, BodyOf
    <3> HIDE DEF id, r, todo
    <3>7. QED
      BY <3>1, <3>3, <3>4, <3>5, <3>6 DEF Named
  <2>3. QED
    BY <1>1, <2>1, <2>2, WorkerIdle
<1>5. \A t \in Threads : Named(t)'
  BY <1>3, <1>4
<1>6. QED
  BY <1>5 DEF Names, Named

LEMMA ApiNamed ==
  ASSUME Good, Names, NEW t \in Threads, Calm(t) \/ Appends(t)
  PROVE  Names'
<1>1. Shapes /\ FramesKept(t) /\ UNCHANGED <<program, work>>
  BY DEF Good, Calm, Appends
<1>2. \A u \in Threads : SameTask(u)
  BY <1>1 DEF SameTask, Cb
<1>3. \A u \in Threads \ {t} : FrameKeeps(u)
  BY <1>1 DEF FramesKept, FrameKeeps
<1>4. CASE Begins(t)
  BY <1>1, <1>2, <1>3, <1>4, NamesBegin, NamesKeep DEF Names, Named
<1>5. CASE ~Begins(t)
  <2>1. FrameKeeps(t)
    BY <1>5 DEF Calm, Appends, GoesOnWith, ReturnsTo, Halts, Idle, FrameKeeps
  <2>2. \A u \in Threads : Named(u)'
    BY <1>1, <1>2, <1>3, <2>1, NamesKeep
  <2>3. QED
    BY <2>2 DEF Names, Named
<1>6. QED
  BY <1>4, <1>5


-----------------------------------------------------------------------------
(* The calls whose jobs are still to be submitted.                          *)
Pending(t) ==
  /\ \A n \in DOMAIN api[t].todo : Fresh(api[t].todo[n])
  /\ api[t].pc \in Early => Fresh(api[t].id)
  /\ api[t].pc \in {"add", "addqueue"} =>
       \A k \in DOMAIN RanksOf(api[t].id) : k >= api[t].i =>
         \A j \in DOMAIN outcome[RanksOf(api[t].id)[k]] : j.id # api[t].id

StillFresh(id) == \A r \in Ranks : \A j \in DOMAIN outcome'[r] : j.id # id

(* No step of a worker submits a job. *)
SameSubmitted == \A r \in Ranks : DOMAIN outcome'[r] = DOMAIN outcome[r]

(* Only jobs of call id are submitted, and to rank s only.                  *)
OnlySubmits(id, s) ==
  \A r \in Ranks : \A j \in DOMAIN outcome'[r] : j \in DOMAIN outcome[r] \/ (r = s /\ j.id = id)

LEMMA ServesSubmit ==
  ASSUME \A r \in Ranks : ServeStep(r)
  PROVE  SameSubmitted
BY DEF ServeStep, Untouched, Sleeps, Loses, Hands, SameSubmitted

LEMMA AppendsSubmit ==
  ASSUME Good, Frames, NEW t \in Threads, Appends(t), NEW s, s = AddRank(t), NEW id, id = api[t].id
  PROVE  OnlySubmits(id, s)
<1>1. Grows(s, id) /\ s \in Ranks /\ id \in Ids(program)
  BY AppendsStep
<1>2. Call(id).op # "free"
  BY AddFacts DEF Good, Appends
<1>3. \A n \in 1..Need(id) : JobsOf(program, id)[n].id = id
  BY <1>1, <1>2, BatchFacts DEF Good
<1>4. QED
  BY <1>1, <1>3 DEF Grows, OnlySubmits

LEMMA PendingStays ==
  ASSUME Shapes, SameSubmitted, program' = program, NEW t \in Threads, Pending(t), api'[t] = api[t],
         api[t].pc # "idle" => api[t].id \in Ids(program)
  PROVE  Pending(t)'
<1>2. /\ \A n \in DOMAIN api[t].todo : StillFresh(api[t].todo[n])
      /\ api[t].pc \in Early => StillFresh(api[t].id)
  BY DEF Pending, Fresh, StillFresh, SameSubmitted
<1>3. api[t].pc \in {"add", "addqueue"} =>
        \A k \in DOMAIN RanksOf(api[t].id) : k >= api[t].i =>
          \A j \in DOMAIN outcome'[RanksOf(api[t].id)[k]] : j.id # api[t].id
  <2>1. api[t].pc \in {"add", "addqueue"} =>
          \A k \in DOMAIN RanksOf(api[t].id) : RanksOf(api[t].id)[k] \in Ranks
    BY CallFacts, ElementFacts
  <2>2. QED
    BY <2>1 DEF Pending, SameSubmitted
<1>4. QED
  <2>1. Call(api[t].id)' = Call(api[t].id) /\ RanksOf(api[t].id)' = RanksOf(api[t].id)
    BY DEF Call, RanksOf
  <2>2. QED
    BY <1>2, <1>3, <2>1 DEF Pending, Fresh, StillFresh

(* A callback begins with calls that are fresh. *)
LEMMA WorkPending ==
  ASSUME Good, Frames, PendingFresh, BodiesFresh, NEW w \in Workers, Does(w),
         \A r \in Ranks : ServeStep(r)
  PROVE  PendingFresh'
<1>1. Shapes /\ Worked(w) /\ program' = program /\ SameSubmitted
  BY ServesSubmit DEF Good, Does, Worked
<1>2. \A t \in Threads : api'[t] = api[t] \/ Wakes(t) \/ Opens(w, t)
  BY <1>1, WorkFrames
<1>3. ASSUME NEW t \in Threads
      PROVE  Pending(t)'
  <2>1. Pending(t) /\ (api[t].pc # "idle" => api[t].id \in Ids(program))
    BY DEF PendingFresh, Pending, Early, Frames
  <2>2. CASE api'[t] = api[t]
    BY <1>1, <2>1, <2>2, PendingStays
  <2>3. CASE Wakes(t)
    <3>1. /\ api'[t].id = api[t].id /\ api'[t].todo = api[t].todo
          /\ api'[t].pc \notin {"add", "addqueue"}
          /\ api'[t].pc \in Early => api[t].pc \in Early
      BY <2>3 DEF Wakes, Early
    <3>2. QED
      BY <1>1, <2>1, <3>1 DEF Pending, Fresh, SameSubmitted
  <2>4. CASE Opens(w, t)
    <3>1. t = w /\ work[w].pc \in Before /\ Opens(w, w)
      BY <2>4 DEF Opens, Before
    <3>2. BodyIsFresh(Cb(w), work[w].rank)
      BY <3>1 DEF BodiesFresh
    <3>3. /\ Cb(w) \in Ids(program) /\ Call(Cb(w)).op = "callback" /\ work[w].rank \in RankSet(Cb(w))
          /\ api'[w].pc = "idle" /\ api'[w].todo = BodyOf(program, Cb(w), work[w].rank)
      BY <3>1, OpensFacts
    <3>4. DOMAIN BodyOf(program, Cb(w), work[w].rank) = DOMAIN Call(Cb(w)).body
      BY DEF BodyOf, Call
    <3>5. \A n \in DOMAIN api'[w].todo : Fresh(BodyOf(program, Cb(w), work[w].rank)[n])
      BY <3>2, <3>3, <3>4 DEF BodyIsFresh
    <3>6. \A n \in DOMAIN api'[w].todo : \A r \in Ranks : \A j \in DOMAIN outcome'[r] :
            j.id # api'[w].todo[n]
      BY <1>1, <3>3, <3>5 DEF Fresh, SameSubmitted
    <3>7. api'[w].pc = "idle"
      BY <3>3
    <3>8. QED
      BY <3>1, <3>6, <3>7 DEF Pending, Fresh, Early
  <2>5. QED
    BY <1>2, <2>2, <2>3, <2>4
<1>4. QED
  BY <1>3 DEF PendingFresh, Pending, Early


LEMMA CalmPending ==
  ASSUME Good, Frames, Names, PendingFresh, NEW t \in Threads, Calm(t)
  PROVE  PendingFresh'
<1>1. Shapes /\ FramesKept(t) /\ UNCHANGED <<program, outcome>> /\ SameSubmitted
  BY DEF Good, Calm, SameSubmitted
<1>2. \A x : Fresh(x) => StillFresh(x)
  BY <1>1 DEF Fresh, StillFresh
<1>3. \A u \in Threads : Pending(u) /\ (api[u].pc # "idle" => api[u].id \in Ids(program))
  BY DEF PendingFresh, Pending, Early, Frames
<1>4. \A u \in Threads \ {t} : Pending(u)'
  BY <1>1, <1>3, PendingStays DEF FramesKept
<1>5. Pending(t)'
  <2>1. CASE Begins(t)
    <3>1. api[t].todo \in Seq(Ids(program)) /\ api[t].todo # <<>>
          /\ api'[t].id = Head(api[t].todo) /\ api'[t].todo = Tail(api[t].todo)
          /\ api'[t].pc \notin {"add", "addqueue"}
      BY <1>1, <2>1 DEF Shapes, Begins
    <3>2. \E k \in DOMAIN api[t].todo : api'[t].id = api[t].todo[k]
      BY <1>1, <2>1, NamesBegin DEF Calm
    <3>3. \A n \in DOMAIN api'[t].todo : \E k \in DOMAIN api[t].todo : api'[t].todo[n] = api[t].todo[k]
      <4>1. /\ Len(api[t].todo) \in Nat /\ DOMAIN api[t].todo = 1..Len(api[t].todo)
            /\ DOMAIN Tail(api[t].todo) = 1..(Len(api[t].todo) - 1)
            /\ \A n \in 1..(Len(api[t].todo) - 1) : Tail(api[t].todo)[n] = api[t].todo[n + 1]
        BY <3>1, TailFacts
      <4>2. \A n \in 1..(Len(api[t].todo) - 1) : n + 1 \in 1..Len(api[t].todo)
        BY <4>1
      <4>3. QED
        BY <3>1, <4>1, <4>2
    <3>4. \A k \in DOMAIN api[t].todo : StillFresh(api[t].todo[k])
      BY <1>2, <1>3 DEF Pending
    <3>5. (\A n \in DOMAIN api'[t].todo : StillFresh(api'[t].todo[n])) /\ StillFresh(api'[t].id)
      BY <3>2, <3>3, <3>4
    <3>6. QED
      BY <3>1, <3>5 DEF Pending, Fresh, StillFresh
  <2>2. CASE GoesOnWith(t)
    <3>1. /\ api[t].pc \notin {"idle", "join"} /\ api'[t].id = api[t].id /\ api'[t].todo = api[t].todo
          /\ api'[t].pc \in Early => api[t].pc \in Early
          /\ api'[t].pc = "add" => api[t].pc = "do" /\ api'[t].i = api[t].i
          /\ api'[t].pc = "addqueue" => api[t].pc = "add" /\ api'[t].i = api[t].i
      BY <2>2 DEF GoesOnWith
    <3>2. /\ \A n \in DOMAIN api[t].todo : StillFresh(api[t].todo[n])
          /\ api[t].pc \in Early => StillFresh(api[t].id)
      BY <1>2, <1>3 DEF Pending
    <3>3. api'[t].pc \in {"add", "addqueue"} =>
            \A k \in DOMAIN RanksOf(api[t].id) : k >= api'[t].i =>
              \A j \in DOMAIN outcome'[RanksOf(api[t].id)[k]] : j.id # api[t].id
      <4>1. CASE api'[t].pc = "add"
        <5>1. StillFresh(api[t].id)
          BY <3>1, <3>2, <4>1 DEF Early
        <5>2. \A k \in DOMAIN RanksOf(api[t].id) : RanksOf(api[t].id)[k] \in Ranks
          BY <1>1, <1>3, <3>1, CallFacts, ElementFacts
        <5>3. QED
          BY <5>1, <5>2 DEF StillFresh
      <4>2. CASE api'[t].pc = "addqueue"
        BY <1>1, <1>3, <3>1, <4>2 DEF Pending
      <4>3. QED
        BY <4>1, <4>2
    <3>4. Call(api[t].id)' = CallOf(program, api'[t].id)
      BY <1>1 DEF Call
    <3>5. RanksOf(api[t].id)' = RanksOf(api[t].id)
      BY <1>1, <3>1 DEF Call, RanksOf
    <3>6. QED
      BY <3>1, <3>2, <3>3, <3>5 DEF Pending, Fresh, StillFresh
  <2>3. CASE ReturnsTo(t)
    <3>1. api'[t].pc = "idle" /\ api'[t].todo = api[t].todo
      BY <2>3 DEF ReturnsTo, Idle
    <3>2. \A n \in DOMAIN api[t].todo : StillFresh(api[t].todo[n])
      BY <1>2, <1>3 DEF Pending
    <3>3. QED
      BY <3>1, <3>2 DEF Pending, Fresh, StillFresh, Early
  <2>4. CASE Halts(t)
    BY <1>1, <1>3, <2>4, PendingStays DEF Halts
  <2>5. QED
    BY <2>1, <2>2, <2>3, <2>4 DEF Calm
<1>6. QED
  BY <1>4, <1>5 DEF PendingFresh, Pending, Early

(* The jobs of one call are submitted to one rank; the calls of the other *)
(* threads are others. *)
LEMMA AppendsPending ==
  ASSUME Good, Mindful, PendingFresh, NEW t \in Threads, Appends(t)
  PROVE  PendingFresh'
<1> DEFINE s == AddRank(t)
           id == api[t].id
<1>1. Shapes /\ Frames /\ FramesKept(t) /\ UNCHANGED <<program, work>>
  BY DEF Mindful, Appends
<1>2. /\ api[t].pc \in {"add", "addqueue"} /\ api'[t].id = id /\ api'[t].todo = api[t].todo
      /\ api'[t].i = api[t].i + 1 /\ api'[t].pc \in {"add", "added"}
  BY DEF Appends
<1>3. OnlySubmits(id, s)
  BY <1>1, AppendsSubmit
<1>4. /\ id \in Ids(program) /\ s \in Ranks
      /\ api[t].i \in DOMAIN RanksOf(id) /\ s = RanksOf(id)[api[t].i]
  BY <1>1, <1>2, AddFacts
<1>5. id \in Mine(t)
  BY <1>2, <1>4 DEF Mine
<1> HIDE DEF s, id
<1>6. \A x : Fresh(x) /\ x # id => StillFresh(x)
  BY <1>3 DEF OnlySubmits, Fresh, StillFresh
<1>7. \A u \in Threads : Pending(u)
  BY DEF PendingFresh, Pending, Early
<1>8. ASSUME NEW u \in Threads \ {t}
      PROVE  Pending(u)'
  <2>1. api'[u] = api[u]
    BY <1>1 DEF FramesKept
  <2>2. \A x \in Mine(u) : x # id
    BY <1>5, MineApart
  <2>3. (api[u].pc # "idle" => api[u].id # id /\ api[u].id \in Ids(program))
        /\ \A n \in DOMAIN api[u].todo : api[u].todo[n] # id
    BY <1>1, <2>2 DEF Mine, Frames
  <2>4. /\ \A n \in DOMAIN api[u].todo : StillFresh(api[u].todo[n])
        /\ api[u].pc \in Early => StillFresh(api[u].id)
    BY <1>6, <1>7, <2>3 DEF Pending, Early
  <2>5. api[u].pc \in {"add", "addqueue"} =>
          \A k \in DOMAIN RanksOf(api[u].id) : k >= api[u].i =>
            \A j \in DOMAIN outcome'[RanksOf(api[u].id)[k]] : j.id # api[u].id
    <3>1. api[u].pc \in {"add", "addqueue"} =>
            \A k \in DOMAIN RanksOf(api[u].id) : RanksOf(api[u].id)[k] \in Ranks
      BY <1>1, <2>3, CallFacts, ElementFacts
    <3>2. api[u].pc \in {"add", "addqueue"} => api[u].id # id
      BY <2>3
    <3>3. QED
      BY <1>3, <1>7, <3>1, <3>2 DEF Pending, OnlySubmits
  <2>6. RanksOf(api[u].id)' = RanksOf(api[u].id)
    BY <1>1, <2>1 DEF Call, RanksOf
  <2>7. QED
    BY <2>1, <2>4, <2>5, <2>6 DEF Pending, Fresh, StillFresh
<1>9. Pending(t)'
  <2>1. \A n \in DOMAIN api[t].todo : api[t].todo[n] # id
    BY <1>2 DEF Mindful, Names, id
  <2>2. \A n \in DOMAIN api[t].todo : StillFresh(api[t].todo[n])
    BY <1>6, <1>7, <2>1 DEF Pending
  <2>3. RanksOf(id) \in Seq(Ranks) /\ \A m, n \in DOMAIN RanksOf(id) : RanksOf(id)[m] = RanksOf(id)[n] => m = n
    BY <1>1, <1>4, CallFacts DEF CallOK, RanksOf
  <2>4. \A k \in DOMAIN RanksOf(id) : k >= api[t].i + 1 =>
          k >= api[t].i /\ RanksOf(id)[k] # s /\ RanksOf(id)[k] \in Ranks
    <3>1. \A k \in DOMAIN RanksOf(id) : k \in Nat /\ RanksOf(id)[k] \in Ranks
      BY <2>3
    <3>2. \A k \in DOMAIN RanksOf(id) : k >= api[t].i + 1 => k >= api[t].i /\ k # api[t].i
      BY <1>4, <3>1
    <3>3. QED
      BY <1>4, <2>3, <3>1, <3>2
  <2>5. \A k \in DOMAIN RanksOf(id) : k >= api[t].i =>
          \A j \in DOMAIN outcome[RanksOf(id)[k]] : j.id # id
    BY <1>2, <1>7 DEF Pending, id
  <2>6. \A k \in DOMAIN RanksOf(id) : k >= api'[t].i =>
          \A j \in DOMAIN outcome'[RanksOf(id)[k]] : j.id # id
    BY <1>2, <1>3, <2>4, <2>5 DEF OnlySubmits
  <2>7. RanksOf(api[t].id)' = RanksOf(id)
    BY <1>1, <1>2 DEF Call, RanksOf
  <2>8. QED
    BY <1>2, <2>2, <2>6, <2>7 DEF Pending, Fresh, StillFresh, Early
<1>10. QED
  BY <1>8, <1>9 DEF PendingFresh, Pending, Early


-----------------------------------------------------------------------------
(* The calls of callbacks that have not begun.                              *)
Unarrived(id, r) ==
  IF UsesMaster(Call(id)) THEN ~(RankSet(id) \subseteq Arrived(id)) ELSE r \notin Arrived(id)

BodyStillFresh(id, r) == \A m \in DOMAIN Call(id).body : StillFresh(BodyOf(program, id, r)[m])

LEMMA WorkBodies ==
  ASSUME Good, Aside, BodiesFresh, NEW w \in Workers, Does(w), \A r \in Ranks : ServeStep(r)
  PROVE  BodiesFresh'
<1>1. /\ Shapes /\ Worked(w) /\ Kinds(w) /\ program' = program /\ SameSubmitted /\ Grown
      /\ Distinct /\ OnceOnly
  BY ServesSubmit, DoesGrow DEF Good, Aside, Does, Worked
<1>2. \A id, r : BodyIsFresh(id, r) => BodyIsFresh(id, r)'
  BY <1>1 DEF BodyIsFresh, Fresh, SameSubmitted, Call, BodyOf
<1>3. \A id \in Ids(program) : Call(id).op = "callback" =>
        \A r \in RankSet(id) : Unarrived(id, r) => BodyIsFresh(id, r)
  BY DEF BodiesFresh, Unarrived
<1>4. \A id \in Ids(program) : \A r : Unarrived(id, r)' => Unarrived(id, r)
  BY <1>1 DEF Unarrived, Grown, Arrived, Call, RankSet, RanksOf
<1>5. \A id \in Ids(program') : Call(id)'.op = "callback" =>
        \A r \in RankSet(id)' : Unarrived(id, r)' => BodyIsFresh(id, r)'
  <2>1. \A id : Call(id)' = Call(id) /\ RankSet(id)' = RankSet(id)
    BY <1>1, SameCalls
  <2>2. QED
    BY <1>1, <1>2, <1>3, <1>4, <2>1
<1>6. ASSUME NEW v \in Workers, work'[v].pc \in Before
      PROVE  BodyIsFresh(Cb(v), work[v].rank)'
  <2>1. ASSUME NEW id, id = Cb(v), NEW r, r = work[v].rank,
               work'[v].job = work[v].job, work'[v].rank = work[v].rank, BodyIsFresh(id, r)
        PROVE  BodyIsFresh(Cb(v), work[v].rank)'
    <3>1. Cb(v)' = id /\ work'[v].rank = r
      BY <2>1 DEF Cb
    <3>2. BodyIsFresh(id, r)'
      BY <1>2, <2>1
    <3>3. QED
      BY <3>1, <3>2 DEF BodyIsFresh, Call, Fresh
  <2>2. CASE v # w
    <3>1. work'[v] = work[v]
      BY <1>1, <2>2 DEF Worked
    <3>2. BodyIsFresh(Cb(v), work[v].rank)
      BY <1>6, <3>1 DEF BodiesFresh
    <3>3. QED
      BY <2>1, <3>1, <3>2
  <2>3. CASE v = w /\ Lasts(w)
    <3>1. Reaches(w) /\ SameJob(w)
      BY <2>3 DEF Lasts
    <3>2. \A s, id : s = work[w].rank /\ id = Cb(w) =>
            /\ id \in Ids(program) /\ Call(id).op = "callback" /\ s \in RankSet(id)
            /\ s \notin Arrived(id)
      BY <1>1, <3>1, AtCallback
    <3>3. \A s, id : s = work[w].rank /\ id = Cb(w) => BodyIsFresh(id, s)
      BY <1>3, <3>2 DEF Unarrived
    <3>4. QED
      BY <2>1, <2>3, <3>1, <3>3 DEF SameJob
  <2>4. CASE v = w /\ ~Lasts(w)
    <3>1. work[w].pc \in Before /\ SameJob(w)
      BY <1>1, <1>6, <2>4 DEF Kinds, Before, Moves, Rests, Takes, Parks, Passes, Pops, Inserts,
                              AdvancesOther, Fails, Drops
    <3>2. BodyIsFresh(Cb(w), work[w].rank)
      BY <3>1 DEF BodiesFresh
    <3>3. QED
      BY <2>1, <2>4, <3>1, <3>2 DEF SameJob
  <2>5. QED
    BY <2>2, <2>3, <2>4
<1>7. QED
  BY <1>5, <1>6 DEF BodiesFresh, Unarrived

(* A thread that makes a call of a callback runs the function of it.        *)
LEMMA CallsBody ==
  ASSUME Mindful, NEW t \in Threads, NEW id \in Mine(t),
         NEW c \in Ids(program), Call(c).op = "callback", NEW r, NEW m \in DOMAIN Call(c).body,
         BodyOf(program, c, r)[m] = id
  PROVE  /\ t \in Workers /\ work[t].pc = "cbrun" /\ Cb(t) = c
         /\ ~UsesMaster(Call(c)) => r = work[t].rank
         /\ work[t].rank \in Arrived(c) /\ (Single(t) => RankSet(c) \subseteq Arrived(c))
<1>1. Len(id) = 4
  BY BodyLength
<1>2. t \in Workers
  BY <1>1 DEF Mindful, Names, Threads
<1>3. ASSUME NEW a, a = Cb(t), NEW s, s = work[t].rank
      PROVE  a = c /\ (~UsesMaster(Call(c)) => r = s)
  <2>1. /\ a \in Ids(program) /\ Call(a).op = "callback"
        /\ \E n \in DOMAIN Call(a).body : id = BodyOf(program, a, s)[n]
    BY <1>2, <1>3, WorkerCalls
  <2>2. QED
    BY <2>1, BodyNames DEF Mindful
<1>4. Cb(t) = c /\ (~UsesMaster(Call(c)) => r = work[t].rank)
  BY <1>3
<1>5. /\ work[t].pc = "cbrun" /\ work[t].rank \in Arrived(Cb(t))
      /\ Single(t) => RankSet(Cb(t)) \subseteq Arrived(Cb(t))
  BY <1>2, WorkerCalls
<1>6. QED
  BY <1>2, <1>4, <1>5

(* So no call of a callback that has not begun is made. *)
LEMMA ApiBodies ==
  ASSUME Good, Mindful, BodiesFresh, NEW t \in Threads, Calm(t) \/ Appends(t)
  PROVE  BodiesFresh'
<1>1. /\ Shapes /\ Frames /\ Calling /\ Apart /\ UNCHANGED <<program, work>> /\ SameArrived
  BY CallKept DEF Mindful, Calm, Appends
<1>2. \A id \in Ids(program) : Call(id).op = "callback" =>
        \A r \in RankSet(id) : Unarrived(id, r) => BodyIsFresh(id, r)
  BY DEF BodiesFresh, Unarrived
<1>3. /\ \A id \in Ids(program) : Call(id).op = "callback" =>
           \A r \in RankSet(id) : Unarrived(id, r) => BodyStillFresh(id, r)
      /\ \A v \in Workers : work[v].pc \in Before => BodyStillFresh(Cb(v), work[v].rank)
  <2>1. CASE Calm(t)
    <3>1. \A id, r : BodyIsFresh(id, r) => BodyStillFresh(id, r)
      BY <2>1 DEF Calm, BodyIsFresh, BodyStillFresh, Fresh, StillFresh
    <3>2. QED
      BY <1>2, <3>1 DEF BodiesFresh
  <2>2. CASE Appends(t)
    <3> DEFINE a == api[t].id
    <3>1. a \in Mine(t)
      BY <1>1, <2>2 DEF Appends, Frames, Mine
    <3>2. \A x : Fresh(x) /\ x # a => StillFresh(x)
      <4>1. OnlySubmits(a, AddRank(t))
        BY <1>1, <2>2, AppendsSubmit
      <4>2. QED
        BY <4>1 DEF OnlySubmits, Fresh, StillFresh
    <3> HIDE DEF a
    <3>3. ASSUME NEW c \in Ids(program), Call(c).op = "callback", NEW r, BodyIsFresh(c, r),
                 ~(t \in Workers /\ work[t].pc = "cbrun" /\ Cb(t) = c
                   /\ (~UsesMaster(Call(c)) => r = work[t].rank)
                   /\ work[t].rank \in Arrived(c) /\ (Single(t) => RankSet(c) \subseteq Arrived(c)))
          PROVE  BodyStillFresh(c, r)
      <4>1. \A m \in DOMAIN Call(c).body : BodyOf(program, c, r)[m] # a
        BY <3>1, <3>3, CallsBody
      <4>2. QED
        BY <3>2, <3>3, <4>1 DEF BodyIsFresh, BodyStillFresh
    <3>4. ASSUME NEW c \in Ids(program), Call(c).op = "callback", NEW r \in RankSet(c), Unarrived(c, r)
          PROVE  BodyStillFresh(c, r)
      <4>1. BodyIsFresh(c, r)
        BY <1>2, <3>4
      <4>2. Cb(t) = c => (Single(t) <=> UsesMaster(Call(c)))
        BY DEF Single
      <4>3. QED
        BY <3>3, <3>4, <4>1, <4>2 DEF Unarrived
    <3>5. ASSUME NEW v \in Workers, work[v].pc \in Before, NEW c, c = Cb(v), NEW r, r = work[v].rank
          PROVE  BodyStillFresh(c, r)
      <4>1. BodyIsFresh(c, r) /\ c \in Ids(program) /\ Call(c).op = "callback"
        BY <1>1, <3>5 DEF BodiesFresh, Calling, Before, CbPhase
      <4>2. ASSUME t \in Workers, work[t].pc = "cbrun", Cb(t) = c,
                   ~UsesMaster(Call(c)) => r = work[t].rank
            PROVE  FALSE
        <5>1. t # v
          BY <3>5, <4>2 DEF Before
        <5>2. ~Single(t) /\ work[t].rank # r
          BY <1>1, <3>5, <4>2, <5>1 DEF Apart, Before, CbPhase
        <5>3. QED
          BY <4>2, <5>2 DEF Single
      <4>3. QED
        BY <3>3, <4>1, <4>2
    <3>6. QED
      BY <3>4, <3>5
  <2>3. QED
    BY <2>1, <2>2
<1>4. \A id, r : BodyStillFresh(id, r) => BodyIsFresh(id, r)'
  BY <1>1 DEF BodyIsFresh, BodyStillFresh, Fresh, StillFresh, Call
<1>5. \A id \in Ids(program) : \A r : Unarrived(id, r)' => Unarrived(id, r)
  BY <1>1 DEF Unarrived, SameArrived, Arrived, Call, RankSet, RanksOf
<1>6. \A id \in Ids(program') : Call(id)'.op = "callback" =>
        \A r \in RankSet(id)' : Unarrived(id, r)' => BodyIsFresh(id, r)'
  <2>1. \A id : Call(id)' = Call(id) /\ RankSet(id)' = RankSet(id)
    BY <1>1, SameCalls
  <2>2. QED
    BY <1>1, <1>3, <1>4, <1>5, <2>1
<1>7. ASSUME NEW v \in Workers, work'[v].pc \in Before, NEW c, c = Cb(v), NEW r, r = work[v].rank
      PROVE  BodyIsFresh(Cb(v), work[v].rank)'
  <2>1. BodyIsFresh(c, r)'
    BY <1>1, <1>3, <1>4, <1>7
  <2>2. Cb(v)' = c /\ work'[v].rank = r
    BY <1>1, <1>7 DEF Cb
  <2>3. QED
    BY <2>1, <2>2 DEF BodyIsFresh, Call, Fresh
<1>8. QED
  BY <1>6, <1>7 DEF BodiesFresh, Unarrived


-----------------------------------------------------------------------------
(* The shapes of the variables.                                             *)
LEMMA WorkShapes ==
  ASSUME Good, Frames, NEW w \in Workers, Does(w), Typed
  PROVE  Shapes'
<1>1. Shapes /\ WorkHeads /\ Worked(w) /\ program' = program /\ LocksKept(w) /\ Grown
  BY DoesGrow DEF Good, Does, Worked
<1>2. \A id \in Ids(program) : DOMAIN call'[id] = CallFields /\ call'[id].arrived \subseteq Ranks
  <2>1. CASE SameArrived
    BY <1>1, <2>1 DEF SameArrived, Shapes
  <2>2. CASE Arriving(w) /\ Reaches(w)
    <3>1. HasFifo(w)
      BY <2>2 DEF Reaches, HasFifo
    <3>2. work[w].rank \in Ranks
      BY <1>1, <3>1 DEF WorkHeads
    <3>3. QED
      BY <1>1, <2>2, <3>2 DEF Arriving, Shapes
  <2>3. QED
    BY <1>1, <2>1, <2>2, DoesGrow
<1>3. ASSUME NEW t \in Threads
      PROVE  api'[t].todo \in Seq(Ids(program))
  <2>1. api[t].todo \in Seq(Ids(program))
    BY <1>1 DEF Shapes
  <2>2. CASE api'[t].todo = api[t].todo
    BY <2>1, <2>2
  <2>3. CASE Opens(w, t)
    <3>1. t = w
      BY <2>3 DEF Opens
    <3>2. ASSUME NEW id, id = Cb(w), NEW r, r = work[w].rank
          PROVE  BodyOf(program, id, r) \in Seq(Ids(program))
      <4>1. id \in Ids(program) /\ Call(id).op = "callback" /\ r \in RankSet(id)
        BY <2>3, <3>1, <3>2, OpensFacts
      <4>2. QED
        BY <1>1, <4>1, BodySequence
    <3>3. api'[w].todo = BodyOf(program, Cb(w), work[w].rank)
      BY <2>3, <3>1, OpensFacts
    <3>4. QED
      BY <3>1, <3>2, <3>3
  <2>4. QED
    BY <1>1, <2>2, <2>3, WorkFrames DEF Wakes
<1>4. /\ DOMAIN api' = Threads /\ \A t \in Threads : DOMAIN api'[t] = ApiFields
  BY <1>1, WorkFrames
<1>5. DOMAIN work' = Workers /\ \A v \in Workers : DOMAIN work'[v] = WorkFields
  BY <1>1 DEF Worked, Shapes
<1>6. /\ jobs' \in [Ranks -> Seq(JobSet)] /\ DOMAIN outcome' = Ranks
      /\ queue' \in [Queues -> Seq([rank : Ranks, job : JobSet])] /\ DOMAIN jobsLock' = Ranks
  BY <1>1 DEF Typed, LocksKept
<1>7. JobSet' = JobSet
  BY <1>1 DEF JobSet
<1>8. program' \in Programs /\ DOMAIN call' = Ids(program)
  BY <1>1 DEF Shapes, Grown
<1>9. QED
  BY <1>1, <1>2, <1>3, <1>4, <1>5, <1>6, <1>7, <1>8 DEF Shapes, Arrived

LEMMA ApiShapes ==
  ASSUME Good, NEW t \in Threads, Calm(t) \/ Appends(t), Typed
  PROVE  Shapes'
<1>1. Shapes /\ UNCHANGED <<program, work>> /\ LocksKept(t) /\ FramesKept(t)
  BY DEF Good, Calm, Appends
<1>2. SameArrived
  BY <1>1, CallKept DEF Calm, Appends
<1>3. \A id \in Ids(program) : DOMAIN call'[id] = CallFields /\ call'[id].arrived \subseteq Ranks
  BY <1>1, <1>2 DEF SameArrived, Shapes
<1>4. \A u \in Threads : api'[u].todo \in Seq(Ids(program))
  <2>1. \A u \in Threads : api[u].todo \in Seq(Ids(program))
    BY <1>1 DEF Shapes
  <2>2. CASE Begins(t)
    <3>1. api'[t].todo = Tail(api[t].todo) /\ api[t].todo # <<>>
      BY <2>2 DEF Begins
    <3>2. Tail(api[t].todo) \in Seq(Ids(program))
      BY <2>1, <3>1, TailFacts
    <3>3. QED
      BY <1>1, <2>1, <3>1, <3>2 DEF FramesKept
  <2>3. CASE ~Begins(t)
    <3>1. api'[t].todo = api[t].todo
      BY <2>3 DEF Calm, Appends, GoesOnWith, ReturnsTo, Halts, Idle
    <3>2. QED
      BY <1>1, <2>1, <3>1 DEF FramesKept
  <2>4. QED
    BY <2>2, <2>3
<1>5. DOMAIN api' = Threads /\ \A u \in Threads : DOMAIN api'[u] = ApiFields
  BY <1>1 DEF FramesKept, Shapes
<1>6. /\ jobs' \in [Ranks -> Seq(JobSet)] /\ DOMAIN outcome' = Ranks
      /\ queue' \in [Queues -> Seq([rank : Ranks, job : JobSet])] /\ DOMAIN jobsLock' = Ranks
  BY <1>1 DEF Typed, LocksKept
<1>7. JobSet' = JobSet
  BY <1>1 DEF JobSet
<1>8. DOMAIN call' = Ids(program)
  BY <1>2 DEF SameArrived
<1>9. QED
  BY <1>1, <1>3, <1>4, <1>5, <1>6, <1>7, <1>8 DEF Shapes, Arrived


-----------------------------------------------------------------------------
(* The inductive invariant.                                                 *)
JobInv ==
  /\ Good /\ Aside /\ Gathered /\ Apart /\ Locked
  /\ Frames /\ Names /\ PendingFresh /\ BodiesFresh

(* The initial states. *)
LEMMA InitFacts ==
  ASSUME Init
  PROVE  /\ program \in Programs /\ ProgramOK(program)
         /\ \A r \in Ranks : jobs[r] = <<>> /\ DOMAIN outcome[r] = {}
         /\ \A q \in Queues : DOMAIN queue[q] = {}
         /\ \A w \in Workers : work[w] = Resting /\ work[w].pc = "take" /\ api[w] = Idle(<<>>)
         /\ \A t \in Threads : api[t].pc = "idle"
         /\ \A c \in Clients : api[c].todo = [n \in DOMAIN program[c] |-> <<c, n>>]
         /\ \A id \in Ids(program) : Arrived(id) = {}
<1>1. program \in Programs /\ ProgramOK(program)
  BY JobCallsAssumption DEF Init
<1>2. /\ \A r \in Ranks : jobs[r] = <<>> /\ outcome[r] = <<>>
      /\ \A q \in Queues : queue[q] = <<>>
  BY DEF Init
<1>3. /\ \A r \in Ranks : jobs[r] = <<>> /\ DOMAIN outcome[r] = {}
      /\ \A q \in Queues : DOMAIN queue[q] = {}
  BY <1>2
<1>4. \A w \in Workers : w \in Threads /\ w \notin Clients
  BY JobCallsAssumption DEF Threads
<1>5. \A t \in Threads :
        api[t] = Idle(IF t \in Clients THEN [n \in DOMAIN program[t] |-> <<t, n>>] ELSE <<>>)
  BY DEF Init
<1>6. \A w \in Workers : api[w] = Idle(<<>>)
  BY <1>4, <1>5
<1>7. \A w \in Workers : work[w] = Resting /\ work[w].pc = "take"
  BY DEF Init, Resting
<1>12. \A todo : Idle(todo).pc = "idle" /\ Idle(todo).todo = todo
  BY DEF Idle
<1>8. \A t \in Threads : api[t].pc = "idle"
  BY <1>5, <1>12
<1>9. \A c \in Clients : api[c].todo = [n \in DOMAIN program[c] |-> <<c, n>>]
  BY <1>5, <1>12 DEF Threads
<1>10. \A id \in Ids(program) : Arrived(id) = {}
  BY DEF Init, Arrived
<1>11. QED
  BY <1>1, <1>3, <1>6, <1>7, <1>8, <1>9, <1>10

LEMMA InitShapes ==
  ASSUME Init
  PROVE  Shapes
<1>1. \A c \in Clients : api[c].todo \in Seq(Ids(program))
  <2>1. ASSUME NEW c \in Clients
        PROVE  [n \in DOMAIN program[c] |-> <<c, n>>] \in Seq(Ids(program))
    <3>1. ProgramOK(program)
      BY InitFacts
    <3>2. c \in DOMAIN program /\ Len(program[c]) \in Nat /\ DOMAIN program[c] = 1..Len(program[c])
      BY <3>1 DEF ProgramOK
    <3>3. \A n \in DOMAIN program[c] : <<c, n>> \in Ids(program)
      BY <3>2 DEF Ids, TopIds
    <3> DEFINE k == Len(program[c])
               f == [n \in DOMAIN program[c] |-> <<c, n>>]
    <3>4. f = [n \in 1..k |-> <<c, n>>]
      BY <3>2
    <3>5. \A n \in 1..k : <<c, n>> \in Ids(program)
      BY <3>2, <3>3
    <3>6. k \in Nat
      BY <3>2
    <3> HIDE DEF k
    <3>7. [n \in 1..k |-> <<c, n>>] \in Seq(Ids(program))
      BY <3>5, <3>6
    <3>8. QED
      BY <3>4, <3>7
  <2>2. QED
    BY <2>1, InitFacts
<1>2. \A w \in Workers : api[w].todo \in Seq(Ids(program))
  <2>1. Idle(<<>>).todo = <<>>
    BY DEF Idle
  <2>2. \A w \in Workers : api[w].todo = <<>>
    BY <2>1, InitFacts
  <2>3. <<>> \in Seq(Ids(program))
    OBVIOUS
  <2>4. QED
    BY <2>2, <2>3
<1>3. DOMAIN api = Threads /\ \A t \in Threads : DOMAIN api[t] = ApiFields /\ api[t].todo \in Seq(Ids(program))
  BY <1>1, <1>2 DEF Init, Threads, Idle, ApiFields
<1>4. DOMAIN work = Workers /\ \A w \in Workers : DOMAIN work[w] = WorkFields
  BY DEF Init, Resting, WorkFields
<1>5. DOMAIN call = Ids(program) /\ \A id \in Ids(program) : DOMAIN call[id] = CallFields /\ Arrived(id) = {}
  BY DEF Init, CallFields, Arrived
<1>6. /\ jobs \in [Ranks -> Seq(JobSet)] /\ DOMAIN outcome = Ranks /\ DOMAIN jobsLock = Ranks
      /\ queue \in [Queues -> Seq([rank : Ranks, job : JobSet])]
  BY DEF Init
<1>7. program \in Programs
  BY InitFacts
<1>8. QED
  BY <1>3, <1>4, <1>5, <1>6, <1>7 DEF Shapes

LEMMA InitJobs ==
  ASSUME Init
  PROVE  JobInv
<1>1. \A r : Fresh(r)
  BY InitFacts DEF Fresh
<1>2. \A w \in Workers : ~HasFifo(w)
  BY InitFacts DEF HasFifo
<1>3. Shapes
  BY InitShapes
<1>4. Places /\ QueueHeads /\ WorkHeads
  BY <1>2, InitFacts DEF Places, Home, QueuedOnce, OneWorker, NotBoth, Served, QueueHeads, WorkHeads
<1>5. Calling /\ Apart /\ Gathered
  BY InitFacts DEF Calling, Apart, Gathered, CbPhase
<1>6. GoesOn /\ Gathering /\ OnceOnly
  BY InitFacts DEF GoesOn, Gathering, OnceOnly
<1>7. Distinct
  <2>1. \A r \in Ranks : DOMAIN jobs[r] = {}
    BY InitFacts
  <2>2. QED
    BY <2>1 DEF Distinct
<1>8. Locked /\ Frames /\ PendingFresh /\ BodiesFresh
  BY <1>1, InitFacts DEF Locked, Frames, PendingFresh, BodiesFresh, BodyIsFresh, Before
<1>9. Names
  <2>1. ASSUME NEW c \in Clients
        PROVE  Named(c)
    <3>1. api[c].pc = "idle" /\ api[c].todo = [n \in DOMAIN program[c] |-> <<c, n>>]
      BY InitFacts DEF Threads
    <3>2. c \notin Workers
      BY JobCallsAssumption
    <3>3. \A n \in DOMAIN api[c].todo : api[c].todo[n] \in Ids(program)
      BY <1>3 DEF Shapes, Threads
    <3>4. \A id \in Mine(c) : Len(id) = 2 /\ id[1] = c
      BY <3>1 DEF Mine
    <3>5. \A m, n \in DOMAIN api[c].todo : api[c].todo[m] = api[c].todo[n] => m = n
      BY <3>1
    <3>6. QED
      BY <3>1, <3>2, <3>3, <3>4, <3>5 DEF Named
  <2>2. ASSUME NEW w \in Workers
        PROVE  Named(w)
    <3>1. api[w].pc = "idle" /\ DOMAIN api[w].todo = {}
      BY InitFacts DEF Idle
    <3>2. Mine(w) = {}
      BY <3>1 DEF Mine
    <3>3. QED
      BY <3>1, <3>2 DEF Named
  <2>3. QED
    BY <2>1, <2>2 DEF Names, Named, Threads
<1>10. QED
  BY <1>3, <1>4, <1>5, <1>6, <1>7, <1>8, <1>9 DEF JobInv, Good, Aside


LEMMA ApiSameProgram ==
  ASSUME NEW t \in Threads, ApiStep(t)
  PROVE  program' = program
BY DEF ApiStep, Begin, GetSlots, GetFails, Unget, SetJobs, DoJobs, AddJobs, AddQueue, Added,
       Woken, InlineLock, InlineLaunch, InlinePolled, InlineEnd, FreeSet, Joined, flags

LEMMA WorkSameProgram ==
  ASSUME NEW w \in Workers, WorkStep(w)
  PROVE  program' = program
BY DEF WorkStep, CallbackStep, Take, Exit, Lock, RunCopy, RunLaunch, Polled, RunSync, Advance,
       Fail, Drop, Unlock, CbArrive, CbLast, CbPop, CbInsert, CbLock, CbStart, CbEnd,
       GlobalQueue, GlobalAdvance, GlobalSkip, GlobalEnd, FreeMaster, flags

(* Every step keeps the invariant. *)
LEMMA NextJobs ==
  ASSUME JobInv, [Next]_vars
  PROVE  JobInv'
<1>1. /\ Good /\ Aside /\ Gathered /\ Apart /\ Locked /\ Frames /\ Names /\ PendingFresh /\ BodiesFresh
      /\ Shapes /\ WorkHeads /\ Calling /\ Mindful
  BY DEF JobInv, Good, Mindful
<1>2. CASE \E t \in Threads : ApiStep(t)
  <2>1. PICK t \in Threads : ApiStep(t)
    BY <1>2
  <2>2. program' = program
    BY <2>1, ApiSameProgram
  <2>3. (Calm(t) \/ Appends(t)) /\ api[t] # Idle(<<>>)
    BY <1>1, <2>1, <2>2, ApiKinds, ApiBusy
  <2>4. Well' /\ Typed /\ \A r \in Ranks : RankStep(r)
    BY <1>1, <2>3, ApiRanks
  <2>5. Aside' /\ Calling' /\ Apart' /\ Gathered'
    BY <1>1, <2>3, <2>4, ApiAside
  <2>6. Locked' /\ Frames' /\ Names' /\ Shapes'
    BY <1>1, <2>3, <2>4, ApiLocked, ApiFramed, ApiNamed, ApiShapes
  <2>7. PendingFresh' /\ BodiesFresh'
    BY <1>1, <2>3, CalmPending, AppendsPending, ApiBodies
  <2>8. QED
    BY <2>4, <2>5, <2>6, <2>7 DEF JobInv, Good, Well
<1>3. CASE \E w \in Workers : WorkStep(w)
  <2>1. PICK w \in Workers : WorkStep(w)
    BY <1>3
  <2>2. program' = program
    BY <2>1, WorkSameProgram
  <2>3. Does(w)
    BY <1>1, <2>1, <2>2, WorkKinds
  <2>4. Well' /\ Typed /\ \A r \in Ranks : ServeStep(r)
    BY <1>1, <2>3, WorkRanks
  <2>5. \A r \in Ranks : RankStep(r)
    BY <2>4 DEF RankStep
  <2>6. Aside' /\ Calling' /\ Apart' /\ Gathered'
    BY <1>1, <2>3, <2>5, WorkAside, WorkCalling, WorkApart, WorkGathered
  <2>7. Locked' /\ Frames' /\ Names' /\ Shapes'
    BY <1>1, <2>3, <2>4, WorkLocked, WorkFramed, WorkNamed, WorkShapes
  <2>8. PendingFresh' /\ BodiesFresh'
    BY <1>1, <2>3, <2>4, WorkPending, WorkBodies
  <2>9. QED
    BY <2>4, <2>6, <2>7, <2>8 DEF JobInv, Good, Well
<1>4. CASE UNCHANGED vars
  <2>1. UNCHANGED <<program, call, jobs, queue, jobsLock, api, work, outcome>>
    BY <1>4 DEF vars
  <2> USE DEF Call, RanksOf, RankSet, Arrived, Cb, Blocking, Single, Blocks, InQueue, HasFifo, Served
  <2>2. Shapes'
    BY <1>1, <2>1 DEF Shapes, JobSet
  <2>3. Calling' /\ Apart'
    BY <1>1, <2>1 DEF Calling, Apart
  <2>4. Places' /\ QueueHeads' /\ WorkHeads'
    BY <1>1, <2>1 DEF Good, Places, Home, QueuedOnce, OneWorker, NotBoth, QueueHeads, WorkHeads
  <2>5. Aside'
    <3>1. GoesOn' /\ Gathering'
      BY <1>1, <2>1 DEF Aside, GoesOn, Parked, Gathering, ParkedUnder
    <3>2. OnceOnly' /\ Distinct'
      BY <1>1, <2>1 DEF Aside, OnceOnly, Distinct, Ahead
    <3>3. QED
      BY <3>1, <3>2 DEF Aside
  <2>6. Gathered'
    <3>1. \A r, id : ParkedUnder(r, id)' <=> ParkedUnder(r, id)
      BY <2>1 DEF ParkedUnder
    <3> HIDE DEF Call, Cb, Blocking, Single, RanksOf, InQueue, Served, HasFifo
    <3>2. \A v : /\ Cb(v)' = Cb(v) /\ RanksOf(Cb(v))' = RanksOf(Cb(v))
                 /\ (Blocking(v)' <=> Blocking(v)) /\ (Single(v)' <=> Single(v))
      BY <2>1 DEF Call, Cb, Blocking, Single, RanksOf
    <3>3. \A v \in Workers :
            work'[v].pc \in {"cblock", "cbstart", "cbrun", "global"} /\ Blocking(v)' /\ Single(v)' =>
              \A i \in DOMAIN RanksOf(Cb(v)) :
                RanksOf(Cb(v))[i] # work'[v].rank /\ (work'[v].pc = "global" => i >= work'[v].k) =>
                  \A r, id : r = RanksOf(Cb(v))[i] /\ id = Cb(v) => ParkedUnder(r, id)'
      BY <1>1, <2>1, <3>1, <3>2 DEF Gathered
    <3>4. QED
      BY <3>2, <3>3 DEF Gathered, ParkedUnder, InQueue, Served
  <2>7. Locked' /\ Frames'
    BY <1>1, <2>1 DEF Locked, AddRank, Frames
  <2>8. Names'
    BY <1>1, <2>1 DEF Names, Mine
  <2>9. PendingFresh' /\ BodiesFresh'
    BY <1>1, <2>1 DEF PendingFresh, BodiesFresh, BodyIsFresh, Fresh
  <2>10. QED
    BY <2>2, <2>3, <2>4, <2>5, <2>6, <2>7, <2>8, <2>9 DEF JobInv, Good
<1>5. QED
  BY <1>2, <1>3, <1>4 DEF Next


-----------------------------------------------------------------------------
(***************************************************************************)
(* The theorems.                                                            *)
(***************************************************************************)
(* The invariant holds in every state: what the workers and the callers     *)
(* know of the FIFOs when no mutex is held (dpu_thread_job_fct, add_jobs).  *)
THEOREM JobInvariant == Spec => []JobInv
<1>1. Init => JobInv
  BY InitJobs
<1>2. JobInv /\ [Next]_vars => JobInv'
  BY NextJobs
<1>3. QED
  BY <1>1, <1>2, PTL DEF Spec

LEMMA AtMostOne ==
  ASSUME NEW S, \A x, y \in S : x = y
  PROVE  Cardinality(S) \in {0, 1} /\ (S = {} => Cardinality(S) = 0)
<1>1. CASE S = {}
  BY <1>1, FS_EmptySet
<1>2. CASE S # {}
  <2>1. PICK x : S = {x}
    BY <1>2
  <2>2. QED
    BY <1>2, <2>1, FS_Singleton
<1>3. QED
  BY <1>1, <1>2

(* ScheduledOnce counts the places of a FIFO; the invariant says that they *)
(* exclude each other. *)
LEMMA OnceScheduled ==
  ASSUME JobInv
  PROVE  ScheduledOnce
<1>1. Places /\ QueueHeads /\ GoesOn
  BY DEF JobInv, Good, Aside
<1>2. ASSUME NEW r \in Ranks
      PROVE  /\ Cardinality(Queued(r)) + Cardinality(Serving(r)) <= 1
             /\ jobs[r] = <<>> => Queued(r) = {}
             /\ jobs[r] # <<>> /\ Queued(r) = {} /\ Serving(r) = {} => Parked(r)
  <2>1. QueueOf[r] \in Queues
    BY JobCallsAssumption
  <2>2. (InQueue(r) <=> Queued(r) # {}) /\ (Served(r) <=> Serving(r) # {})
    BY DEF InQueue, Queued, Served, Serving
  <2>3. \A m, n \in Queued(r) : m = n
    BY <1>1, <2>1 DEF Places, QueuedOnce, Queued
  <2>4. \A v, w \in Serving(r) : v = w
    BY <1>1 DEF Places, OneWorker, Serving
  <2>5. Queued(r) = {} \/ Serving(r) = {}
    BY <1>1, <2>2 DEF Places, NotBoth
  <2>6. /\ Cardinality(Queued(r)) \in {0, 1} /\ (Queued(r) = {} => Cardinality(Queued(r)) = 0)
        /\ Cardinality(Serving(r)) \in {0, 1} /\ (Serving(r) = {} => Cardinality(Serving(r)) = 0)
    BY <2>3, <2>4, AtMostOne
  <2>7. Cardinality(Queued(r)) + Cardinality(Serving(r)) <= 1
    BY <2>5, <2>6
  <2>8. jobs[r] = <<>> => Queued(r) = {}
    BY <1>1, <2>1 DEF QueueHeads, Queued
  <2>9. QED
    BY <1>1, <2>2, <2>7, <2>8 DEF GoesOn
<1>3. QED
  BY <1>2 DEF ScheduledOnce

(* A FIFO with jobs is in its queue once, with one worker, or parked, and   *)
(* an empty one in no queue: no two workers run jobs of one rank, and none  *)
(* is left behind (STAILQ_EMPTY in add_jobs, the last step of advance, the  *)
(* wake-ups of callbacks).                                                  *)
THEOREM FifosScheduledOnce == Spec => []ScheduledOnce
<1>1. JobInv => ScheduledOnce
  BY OnceScheduled
<1>2. QED
  BY <1>1, JobInvariant, PTL

(* The job pointer that a queue or a worker keeps while no mutex is held is *)
(* the first of its FIFO, whose slot nobody can have reused                 *)
(* (dpu_thread_job_fct).                                                    *)
THEOREM FirstJobsKept == Spec => []FirstJob
<1>1. ASSUME JobInv
      PROVE  FirstJob
  <2>1. QueueHeads /\ WorkHeads
    BY <1>1 DEF JobInv, Good
  <2>2. \A r \in Ranks : \A n \in Queued(r) :
          jobs[r] # <<>> /\ queue[QueueOf[r]][n].job = Head(jobs[r])
    <3>1. \A r \in Ranks : QueueOf[r] \in Queues
      BY JobCallsAssumption
    <3>2. QED
      BY <2>1, <3>1 DEF QueueHeads, Queued
  <2>3. \A w \in Workers :
          HasFifo(w) /\ work[w].pc \notin {"drop", "cbinsert"} =>
            jobs[work[w].rank] # <<>> /\ work[w].job = Head(jobs[work[w].rank])
    BY <2>1 DEF WorkHeads
  <2>4. QED
    BY <2>2, <2>3 DEF FirstJob
<1>2. JobInv => FirstJob
  BY <1>1
<1>3. QED
  BY <1>2, JobInvariant, PTL

(* The ranks of a blocking callback: the one of the worker, and the others, *)
(* which are parked. *)
LEMMA AloneInCallback ==
  ASSUME JobInv, NEW w \in Workers, work[w].pc = "cbrun", Blocking(w),
         NEW i \in DOMAIN CbRanks(w), NEW r, r = CbRanks(w)[i], NEW id, id = Cb(w)
  PROVE  /\ jobs[r] # <<>> /\ Head(jobs[r]) = CbJob(id)
         /\ Serving(r) \subseteq {w}
<1>1. /\ Places /\ WorkHeads /\ Calling /\ Gathered /\ HasFifo(w) /\ work[w].pc \in CbPhase
  BY DEF JobInv, Good, HasFifo, CbPhase
<1>2. CASE r = work[w].rank
  <2>1. jobs[r] # <<>> /\ work[w].job = Head(jobs[r])
    BY <1>1, <1>2 DEF WorkHeads
  <2>2. work[w].job = CbJob(id)
    BY <1>1 DEF Calling
  <2>3. Serving(r) \subseteq {w}
    BY <1>1, <1>2 DEF Places, OneWorker, Serving
  <2>4. QED
    BY <2>1, <2>2, <2>3
<1>3. CASE r # work[w].rank
  <2>1. Single(w)
    <3>1. SUFFICES ASSUME ~Single(w) PROVE FALSE
      OBVIOUS
    <3>2. CbRanks(w) = <<work[w].rank>>
      BY <3>1 DEF CbRanks, Single
    <3>3. i = 1
      BY <3>2
    <3>4. QED
      BY <1>3, <3>2, <3>3
  <2>2. CbRanks(w) = RanksOf(Cb(w))
    BY <2>1 DEF CbRanks, Single
  <2>3. ParkedUnder(RanksOf(Cb(w))[i], Cb(w))
    BY <1>1, <1>3, <2>1, <2>2 DEF Gathered
  <2>4. ParkedUnder(r, id)
    BY <2>2, <2>3
  <2>5. QED
    BY <2>4 DEF ParkedUnder, Served, Serving
<1>4. QED
  BY <1>2, <1>3

(* While the function of a blocking callback runs, no other worker runs a   *)
(* job of its ranks, and all that was submitted before it has ended         *)
(* (dpu_thread_job_fct, handle_global_block).                               *)
THEOREM CallbacksAlone == Spec => []CallbackAlone
<1>1. JobInv => CallbackAlone
  BY AloneInCallback DEF CallbackAlone, CbJob
<1>2. QED
  BY <1>1, JobInvariant, PTL


-----------------------------------------------------------------------------
(* The refinement of RankFifo.                                              *)
Shown == [r \in Ranks |-> IF Dropping(r) THEN <<>> ELSE jobs[r]]

FifoNext == [Fifo!Next]_(Fifo!fifoVars)

LEMMA DroppingStays ==
  ASSUME NEW w \in Workers, Worked(w), work[w].pc # "drop", work'[w].pc # "drop"
  PROVE  \A r : Dropping(r)' <=> Dropping(r)
BY DEF Dropping, Worked

(* While its jobs are dropped a FIFO is with the worker that drops them. *)
LEMMA DroppingServes ==
  ASSUME NEW r, Dropping(r)
  PROVE  Served(r) /\ \E v \in Workers : work[v].pc = "drop" /\ work[v].rank = r /\ HasFifo(v)
BY DEF Dropping, Served, HasFifo

(* A step that shows nothing. *)
LEMMA ShowsNothing ==
  ASSUME UNCHANGED <<jobs, outcome>>, \A r \in Ranks : Dropping(r)' <=> Dropping(r)
  PROVE  FifoNext
<1>1. Shown' = Shown /\ outcome' = outcome
  BY DEF Shown
<1>2. QED
  BY <1>1 DEF FifoNext, Fifo!fifoVars, Shown

(* The head of s ends. *)
LEMMA ShowsComplete ==
  ASSUME Shapes, NEW s \in Ranks, jobs[s] # <<>>, ~Dropping(s), Pop(s),
         \A r \in Ranks : Dropping(r)' <=> Dropping(r)
  PROVE  FifoNext
<1>1. /\ jobs' = [jobs EXCEPT ![s] = Tail(@)]
      /\ outcome' = [outcome EXCEPT ![s][Head(jobs[s])] = "done"]
  BY DEF Pop
<1>2. Shown[s] = jobs[s] /\ Shown[s] # <<>>
  BY DEF Shown
<1>3. Shown' = [Shown EXCEPT ![s] = Tail(@)]
  <2>1. \A r \in Ranks : jobs'[r] = IF r = s THEN Tail(jobs[s]) ELSE jobs[r]
    BY <1>1 DEF Shapes
  <2>2. \A r \in Ranks : Shown'[r] = IF r = s THEN Tail(Shown[s]) ELSE Shown[r]
    BY <2>1 DEF Shown
  <2>3. QED
    BY <2>2 DEF Shown
<1>4. outcome' = [outcome EXCEPT ![s][Head(Shown[s])] = "done"]
  BY <1>1, <1>2
<1>5. Fifo!Complete(s)
  BY <1>2, <1>3, <1>4 DEF Fifo!Complete, Shown
<1>6. QED
  BY <1>5 DEF FifoNext, Fifo!Next

(* The jobs of a call are submitted to s. *)
LEMMA ShowsSubmit ==
  ASSUME Good, Frames, PendingFresh, Locked, NEW t \in Threads, Appends(t),
         NEW s, s = AddRank(t), NEW id, id = api[t].id
  PROVE  FifoNext
<1> DEFINE batch == JobsOf(program, id)
           new == {batch[n] : n \in DOMAIN batch}
<1>1. /\ jobs' = [jobs EXCEPT ![s] = @ \o batch]
      /\ outcome' = [outcome EXCEPT ![s] = WithQueued(@, {batch[n] : n \in 1..Need(id)})]
      /\ jobsLock[s] \in {None, t} /\ work' = work /\ api[t].pc \in {"add", "addqueue"}
  BY DEF Appends, Append2
<1>2. /\ id \in Ids(program) /\ s \in Ranks /\ Call(id).op # "free" /\ Shapes
      /\ api[t].i \in DOMAIN RanksOf(id) /\ s = RanksOf(id)[api[t].i]
  BY <1>1, AddFacts DEF Good
<1>3. /\ DOMAIN batch = 1..Need(id) /\ \A n \in DOMAIN batch : batch[n].id = id
  <2>1. /\ batch \in Seq(JobSet) /\ Len(batch) = Need(id)
        /\ \A n \in 1..Need(id) : batch[n].id = id
    BY <1>2, BatchFacts
  <2>2. DOMAIN batch = 1..Len(batch)
    BY <2>1
  <2>3. QED
    BY <2>1, <2>2
<1>4. batch \in AllBatches
  <2>1. batch \in BatchesIn(program)
    BY <1>2 DEF BatchesIn, Call
  <2>2. QED
    BY <1>2, <2>1 DEF AllBatches, Shapes
<1>5. ~Dropping(s)
  <2>1. SUFFICES ASSUME Dropping(s) PROVE FALSE
    OBVIOUS
  <2>2. PICK v \in Workers : work[v].pc = "drop" /\ work[v].rank = s
    BY <2>1 DEF Dropping
  <2>3. jobsLock[s] = v /\ v # None
    BY <2>2, JobCallsAssumption DEF Locked
  <2>4. v = t
    BY <1>1, <2>3
  <2>5. api[v] = Idle(<<>>)
    BY <2>2 DEF Frames
  <2>6. QED
    BY <1>1, <2>4, <2>5 DEF Idle
<1>6. \A r : Dropping(r)' <=> Dropping(r)
  BY <1>1 DEF Dropping
<1>7. new \cap DOMAIN outcome[s] = {}
  <2>1. api[t].i \in Nat
    <3>1. RanksOf(id) \in Seq(Ranks)
      BY <1>2, CallFacts
    <3>2. QED
      BY <1>2, <3>1
  <2>2. \A j \in DOMAIN outcome[s] : j.id # id
    BY <1>1, <1>2, <2>1 DEF PendingFresh
  <2>3. \A j \in new : j.id = id
    BY <1>3
  <2>4. QED
    BY <2>2, <2>3
<1> HIDE DEF batch
<1>8. Shown' = [Shown EXCEPT ![s] = @ \o batch]
  <2>1. \A r \in Ranks : jobs'[r] = IF r = s THEN jobs[s] \o batch ELSE jobs[r]
    BY <1>1, <1>2 DEF Shapes
  <2>2. \A r \in Ranks : Shown'[r] = IF r = s THEN Shown[s] \o batch ELSE Shown[r]
    BY <1>5, <1>6, <2>1 DEF Shown
  <2>3. QED
    BY <2>2 DEF Shown
<1>9. outcome' = [outcome EXCEPT ![s] =
                    [j \in DOMAIN @ \cup new |-> IF j \in DOMAIN @ THEN @[j] ELSE "queued"]]
  BY <1>1, <1>3 DEF WithQueued
<1>10. Fifo!Submit(s)
  BY <1>4, <1>7, <1>8, <1>9 DEF Fifo!Submit, Shown
<1>11. QED
  BY <1>2, <1>10 DEF FifoNext, Fifo!Next


(* The head of s has failed, and those behind it go with it. *)
LEMMA ShowsFail ==
  ASSUME Good, NEW w \in Workers, Worked(w), Fails(w), NEW s, s = work[w].rank
  PROVE  FifoNext
<1>1. /\ jobs' = jobs /\ work[w].pc = "fail" /\ work'[w].pc = "drop" /\ work'[w].rank = s
      /\ outcome' = [outcome EXCEPT ![s] =
                       [j \in DOMAIN @ |-> IF j = Head(jobs[s]) THEN "failed"
                                           ELSE IF @[j] = "queued" THEN "dropped" ELSE @[j]]]
  BY DEF Fails, SameJob
<1>2. HasFifo(w)
  BY <1>1 DEF HasFifo
<1>3. s \in Ranks /\ jobs[s] # <<>>
  BY <1>2, Serving1 DEF Good
<1>4. ~Dropping(s)
  BY <1>1, <1>2 DEF Good, Places, OneWorker, Dropping, HasFifo
<1>5. \A r : Dropping(r)' <=> (Dropping(r) \/ r = s)
  BY <1>1 DEF Dropping, Worked
<1>6. Shown[s] = jobs[s] /\ Shown[s] # <<>>
  BY <1>3, <1>4 DEF Shown
<1>7. Shown' = [Shown EXCEPT ![s] = <<>>]
  <2>1. \A r \in Ranks : Shown'[r] = IF r = s THEN <<>> ELSE Shown[r]
    BY <1>1, <1>5 DEF Shown
  <2>2. QED
    BY <2>1 DEF Shown
<1>8. outcome' = [outcome EXCEPT ![s] =
                    [j \in DOMAIN @ |-> IF j = Head(Shown[s]) THEN "failed"
                                        ELSE IF @[j] = "queued" THEN "dropped" ELSE @[j]]]
  BY <1>1, <1>6
<1>9. Fifo!Fail(s)
  BY <1>6, <1>7, <1>8 DEF Fifo!Fail, Shown
<1>10. QED
  BY <1>3, <1>9 DEF FifoNext, Fifo!Next

(* The jobs that go one after the other have gone already. *)
LEMMA ShowsDrop ==
  ASSUME Good, NEW w \in Workers, Worked(w), Drops(w), NEW s, s = work[w].rank
  PROVE  FifoNext
<1>1. /\ outcome' = outcome /\ work[w].pc = "drop" /\ work'[w].rank = s
      /\ jobs' = [jobs EXCEPT ![s] = Tail(@)]
      /\ work'[w].pc = "drop" \/ (Len(jobs[s]) = 1 /\ work'[w].pc = "unlock")
  BY DEF Drops, SameJob
<1>2. HasFifo(w) /\ Dropping(s)
  BY <1>1 DEF HasFifo, Dropping
<1>3. s \in Ranks /\ jobs[s] # <<>> /\ Shapes
  BY <1>2, Serving1 DEF Good
<1>4. \A r \in Ranks \ {s} : (Dropping(r)' <=> Dropping(r)) /\ jobs'[r] = jobs[r]
  BY <1>1, <1>3 DEF Dropping, Worked, Shapes
<1>5. Dropping(s)' \/ jobs'[s] = <<>>
  <2>1. CASE work'[w].pc = "drop"
    BY <1>1, <2>1 DEF Dropping
  <2>2. CASE Len(jobs[s]) = 1
    <3>1. jobs[s] \in Seq(JobSet) /\ jobs'[s] = Tail(jobs[s])
      BY <1>1, <1>3 DEF Shapes
    <3>2. Tail(jobs[s]) \in Seq(JobSet) /\ Len(Tail(jobs[s])) = 0
      BY <1>3, <2>2, <3>1, TailFacts
    <3>3. QED
      BY <3>1, <3>2, EmptyFacts
  <2>3. QED
    BY <1>1, <2>1, <2>2
<1>6. Shown' = Shown
  <2>1. \A r \in Ranks : Shown'[r] = Shown[r]
    BY <1>2, <1>4, <1>5 DEF Shown
  <2>2. QED
    BY <2>1 DEF Shown
<1>7. QED
  BY <1>1, <1>6 DEF FifoNext, Fifo!fifoVars, Shown

(* A step of a worker is one step of RankFifo or none. *)
LEMMA ShowsWork ==
  ASSUME Good, Gathered, NEW w \in Workers, Does(w)
  PROVE  FifoNext
<1>1. Worked(w) /\ Kinds(w) /\ Shapes /\ Places /\ Calling
  BY DEF Good, Does
<1>2. CASE Fails(w)
  BY <1>1, <1>2, ShowsFail
<1>3. CASE Drops(w)
  BY <1>1, <1>3, ShowsDrop
<1>4. CASE ~Fails(w) /\ ~Drops(w)
  <2>1. work[w].pc # "drop" /\ work'[w].pc # "drop"
    BY <1>1, <1>4 DEF Kinds, Moves, Rests, Takes, Parks, Passes, Lasts, Reaches, Pops, Inserts,
                      AdvancesOther
  <2>2. \A r : Dropping(r)' <=> Dropping(r)
    BY <1>1, <2>1, DroppingStays
  <2>3. CASE Pops(w)
    <3>1. ASSUME NEW s, s = work[w].rank
          PROVE  FifoNext
      <4>1. Pop(s) /\ work[w].pc \in {"advance", "cbpop"}
        BY <2>3, <3>1 DEF Pops
      <4>2. HasFifo(w)
        BY <4>1 DEF HasFifo
      <4>3. s \in Ranks /\ jobs[s] # <<>>
        BY <3>1, <4>2, Serving1 DEF Good
      <4>4. ~Dropping(s)
        BY <1>1, <3>1, <4>1, <4>2 DEF Places, OneWorker, Dropping, HasFifo
      <4>5. QED
        BY <1>1, <2>2, <4>1, <4>3, <4>4, ShowsComplete
    <3>2. QED
      BY <3>1
  <2>4. CASE AdvancesOther(w)
    <3>1. ASSUME NEW s, s = GlobalRank(w)
          PROVE  FifoNext
      <4>1. Pop(s)
        BY <2>4, <3>1 DEF AdvancesOther
      <4>2. ParkedUnder(s, Cb(w)) /\ Shrinks(s)
        BY <1>1, <2>4, <3>1, AdvancesOtherStep
      <4>3. s \in Ranks /\ jobs[s] # <<>> /\ ~Served(s)
        BY <4>2 DEF ParkedUnder, Shrinks
      <4>4. ~Dropping(s)
        BY <4>3, DroppingServes
      <4>5. QED
        BY <1>1, <2>2, <4>1, <4>3, <4>4, ShowsComplete
    <3>2. QED
      BY <3>1
  <2>5. CASE ~Pops(w) /\ ~AdvancesOther(w)
    <3>1. UNCHANGED <<jobs, outcome>>
      BY <1>1, <1>4, <2>5 DEF Kinds, Moves, Rests, Takes, Parks, Passes, Lasts, Reaches, Inserts, Still
    <3>2. QED
      BY <2>2, <3>1, ShowsNothing
  <2>6. QED
    BY <2>3, <2>4, <2>5
<1>5. QED
  BY <1>2, <1>3, <1>4

(* Each rank is a FIFO: what a step does to the jobs of a rank is one job   *)
(* submitted by add_jobs, completed at its head, or failed with all behind  *)
(* it dropped (update_status), and no job ends twice.                       *)
THEOREM JobsInOrder == Spec => InOrder
<1>1. Init => Fifo!Init
  <2>1. SUFFICES ASSUME Init PROVE Fifo!Init
    OBVIOUS
  <2>2. \A r \in Ranks : (IF Dropping(r) THEN <<>> ELSE jobs[r]) = <<>>
    BY <2>1, InitFacts
  <2>3. outcome = [r \in Ranks |-> <<>>]
    BY <2>1 DEF Init
  <2>4. QED
    BY <2>2, <2>3 DEF Fifo!Init
<1>2. JobInv /\ [Next]_vars => FifoNext
  <2>1. SUFFICES ASSUME JobInv, [Next]_vars PROVE FifoNext
    OBVIOUS
  <2>2. /\ Good /\ Gathered /\ Locked /\ Frames /\ PendingFresh /\ Shapes /\ WorkHeads
    BY <2>1 DEF JobInv, Good
  <2>3. CASE \E t \in Threads : ApiStep(t)
    <3>1. PICK t \in Threads : ApiStep(t)
      BY <2>3
    <3>2. program' = program
      BY <3>1, ApiSameProgram
    <3>3. Calm(t) \/ Appends(t)
      BY <2>2, <3>1, <3>2, ApiKinds
    <3>4. CASE Calm(t)
      BY <3>4, ShowsNothing DEF Calm, Dropping
    <3>5. CASE Appends(t)
      BY <2>2, <3>5, ShowsSubmit
    <3>6. QED
      BY <3>3, <3>4, <3>5
  <2>4. CASE \E w \in Workers : WorkStep(w)
    <3>1. PICK w \in Workers : WorkStep(w)
      BY <2>4
    <3>2. program' = program
      BY <3>1, WorkSameProgram
    <3>3. Does(w)
      BY <2>2, <3>1, <3>2, WorkKinds
    <3>4. QED
      BY <2>2, <3>3, ShowsWork
  <2>5. CASE UNCHANGED vars
    BY <2>5, ShowsNothing DEF vars, Dropping
  <2>6. QED
    BY <2>1, <2>3, <2>4, <2>5 DEF Next
<1>3. QED
  BY <1>1, <1>2, JobInvariant, PTL DEF Spec, InOrder, FifoNext, Fifo!FifoSpec


=============================================================================
