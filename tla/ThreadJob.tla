------------------------------ MODULE ThreadJob ------------------------------
(***************************************************************************)
(* The job threads of the host API (dpu_thread_job.c).  Each rank has a     *)
(* FIFO of jobs and a fixed number of job slots.  A call of the API takes   *)
(* slots, appends its jobs to the FIFOs of its ranks, and, when             *)
(* synchronous, waits for SYNC jobs at their ends.  A rank whose FIFO was   *)
(* empty joins a queue; a worker takes it from there, locks it, and runs    *)
(* its jobs until the FIFO is empty.  Callback jobs run a function of the   *)
(* application on the worker, which may make calls itself.                  *)
(*                                                                         *)
(* Mutexes held over several steps are variables; a section with one mutex *)
(* is one action, enabled when the mutex is free.  Condition variables are  *)
(* explicit for slots, whose signal is conditional; the one of a queue is   *)
(* broadcast at each insertion, and is the guard of Take.                   *)
(***************************************************************************)
EXTENDS JobCalls

VARIABLES
  program,    \* the program that runs
  call,       \* call[id]: dpu_thread_job_sync, master job and result of a call,
              \* and the ranks whose slots it has lost (history)
  jobs,       \* jobs[r]: api.jobs
  avail,      \* avail[r]: number of slots in api.available_jobs
  jobError,   \* jobError[r]: api.job_error is not DPU_OK
  tidSet,     \* tidSet[r]: api.callback_tid_set
  queue,      \* queue[q]: the ranks to take, each with its first job
  jobsLock,   \* jobsLock[r]: holder of api.jobs_mutex
  queueLock,  \* queueLock[q]: holder of the mutex of the queue
  rankLock,   \* rankLock[r]: holder and depth of the recursive rank mutex
  stop,       \* thread_info.should_stop
  api,        \* api[t]: where thread t is in a call
  work,       \* work[w]: where worker w is in dpu_thread_job_fct
  outcome,    \* outcome[r]: what became of the jobs submitted (history)
  undefined   \* the code has done something undefined

fifos == <<jobs, outcome, queue>>
locks == <<jobsLock, queueLock>>
flags == <<program, tidSet, stop, undefined>>
vars == <<program, call, jobs, avail, jobError, tidSet, queue, jobsLock, queueLock,
          rankLock, stop, api, work, outcome, undefined>>

Call(id) == CallOf(program, id)
RanksOf(id) == Call(id).ranks
RankSet(id) == {RanksOf(id)[i] : i \in DOMAIN RanksOf(id)}

Free == [owner |-> None, depth |-> 0]

Idle(todo) == [pc |-> "idle", todo |-> todo, id |-> None, i |-> 1, got |-> 0,
               master |-> None, inline |-> FALSE, held |-> {}]

Resting == [pc |-> "take", rank |-> None, job |-> None, next |-> None, k |-> 1,
            held |-> {}, failed |-> FALSE]

Init ==
  /\ program \in Programs
  /\ call = [id \in Ids(program) |->
               [left |-> Len(RanksOf(id)), failed |-> FALSE, arrived |-> {},
                master |-> None, lost |-> {}, answer |-> "none"]]
  /\ jobs = [r \in Ranks |-> <<>>]
  /\ avail = [r \in Ranks |-> NrJobs]
  /\ jobError = [r \in Ranks |-> FALSE]
  /\ tidSet = [r \in Ranks |-> FALSE]
  /\ queue = [q \in Queues |-> <<>>]
  /\ jobsLock = [r \in Ranks |-> None]
  /\ queueLock = [q \in Queues |-> None]
  /\ rankLock = [r \in Ranks |-> Free]
  /\ stop = FALSE
  /\ api = [t \in Threads |->
              Idle(IF t \in Clients THEN [n \in DOMAIN program[t] |-> <<t, n>>] ELSE <<>>)]
  /\ work = [w \in Workers |-> Resting]
  /\ outcome = [r \in Ranks |-> <<>>]
  /\ undefined = FALSE

-----------------------------------------------------------------------------
(***************************************************************************)
(* Slots, locks and ends of jobs.                                           *)
(***************************************************************************)
(* Nothing is said of a run after something undefined. *)
At(t, pc) == ~undefined /\ api[t].pc = pc

(* The rank of the k-th slots of the call of frame f; beyond its ranks, the *)
(* one whose slot becomes the master job.                                   *)
PlaceOf(f, k) == IF k <= Len(RanksOf(f.id)) THEN RanksOf(f.id)[k] ELSE f.master

Need(id) == Len(JobTypes(Call(id)))

(* How many slots are wanted of it: there is one master job. *)
Wants(f) == IF f.i <= Len(RanksOf(f.id)) THEN Need(f.id) ELSE 1

(* The rank whose slots t is after, and how many. *)
SlotRank(t) == PlaceOf(api[t], api[t].i)
Wanted(t) == Wants(api[t])

Sleepers(r) == {t \in Threads : At(t, "asleep") /\ SlotRank(t) = r}

(* Wrong: nobody is woken. *)
ReleaseSlotSilently(r, frames) ==
  avail' = [avail EXCEPT ![r] = @ + 1] /\ api' = frames

(* A slot of r is back; only the first one wakes a thread, and only one.    *)
(* frames is what api becomes otherwise.                                    *)
ReleaseSlot(r, frames) ==
  /\ avail' = [avail EXCEPT ![r] = @ + 1]
  /\ \/ /\ avail[r] = 0
        /\ \E t \in Sleepers(r) : api' = [frames EXCEPT ![t].pc = "get"]
     \/ /\ avail[r] # 0 \/ Sleepers(r) = {}
        /\ api' = frames

LockRank(r, t) ==
  /\ rankLock[r].owner \in {None, t}
  /\ rankLock' = [rankLock EXCEPT ![r] = [owner |-> t, depth |-> @.depth + 1]]

Released(lock, n) == IF lock.depth = n THEN Free ELSE [lock EXCEPT !.depth = @ - n]

UnlockRank(r) == rankLock' = [rankLock EXCEPT ![r] = Released(@, 1)]

(* Wrong: the newest job is taken off. *)
PopNewest(r) ==
  /\ jobs' = [jobs EXCEPT ![r] = SubSeq(@, 1, Len(@) - 1)]
  /\ outcome' = [outcome EXCEPT ![r][jobs[r][Len(jobs[r])]] = "done"]

(* The head of the FIFO of r has ended. *)
Pop(r) ==
  /\ jobs' = [jobs EXCEPT ![r] = Tail(@)]
  /\ outcome' = [outcome EXCEPT ![r][Head(jobs[r])] = "done"]

(* Wrong: the job is read before the head is popped. *)
NextJobBeforePop(r) == IF Len(jobs[r]) < 2 THEN None ELSE jobs[r][1]

NextJob(r) == IF Len(jobs[r]) < 2 THEN None ELSE jobs[r][2]

Entry(r, job) == [rank |-> r, job |-> job]

(* The call returns to the application. *)
Return(t, answer) ==
  /\ call' = [call EXCEPT ![api[t].id].answer = answer]
  /\ api' = [api EXCEPT ![t] = Idle(@.todo)]

-----------------------------------------------------------------------------
(***************************************************************************)
(* A call of the API.                                                       *)
(***************************************************************************)

(* Does the thread run the job itself?  callback_tid_set is read without a  *)
(* lock, three times in a call: Begin, SetJobs, DoJobs.                     *)
RunsInline(id) ==
  /\ Call(id).op # "sync"
  /\ Call(id).sync
  /\ Len(RanksOf(id)) = 1
  /\ tidSet[RanksOf(id)[1]]

Begin(t) ==
  /\ At(t, "idle") /\ api[t].todo # <<>>
  /\ LET id == Head(api[t].todo)
     IN  /\ Call(id).op # "free"
         /\ api' = [api EXCEPT ![t] =
                      [Idle(Tail(@.todo)) EXCEPT
                        !.pc = IF RunsInline(id) THEN "set" ELSE "get",
                        !.id = id, !.inline = RunsInline(id)]]
  /\ UNCHANGED <<call, fifos, avail, jobError, locks, rankLock, work, flags>>

(* dpu_callback takes the slot of the master job from the first rank, or,   *)
(* when nonblocking, from one with the most slots by an unlocked count.     *)
MasterRanks(id) == IF Call(id).nonblocking THEN RankSet(id) ELSE {RanksOf(id)[1]}

GetSlots(t) ==
  /\ At(t, "get")
  /\ LET id == api[t].id
         r  == SlotRank(t)
         n  == IF avail[r] < Wanted(t) - api[t].got THEN avail[r] ELSE Wanted(t) - api[t].got
         i  == api[t].i
     IN  /\ jobsLock[r] = None /\ ~jobError[r]
         /\ avail' = [avail EXCEPT ![r] = @ - n]
         /\ \/ /\ api[t].got + n < Wanted(t)
               /\ api' = [api EXCEPT ![t].pc = "asleep", ![t].got = @ + n]
            \/ /\ api[t].got + n = Wanted(t) /\ i < Len(RanksOf(id))
               /\ api' = [api EXCEPT ![t].i = i + 1, ![t].got = 0]
            \/ /\ api[t].got + n = Wanted(t) /\ i = Len(RanksOf(id)) /\ UsesMaster(Call(id))
               /\ \E m \in MasterRanks(id) :
                    api' = [api EXCEPT ![t].i = i + 1, ![t].got = 0, ![t].master = m]
            \/ /\ api[t].got + n = Wanted(t)
               /\ i = Len(RanksOf(id)) + (IF UsesMaster(Call(id)) THEN 1 ELSE 0)
               /\ api' = [api EXCEPT ![t].pc = "set", ![t].i = 1, ![t].got = 0]
  /\ UNCHANGED <<call, fifos, jobError, locks, rankLock, work, flags>>

(* The rank is in error: the slots of the ranks before it are given back,   *)
(* with its mutex held; slots got on the rank itself are not ("lost").      *)
GetFails(t) ==
  /\ At(t, "get")
  /\ jobsLock[SlotRank(t)] = None /\ jobError[SlotRank(t)]
  /\ LET id   == api[t].id
         lost == call[id].lost \cup (IF api[t].got = 0 THEN {} ELSE {SlotRank(t)})
     IN  \/ /\ api[t].i = 1
            /\ api' = [api EXCEPT ![t] = Idle(@.todo)]
            /\ call' = [call EXCEPT ![id].answer = "error", ![id].lost = lost]
            /\ UNCHANGED jobsLock
         \/ /\ api[t].i > 1
            /\ api' = [api EXCEPT ![t].pc = "unget", ![t].got = 1]
            /\ call' = [call EXCEPT ![id].lost = lost]
            /\ jobsLock' = IF api[t].i > Len(RanksOf(id)) THEN jobsLock
                           ELSE [jobsLock EXCEPT ![SlotRank(t)] = t]
  /\ UNCHANGED <<fifos, avail, jobError, queueLock, rankLock, work, flags>>

(* unget_jobs wakes nobody. *)
Unget(t) ==
  /\ At(t, "unget")
  /\ LET k == api[t].got
         r == RanksOf(api[t].id)[k]
     IN  /\ jobsLock[r] = None
         /\ avail' = [avail EXCEPT ![r] = @ + Need(api[t].id)]
         /\ \/ /\ k + 1 < api[t].i
               /\ api' = [api EXCEPT ![t].got = k + 1]
               /\ UNCHANGED <<call, jobsLock>>
            \/ /\ k + 1 = api[t].i
               /\ Return(t, "error")
               /\ jobsLock' = [x \in Ranks |-> IF jobsLock[x] = t THEN None ELSE jobsLock[x]]
  /\ UNCHANGED <<fifos, jobError, queueLock, rankLock, work, flags>>

(* DPU_THREAD_JOB_SET_JOBS decides again how many jobs there are.  If a     *)
(* callback has begun since, the SYNC job is not set up ("stale"); if one   *)
(* has ended, it writes a job that was not taken.                           *)
SetJobs(t) ==
  /\ At(t, "set")
  /\ LET id  == api[t].id
         now == RunsInline(id)
     IN  \/ /\ api[t].inline /\ ~now
            /\ undefined' = TRUE
            /\ UNCHANGED <<api, call>>
         \/ /\ now \/ ~api[t].inline
            /\ api' = [api EXCEPT ![t].pc = IF now /\ ~api[t].inline THEN "dostale" ELSE "do"]
            /\ call' = [call EXCEPT ![id].master = api[t].master]
            /\ UNCHANGED undefined
  /\ UNCHANGED <<fifos, avail, jobError, locks, rankLock, work, program, tidSet, stop>>

(* do_jobs decides a third time.  A job on the stack, or one that is stale, *)
(* must not be enqueued.                                                    *)
DoJobs(t) ==
  /\ At(t, "do") \/ At(t, "dostale")
  /\ LET id  == api[t].id
         now == RunsInline(id)
     IN  \/ /\ ~now /\ (api[t].inline \/ At(t, "dostale"))
            /\ undefined' = TRUE
            /\ UNCHANGED api
         \/ /\ now \/ (~api[t].inline /\ At(t, "do"))
            /\ api' = [api EXCEPT ![t].pc = IF now THEN "inline" ELSE "add"]
            /\ UNCHANGED undefined
  /\ UNCHANGED <<call, fifos, avail, jobError, locks, rankLock, work, program, tidSet, stop>>

(***************************************************************************)
(* add_jobs: rank after rank, with the mutex of the rank; the mutex of a    *)
(* queue is kept from the first rank inserted to the end.                   *)
(***************************************************************************)
AddRank(t) == RanksOf(api[t].id)[api[t].i]

WithQueued(known, new) ==
  [j \in DOMAIN known \cup new |-> IF j \in DOMAIN known THEN known[j] ELSE "queued"]

Append2(r, id) ==
  /\ jobs' = [jobs EXCEPT ![r] = @ \o JobsOf(program, id)]
  /\ outcome' = [outcome EXCEPT ![r] =
                   WithQueued(@, {JobsOf(program, id)[n] : n \in 1..Need(id)})]

(* Wrong: a worker that runs its last job is taken for one that has gone. *)
StartsWhileLast(r) == Len(jobs[r]) <= 1

(* The rank has to be queued: no worker has its FIFO. *)
Starts(r) == jobs[r] = <<>>

AddedTo(t) == [api[t] EXCEPT !.i = @ + 1,
                 !.pc = IF api[t].i = Len(RanksOf(api[t].id)) THEN "added" ELSE "add"]

AddJobs(t) ==
  /\ At(t, "add")
  /\ LET r == AddRank(t)
         q == QueueOf[r]
     IN  /\ jobsLock[r] = None
         /\ \/ /\ ~Starts(r)
               /\ Append2(r, api[t].id)
               /\ api' = [api EXCEPT ![t] = AddedTo(t)]
               /\ UNCHANGED <<queue, jobsLock>>
            \/ /\ Starts(r) /\ q \in api[t].held
               /\ queue' = [queue EXCEPT ![q] =
                              Append(@, Entry(r, JobsOf(program, api[t].id)[1]))]
               /\ Append2(r, api[t].id)
               /\ api' = [api EXCEPT ![t] = AddedTo(t)]
               /\ UNCHANGED jobsLock
            \/ /\ Starts(r) /\ q \notin api[t].held
               /\ jobsLock' = [jobsLock EXCEPT ![r] = t]
               /\ api' = [api EXCEPT ![t].pc = "addqueue"]
               /\ UNCHANGED fifos
  /\ UNCHANGED <<call, avail, jobError, queueLock, rankLock, work, flags>>

(* The mutex of the queue, taken with the mutex of the rank held. *)
AddQueue(t) ==
  /\ At(t, "addqueue")
  /\ LET r == AddRank(t)
         q == QueueOf[r]
     IN  /\ queueLock[q] = None
         /\ queueLock' = [queueLock EXCEPT ![q] = t]
         /\ queue' = [queue EXCEPT ![q] = Append(@, Entry(r, JobsOf(program, api[t].id)[1]))]
         /\ Append2(r, api[t].id)
         /\ jobsLock' = [jobsLock EXCEPT ![r] = None]
         /\ api' = [api EXCEPT ![t] = [AddedTo(t) EXCEPT !.held = @ \cup {q}]]
  /\ UNCHANGED <<call, avail, jobError, rankLock, work, flags>>

Unheld(held) == [q \in Queues |-> IF q \in held THEN None ELSE queueLock[q]]

Added(t) ==
  /\ At(t, "added")
  /\ queueLock' = Unheld(api[t].held)
  /\ \/ /\ Waits(Call(api[t].id))
        /\ api' = [api EXCEPT ![t].pc = "wait", ![t].held = {}]
        /\ UNCHANGED call
     \/ /\ ~Waits(Call(api[t].id))
        /\ Return(t, "ok")
  /\ UNCHANGED <<fifos, avail, jobError, jobsLock, rankLock, work, flags>>

(* The SYNC jobs of all ranks have ended.  After an error of a synchronous  *)
(* call, all its ranks are usable again.                                    *)
Woken(t) ==
  /\ At(t, "woken")
  /\ LET failed == call[api[t].id].failed
     IN  /\ Return(t, IF failed THEN "error" ELSE "ok")
         /\ jobError' = [r \in Ranks |-> jobError[r] /\ ~(failed /\ r \in RankSet(api[t].id))]
  /\ UNCHANGED <<fifos, avail, locks, rankLock, work, flags>>

-----------------------------------------------------------------------------
(***************************************************************************)
(* Running a job: by a worker, or inline by the thread that makes the call. *)
(***************************************************************************)

(* Wrong: the lock of the callback is kept. *)
LevelsOfLaunch(r) == 1

(* dpu_sync_rank waits on a condition with the rank mutex, which lets go of *)
(* one level; with callback_tid_set one more is unlocked before.            *)
Levels(r) == IF tidSet[r] THEN 2 ELSE 1

LetGo(r) ==
  /\ rankLock[r].depth >= Levels(r)
  /\ rankLock' = [rankLock EXCEPT ![r] = Released(@, Levels(r))]

(* The polling thread, which needs the mutex, has seen the end of the run. *)
Regain(r, t) ==
  /\ rankLock[r].depth = 0
  /\ rankLock' = [rankLock EXCEPT ![r] =
                    [owner |-> t, depth |-> Levels(r)]]

Ends(id, r) == IF r \in Call(id).fails THEN {FALSE, TRUE} ELSE {FALSE}

InlineRank(t) == RanksOf(api[t].id)[1]

InlineLock(t) ==
  /\ At(t, "inline")
  /\ LockRank(InlineRank(t), t)
  /\ api' = [api EXCEPT ![t].pc = "inlinerun"]
  /\ UNCHANGED <<call, fifos, avail, jobError, locks, work, flags>>

(* Outside the callback the thread has locked the rank once only, and waits *)
(* on a condition with a mutex it does not hold.                            *)
InlineLaunch(t) ==
  /\ At(t, "inlinerun") /\ Call(api[t].id).op = "launch"
  /\ \/ /\ LetGo(InlineRank(t))
        /\ UNCHANGED undefined
     \/ /\ rankLock[InlineRank(t)].depth < Levels(InlineRank(t))
        /\ undefined' = TRUE
        /\ UNCHANGED rankLock
  /\ api' = [api EXCEPT ![t].pc = "inlinepoll"]
  /\ UNCHANGED <<call, fifos, avail, jobError, locks, work, program, tidSet, stop>>

InlinePolled(t) ==
  /\ At(t, "inlinepoll")
  /\ Regain(InlineRank(t), t)
  /\ api' = [api EXCEPT ![t].pc = "inlineend"]
  /\ UNCHANGED <<call, fifos, avail, jobError, locks, work, flags>>

(* A copy ends at once; a launch here when it cannot boot.  Slots taken by  *)
(* GetSlots, when it found no callback, are never given back ("lost").      *)
InlineEnd(t) ==
  /\ At(t, "inlineend") \/ At(t, "inlinerun")
  /\ \E failed \in Ends(api[t].id, InlineRank(t)) :
       /\ At(t, "inlinerun") => failed \/ Call(api[t].id).op # "launch"
       /\ api' = [api EXCEPT ![t] = Idle(@.todo)]
       /\ call' = [call EXCEPT ![api[t].id].answer = IF failed THEN "error" ELSE "ok",
                               ![api[t].id].lost =
                                 IF api[t].inline THEN @ ELSE @ \cup {InlineRank(t)}]
  /\ UnlockRank(InlineRank(t))
  /\ UNCHANGED <<fifos, avail, jobError, locks, work, flags>>

-----------------------------------------------------------------------------
(***************************************************************************)
(* A worker: dpu_thread_job_fct.                                            *)
(***************************************************************************)
(* Nothing is said of a run after something undefined. *)
Doing(w, pc) == ~undefined /\ work[w].pc = pc

Goes(w, pc) == work' = [work EXCEPT ![w].pc = pc]

Take(w) ==
  LET q == ServesOf[w]
  IN  /\ Doing(w, "take")
      /\ queueLock[q] = None /\ queue[q] # <<>> /\ ~stop
      /\ work' = [work EXCEPT ![w] = [Resting EXCEPT !.pc = "lock",
                    !.rank = Head(queue[q]).rank, !.job = Head(queue[q]).job]]
      /\ queue' = [queue EXCEPT ![q] = Tail(@)]
      /\ UNCHANGED <<call, jobs, outcome, avail, jobError, locks, rankLock, api, flags>>

Exit(w) ==
  /\ Doing(w, "take") /\ queueLock[ServesOf[w]] = None /\ stop
  /\ Goes(w, "exit")
  /\ UNCHANGED <<call, fifos, avail, jobError, locks, rankLock, api, flags>>

Lock(w) ==
  /\ Doing(w, "lock")
  /\ LockRank(work[w].rank, w)
  /\ Goes(w, "run")
  /\ UNCHANGED <<call, fifos, avail, jobError, locks, api, flags>>

Running(w, type) == Doing(w, "run") /\ work[w].job.type = type

(* A copy ends; a launch ends here only when it cannot boot. *)
RunCopy(w) ==
  /\ Running(w, "copy") \/ Running(w, "launch") \/ Doing(w, "polled")
  /\ \E failed \in Ends(work[w].job.id, work[w].rank) :
       /\ Running(w, "launch") => failed
       /\ Goes(w, IF failed THEN "fail" ELSE "advance")
  /\ UNCHANGED <<call, fifos, avail, jobError, locks, rankLock, api, flags>>

RunLaunch(w) ==
  /\ Running(w, "launch")
  /\ LetGo(work[w].rank)
  /\ Goes(w, "poll")
  /\ UNCHANGED <<call, fifos, avail, jobError, locks, api, flags>>

Polled(w) ==
  /\ Doing(w, "poll")
  /\ Regain(work[w].rank, w)
  /\ Goes(w, "polled")
  /\ UNCHANGED <<call, fifos, avail, jobError, locks, api, flags>>

(* One SYNC job fewer to wait for; the last one signals, for which it needs *)
(* the mutex that the caller holds until it waits.                          *)
Notified(id, failed) ==
  call' = [call EXCEPT ![id].left = @ - 1, ![id].failed = @ \/ failed]

Waiter(id) == {t \in Threads : At(t, "wait") /\ api[t].id = id}

(* Wrong: each rank wakes the caller. *)
AwakeEarly(id) ==
  [t \in Threads |-> IF t \in Waiter(id) THEN [api[t] EXCEPT !.pc = "woken"] ELSE api[t]]

Awake(id) ==
  [t \in Threads |-> IF t \in Waiter(id) /\ call[id].left = 1
                     THEN [api[t] EXCEPT !.pc = "woken"] ELSE api[t]]

RunSync(w) ==
  /\ Running(w, "sync")
  /\ LET id == work[w].job.id
     IN  /\ call[id].left = 1 => Waiter(id) # {}
         /\ Notified(id, FALSE)
         /\ api' = Awake(id)
  /\ Goes(w, "advance")
  /\ UNCHANGED <<fifos, avail, jobError, locks, rankLock, flags>>

Advance(w) ==
  /\ Doing(w, "advance")
  /\ LET r == work[w].rank
     IN  /\ jobsLock[r] = None
         /\ Pop(r)
         /\ ReleaseSlot(r, api)
         /\ work' = [work EXCEPT ![w].job = NextJob(r),
                                 ![w].pc = IF NextJob(r) = None THEN "unlock" ELSE "run"]
  /\ UNCHANGED <<call, queue, jobError, locks, rankLock, flags>>

(* update_status: the rank is in error, and what is in its FIFO is dropped, *)
(* one job at a time, with its mutex held; callers that wait are told.      *)
Fail(w) ==
  /\ Doing(w, "fail")
  /\ LET r == work[w].rank
     IN  /\ jobsLock[r] = None
         /\ jobsLock' = [jobsLock EXCEPT ![r] = w]
         /\ jobError' = [jobError EXCEPT ![r] = TRUE]
         /\ outcome' = [outcome EXCEPT ![r] =
                          [j \in DOMAIN @ |-> IF j = Head(jobs[r]) THEN "failed"
                                              ELSE IF @[j] = "queued" THEN "dropped"
                                              ELSE @[j]]]
  /\ Goes(w, "drop")
  /\ UNCHANGED <<call, jobs, queue, avail, queueLock, rankLock, api, flags>>

Drop(w) ==
  /\ Doing(w, "drop")
  /\ LET r   == work[w].rank
         job == Head(jobs[r])
     IN  /\ \/ /\ job.type = "sync"
               /\ Waiter(job.id) # {}
               /\ Notified(job.id, TRUE)
               /\ ReleaseSlot(r, Awake(job.id))
            \/ /\ job.type # "sync"
               /\ ReleaseSlot(r, api)
               /\ UNCHANGED call
         /\ jobs' = [jobs EXCEPT ![r] = Tail(@)]
         /\ \/ /\ Len(jobs[r]) > 1
               /\ UNCHANGED <<jobsLock, work>>
            \/ /\ Len(jobs[r]) = 1
               /\ jobsLock' = [jobsLock EXCEPT ![r] = None]
               /\ Goes(w, "unlock")
  /\ UNCHANGED <<queue, outcome, jobError, queueLock, rankLock, flags>>

Unlock(w) ==
  /\ Doing(w, "unlock")
  /\ UnlockRank(work[w].rank)
  /\ work' = [work EXCEPT ![w] = Resting]
  /\ UNCHANGED <<call, fifos, avail, jobError, locks, api, flags>>

-----------------------------------------------------------------------------
(***************************************************************************)
(* A callback job.  cb is the call; with a master job the function is       *)
(* called once, by the worker of the last rank to arrive.                   *)
(***************************************************************************)
Cb(w) == work[w].job.id
CbRanks(w) == IF UsesMaster(Call(Cb(w))) THEN RanksOf(Cb(w)) ELSE <<work[w].rank>>
Blocking(w) == ~Call(Cb(w)).nonblocking
Single(w) == UsesMaster(Call(Cb(w)))

(* Wrong: each rank counts for itself. *)
OthersUncounted(w) == {}

(* The ranks that the callback still waits for. *)
Others(w) == RankSet(Cb(w)) \ (call[Cb(w)].arrived \cup {work[w].rank})

Arrives(w) ==
  call' = [call EXCEPT ![Cb(w)].arrived = @ \cup {work[w].rank}]

(* Not the last rank: a blocking callback parks the FIFO of the rank. *)
CbArrive(w) ==
  /\ Running(w, "callback") /\ Single(w) /\ Others(w) # {}
  /\ Arrives(w)
  /\ \/ /\ Blocking(w)
        /\ UnlockRank(work[w].rank)
        /\ work' = [work EXCEPT ![w] = Resting]
     \/ /\ ~Blocking(w)
        /\ Goes(w, "advance")
        /\ UNCHANGED rankLock
  /\ UNCHANGED <<fifos, avail, jobError, locks, api, flags>>

(* The last one: a nonblocking callback lets the FIFO go on.                *)
CbLast(w) ==
  /\ Running(w, "callback") /\ (Single(w) => Others(w) = {})
  /\ Arrives(w)
  /\ \/ /\ ~Blocking(w)
        /\ UnlockRank(work[w].rank)
        /\ Goes(w, "cbpop")
     \/ /\ Blocking(w)
        /\ work' = [work EXCEPT ![w].k = 1, ![w].pc = IF Single(w) THEN "cblock" ELSE "cbstart"]
        /\ UNCHANGED rankLock
  /\ UNCHANGED <<fifos, avail, jobError, locks, api, flags>>

CbPop(w) ==
  /\ Doing(w, "cbpop")
  /\ LET r == work[w].rank
     IN  /\ jobsLock[r] = None
         /\ Pop(r)
         /\ ReleaseSlot(r, api)
         /\ work' = [work EXCEPT ![w].next = NextJob(r),
                       ![w].pc = IF NextJob(r) = None THEN "cbstart" ELSE "cbinsert"]
  /\ UNCHANGED <<call, queue, jobError, locks, rankLock, flags>>

(* The next job was read under the mutex of the FIFO, which is free now. *)
CbInsert(w) ==
  /\ Doing(w, "cbinsert")
  /\ LET r == work[w].rank
         q == QueueOf[r]
     IN  /\ queueLock[q] = None
         /\ queue' = [queue EXCEPT ![q] = Append(@, Entry(r, work[w].next))]
  /\ Goes(w, "cbstart")
  /\ UNCHANGED <<call, jobs, outcome, avail, jobError, locks, rankLock, api, flags>>

CbLock(w) ==
  /\ Doing(w, "cblock")
  /\ LockRank(CbRanks(w)[work[w].k], w)
  /\ work' = [work EXCEPT ![w].k = @ + 1,
                ![w].pc = IF work[w].k = Len(CbRanks(w)) THEN "cbstart" ELSE "cblock"]
  /\ UNCHANGED <<call, fifos, avail, jobError, locks, api, flags>>

InCbRanks(w, r) == \E i \in DOMAIN CbRanks(w) : CbRanks(w)[i] = r

(* The function of the application begins ... *)
CbStart(w) ==
  /\ Doing(w, "cbstart")
  /\ tidSet' = [r \in Ranks |-> tidSet[r] \/ (Blocking(w) /\ InCbRanks(w, r))]
  /\ api' = [api EXCEPT ![w] = Idle(BodyOf(program, Cb(w), work[w].rank))]
  /\ Goes(w, "cbrun")
  /\ UNCHANGED <<call, fifos, avail, jobError, locks, rankLock, program, stop, undefined>>

(* Where a worker goes when the callback is over: the FIFO of a nonblocking *)
(* one is no longer its, and its status is not looked at.                   *)
CbOver(w, failed) ==
  IF ~Blocking(w) THEN [work EXCEPT ![w] = Resting]
  ELSE [work EXCEPT ![w].pc = IF failed THEN "fail" ELSE "advance"]

(* ... and returns. *)
CbEnd(w) ==
  /\ Doing(w, "cbrun") /\ api[w] = Idle(<<>>)
  /\ \E failed \in Ends(Cb(w), work[w].rank) :
       work' = IF Single(w)
               THEN [work EXCEPT ![w].pc = IF Blocking(w) THEN "global" ELSE "master",
                                 ![w].k = 1, ![w].failed = failed]
               ELSE CbOver(w, failed)
  /\ tidSet' = [r \in Ranks |-> tidSet[r] /\ ~(Blocking(w) /\ InCbRanks(w, r))]
  /\ rankLock' = [r \in Ranks |-> IF Blocking(w) /\ Single(w) /\ InCbRanks(w, r)
                                  THEN Released(rankLock[r], 1) ELSE rankLock[r]]
  /\ UNCHANGED <<call, fifos, avail, jobError, locks, api, program, stop, undefined>>

(* handle_global_block: the FIFOs of the other ranks go on.  Their queues   *)
(* are locked when first met, and all unlocked at the end.                  *)
GlobalRank(w) == CbRanks(w)[work[w].k]

GlobalQueue(w) ==
  LET q == QueueOf[GlobalRank(w)]
  IN  /\ Doing(w, "global") /\ work[w].k <= Len(CbRanks(w))
      /\ GlobalRank(w) # work[w].rank
      /\ q \notin work[w].held /\ queueLock[q] = None
      /\ queueLock' = [queueLock EXCEPT ![q] = w]
      /\ work' = [work EXCEPT ![w].held = @ \cup {q}]
      /\ UNCHANGED <<call, fifos, avail, jobError, jobsLock, rankLock, api, flags>>

(* A FIFO that is empty has no job to insert: NULL is dereferenced. *)
GlobalAdvance(w) ==
  LET r == GlobalRank(w)
      q == QueueOf[r]
  IN  /\ Doing(w, "global") /\ work[w].k <= Len(CbRanks(w))
      /\ r # work[w].rank /\ q \in work[w].held /\ jobsLock[r] = None
      /\ Pop(r)
      /\ ReleaseSlot(r, api)
      /\ \/ /\ NextJob(r) # None
            /\ queue' = [queue EXCEPT ![q] = Append(@, Entry(r, NextJob(r)))]
            /\ UNCHANGED undefined
         \/ /\ NextJob(r) = None
            /\ undefined' = TRUE
            /\ UNCHANGED queue
      /\ work' = [work EXCEPT ![w].k = @ + 1]
      /\ UNCHANGED <<call, jobError, locks, rankLock, program, tidSet, stop>>

GlobalSkip(w) ==
  /\ Doing(w, "global") /\ work[w].k <= Len(CbRanks(w))
  /\ GlobalRank(w) = work[w].rank
  /\ work' = [work EXCEPT ![w].k = @ + 1]
  /\ UNCHANGED <<call, fifos, avail, jobError, locks, rankLock, api, flags>>

GlobalEnd(w) ==
  /\ Doing(w, "global") /\ work[w].k > Len(CbRanks(w))
  /\ queueLock' = Unheld(work[w].held)
  /\ work' = [work EXCEPT ![w].pc = "master", ![w].held = {}]
  /\ UNCHANGED <<call, fifos, avail, jobError, jobsLock, rankLock, api, flags>>

(* Wrong: the slot goes to the rank whose worker ran the function. *)
SlotOwnerHere(w) == work[w].rank

SlotOwner(w) == call[Cb(w)].master

(* The slot of the master job goes back to the rank that owns it. *)
FreeMaster(w) ==
  /\ Doing(w, "master")
  /\ jobsLock[SlotOwner(w)] = None
  /\ ReleaseSlot(SlotOwner(w), api)
  /\ call' = [call EXCEPT ![Cb(w)].master = None]
  /\ work' = CbOver(w, work[w].failed)
  /\ UNCHANGED <<fifos, jobError, locks, rankLock, flags>>

-----------------------------------------------------------------------------
(* dpu_free: the workers are told to stop, and joined. *)
FreeSet(t) ==
  /\ At(t, "idle") /\ api[t].todo # <<>> /\ Call(Head(api[t].todo)).op = "free"
  /\ \A q \in Queues : queueLock[q] = None
  /\ stop' = TRUE
  /\ api' = [api EXCEPT ![t] = [Idle(Tail(@.todo)) EXCEPT !.pc = "join",
                                                        !.id = Head(api[t].todo)]]
  /\ UNCHANGED <<call, fifos, avail, jobError, locks, rankLock, work, program, tidSet, undefined>>

Joined(t) ==
  /\ At(t, "join") /\ \A w \in Workers : work[w].pc = "exit"
  /\ Return(t, "ok")
  /\ UNCHANGED <<fifos, avail, jobError, locks, rankLock, work, flags>>

-----------------------------------------------------------------------------
ApiStep(t) ==
  \/ Begin(t) \/ GetSlots(t) \/ GetFails(t) \/ Unget(t) \/ SetJobs(t) \/ DoJobs(t)
  \/ AddJobs(t) \/ AddQueue(t) \/ Added(t) \/ Woken(t)
  \/ InlineLock(t) \/ InlineLaunch(t) \/ InlinePolled(t) \/ InlineEnd(t)
  \/ FreeSet(t) \/ Joined(t)

CallbackStep(w) ==
  \/ CbArrive(w) \/ CbLast(w) \/ CbPop(w) \/ CbInsert(w) \/ CbLock(w) \/ CbStart(w)
  \/ CbEnd(w) \/ GlobalQueue(w) \/ GlobalAdvance(w) \/ GlobalSkip(w) \/ GlobalEnd(w)
  \/ FreeMaster(w)

WorkStep(w) ==
  \/ Take(w) \/ Exit(w) \/ Lock(w) \/ RunCopy(w) \/ RunLaunch(w) \/ Polled(w)
  \/ RunSync(w) \/ Advance(w) \/ Fail(w) \/ Drop(w) \/ Unlock(w) \/ CallbackStep(w)

Next ==
  \/ \E t \in Threads : ApiStep(t)
  \/ \E w \in Workers : WorkStep(w)

Step(t) == ApiStep(t) \/ (t \in Workers /\ WorkStep(t))

(* Each thread is scheduled, a mutex that is free is eventually got, and a  *)
(* launch that runs ends.                                                   *)
Spec == Init /\ [][Next]_vars /\ \A t \in Threads : WF_vars(Step(t))

-----------------------------------------------------------------------------
(***************************************************************************)
(* Properties.                                                              *)
(***************************************************************************)
AllBatches == UNION {BatchesIn(p) : p \in Programs}

AllJobs == UNION {{b[n] : n \in DOMAIN b} : b \in AllBatches}

ApiPcs == {"idle", "get", "asleep", "unget", "set", "do", "dostale", "add", "addqueue",
           "added", "wait", "woken", "inline", "inlinerun", "inlinepoll", "inlineend", "join"}
WorkPcs == {"take", "exit", "lock", "run", "poll", "polled", "advance", "fail", "drop",
            "unlock", "cbpop", "cbinsert", "cblock", "cbstart", "cbrun", "global", "master"}

(* Types, and the bounds of the counters: a rank never has more slots or    *)
(* jobs than nr_jobs, and the count of a SYNC never goes below zero.        *)
TypeOK ==
  /\ program \in Programs
  /\ \A id \in DOMAIN call :
       /\ call[id].left \in 0..Len(RanksOf(id))
       /\ call[id].arrived \subseteq RankSet(id)
       /\ call[id].master \in RankSet(id) \cup {None}
       /\ call[id].answer \in {"none", "ok", "error"}
  /\ \A r \in Ranks :
       /\ jobs[r] \in Seq(AllJobs) /\ Len(jobs[r]) <= NrJobs
       /\ avail[r] \in 0..NrJobs
       /\ rankLock[r].depth \in 0..3 /\ (rankLock[r].depth = 0 <=> rankLock[r] = Free)
  /\ jobsLock \in [Ranks -> Threads \cup {None}]
  /\ queueLock \in [Queues -> Threads \cup {None}]
  /\ jobError \in [Ranks -> BOOLEAN] /\ tidSet \in [Ranks -> BOOLEAN]
  /\ \A t \in Threads : api[t].pc \in ApiPcs
  /\ \A w \in Workers : work[w].pc \in WorkPcs /\ work[w].rank \in Ranks \cup {None}

(* The worker has the FIFO of its rank: it has taken it from the queue and  *)
(* will go on with it.  That of a nonblocking callback goes on without it.  *)
HasFifo(w) ==
  \/ work[w].pc \in {"lock", "run", "poll", "polled", "advance", "fail", "drop", "cbpop",
                     "cbinsert"}
  \/ work[w].pc \in {"cblock", "cbstart", "cbrun", "global", "master"} /\ Blocking(w)

Serving(r) == {w \in Workers : work[w].rank = r /\ HasFifo(w)}
Queued(r) == {n \in DOMAIN queue[QueueOf[r]] : queue[QueueOf[r]][n].rank = r}

(* The FIFO of r waits for the other ranks of a blocking callback. *)
Parked(r) ==
  LET job == Head(jobs[r])
  IN  /\ job.type = "callback" /\ UsesMaster(Call(job.id)) /\ ~Call(job.id).nonblocking
      /\ r \in call[job.id].arrived

(* A FIFO with jobs is in exactly one place: in its queue once, with one    *)
(* worker, or parked; an empty one in no queue.  Otherwise two workers run  *)
(* jobs of one rank, or nobody ever runs them (STAILQ_EMPTY in add_jobs,    *)
(* the last step of advance, and the wake-ups of callbacks).                *)
ScheduledOnce ==
  ~undefined =>
  \A r \in Ranks :
    /\ Cardinality(Queued(r)) + Cardinality(Serving(r)) <= 1
    /\ jobs[r] = <<>> => Queued(r) = {}
    /\ jobs[r] # <<>> /\ Queued(r) = {} /\ Serving(r) = {} => Parked(r)

(* The job in a queue, or the one a worker runs, is the first of the FIFO,  *)
(* whose slot nobody can have reused.  The pointer is kept while no mutex   *)
(* is held.                                                                 *)
FirstJob ==
  ~undefined =>
  /\ \A r \in Ranks : \A n \in Queued(r) :
       jobs[r] # <<>> /\ queue[QueueOf[r]][n].job = Head(jobs[r])
  /\ \A w \in Workers :
       HasFifo(w) /\ work[w].pc \notin {"drop", "cbinsert"} =>
         jobs[work[w].rank] # <<>> /\ work[w].job = Head(jobs[work[w].rank])

(* The slots that the thread with frame f has taken and not yet put in a    *)
(* FIFO, <<k, n>> being the n-th one for the k-th rank of its call; the     *)
(* master job is after the last rank.                                       *)
TakenBy(f) ==
  LET last    == Len(RanksOf(f.id))
      for(ks) == ks \X (1..Need(f.id))
  IN  CASE f.pc \in {"get", "asleep"} -> for(1..(f.i - 1)) \cup ({f.i} \X (1..f.got))
        [] f.pc = "unget" -> for(f.got..(f.i - 1))
        [] f.pc = "set" /\ ~f.inline -> for(1..last) \cup {<<last + 1, 1>> : m \in {f.master} \ {None}}
        [] f.pc \in {"do", "dostale", "inline", "inlinerun", "inlinepoll", "inlineend"} /\ ~f.inline ->
             for(1..last)
        [] f.pc \in {"add", "addqueue"} -> for(f.i..last)
        [] OTHER -> {}

Taken(t) == TakenBy(api[t])

(* Those of rank r, of all threads; and the master jobs in slots of r. *)
Held(r) == UNION {{t} \X {s \in Taken(t) : PlaceOf(api[t], s[1]) = r} : t \in Threads}
Masters(r) == {id \in DOMAIN call : call[id].master = r}

(* Every slot of a rank is in one place: available, in the FIFO, with a     *)
(* thread that is about to use it, or a master job.  None is given back     *)
(* twice, and none is missing but for those of a call that has lost them:   *)
(* it had some of the slots it wanted when the rank failed, or met the      *)
(* beginning of a callback.                                                 *)
SlotsAccounted ==
  ~undefined =>
  \A r \in Ranks :
    LET slots == avail[r] + Len(jobs[r]) + Cardinality(Held(r)) + Cardinality(Masters(r))
    IN  /\ slots <= NrJobs
        /\ slots = NrJobs \/ \E id \in DOMAIN call : r \in call[id].lost

(* The levels of the mutex of rank r that thread t has: a worker one while  *)
(* it has r and runs its jobs or a blocking callback, a second one, and one *)
(* on every other rank, for a single-call callback; who runs a job inline   *)
(* one more.  Who waits for a launch has let go.                            *)
HasRank(w, r) ==
  /\ work[w].rank = r
  /\ \/ work[w].pc \in {"run", "polled", "advance", "fail", "drop", "unlock"}
     \/ work[w].pc \in {"cblock", "cbstart", "cbrun", "global", "master"} /\ Blocking(w)

HasAgain(w, r) ==
  /\ work[w].pc \in {"cblock", "cbstart", "cbrun"} /\ Blocking(w) /\ Single(w)
  /\ \E i \in DOMAIN CbRanks(w) : CbRanks(w)[i] = r /\ (work[w].pc = "cblock" => i < work[w].k)

Base(t, r) ==
  IF t \notin Workers THEN 0
  ELSE (IF HasRank(t, r) THEN 1 ELSE 0) + (IF HasAgain(t, r) THEN 1 ELSE 0)

Inlines(t, r) == api[t].pc \in {"inlinerun", "inlineend"} /\ InlineRank(t) = r
Polls(t, r) == api[t].pc = "inlinepoll" /\ InlineRank(t) = r

Holds(t, r) ==
  IF Polls(t, r) THEN (IF Base(t, r) = 0 THEN 0 ELSE Base(t, r) - 1)
  ELSE Base(t, r) + (IF Inlines(t, r) THEN 1 ELSE 0)

(* The mutex of a rank is with the thread that works on the rank, as many   *)
(* levels deep as it has locked it and not unlocked.  Only the end of a     *)
(* launch may leave one level too many, to a thread that let go of one when *)
(* no callback ran on the rank and of which a callback now waits in turn.   *)
LocksAccounted ==
  ~undefined =>
  \A r \in Ranks : \A t \in Threads :
    IF rankLock[r].owner = t
    THEN \/ rankLock[r].depth = Holds(t, r)
         \/ /\ rankLock[r].depth = Holds(t, r) + 1 /\ Base(t, r) = 0
            /\ \E w \in Workers : Base(w, r) = 1 /\ Polls(w, r)
    ELSE Holds(t, r) = 0

(* A synchronous call that returns DPU_OK has had its jobs run on each of   *)
(* its ranks.                                                               *)
SyncDone ==
  \A id \in TopIds(program) :
    Call(id).sync /\ Call(id).op # "sync" /\ call[id].answer = "ok" =>
      \A r \in RankSet(id) : \A j \in DOMAIN outcome[r] :
        j = [type |-> Call(id).op, id |-> id] => outcome[r][j] = "done"

(* The dpu_thread_job_sync of a call is on the stack of its thread: when it *)
(* has returned, no SYNC job that points to it is left to run.              *)
NoDanglingSync ==
  \A r \in Ranks : \A n \in DOMAIN jobs[r] :
    LET job == jobs[r][n]
    IN  job.type = "sync" /\ call[job.id].answer # "none" =>
          n = 1 /\ \E x \in Serving(r) : work[x].pc = "advance"

(* While the function of a blocking callback runs, nobody else runs a job   *)
(* of its ranks, and every job submitted before it has ended.               *)
CallbackAlone ==
  \A w \in Workers :
    work[w].pc = "cbrun" /\ Blocking(w) =>
      \A i \in DOMAIN CbRanks(w) :
        LET r == CbRanks(w)[i]
        IN  /\ jobs[r] # <<>> /\ Head(jobs[r]) = [type |-> "callback", id |-> Cb(w)]
            /\ Serving(r) \subseteq {w}

(* Each rank is a FIFO, see RankFifo. *)
Dropping(r) == \E w \in Workers : work[w].pc = "drop" /\ work[w].rank = r

Fifo == INSTANCE RankFifo
          WITH Batches <- AllBatches,
               fifo <- [r \in Ranks |-> IF Dropping(r) THEN <<>> ELSE jobs[r]]

InOrder == Fifo!FifoSpec

(* Every call returns. *)
CallsReturn ==
  \A c \in Clients : <>(undefined \/ api[c] = Idle(<<>>))

-----------------------------------------------------------------------------
(***************************************************************************)
(* What the documentation says of the library, and the code does not do.    *)
(***************************************************************************)

(* At the end of a blocking callback every FIFO goes on: the code never     *)
(* inserts, enqueues or unlocks what is not there.                          *)
EveryFifoGoesOn == ~undefined

(* dpu_sync tells whether the operation was successful: when it returns     *)
(* DPU_OK, the jobs submitted before by the same thread have not failed.    *)
ErrorReported ==
  \A id \in TopIds(program) :
    Call(id).op = "sync" /\ call[id].answer = "ok" =>
      \A r \in RankSet(id) : \A j \in DOMAIN outcome[r] :
        j.id[1] = id[1] /\ j.id[2] < id[2] => outcome[r][j] \notin {"failed", "dropped"}

(* A blocking callback blocks the calls to its ranks: no other thread runs  *)
(* a job of one of them while the function runs.                            *)
BlocksCalls ==
  \A w \in Workers : \A t \in Threads \ {w} :
    work[w].pc = "cbrun" /\ Blocking(w) /\ ~undefined =>
      ~(api[t].pc \in {"inlinerun", "inlinepoll", "inlineend"} /\ InCbRanks(w, InlineRank(t)))

(* An asynchronous call gives the control back once its jobs are enqueued. *)
AsyncReturns ==
  \A t \in Threads :
    (api[t].pc # "idle" /\ ~Waits(Call(api[t].id))) ~> (undefined \/ api[t].pc = "idle")

===============================================================================
