# A TLA+ model of PID-Comm

PID-Comm is a library of collective communication between the processing
elements (PEs, "DPUs") of UPMEM memory modules.  This directory holds its
specification in TLA+, the TLC configurations that check it on small instances,
and proofs, checked by TLAPS, of what matters most for every instance.
`PROJECT.json` lists the components, the runs, the mutants that show each
property can fail, the source lines behind each definition, the hazards, the
findings and the theorems.

Paths are relative to `src/`; `U` is `upmem-2021.3.0_opt/src/backends`.

## 1. The system

A *PE* is a processor with 24 hardware threads (*tasklets*), a working memory
and 64 MB of *MRAM*.  Eight PEs in the same place of the eight chips of a rank
form an *entangled group*: the host reads and writes one byte lane of each of
them in every burst.  PEs cannot reach each other; whatever goes from one to
another goes through the registers of the host.

The user lays the PEs out as a hypercube (`axis_len`) and names the axes that
take part in a call with a bitmap such as `"010"`.  PEs that agree in all other
coordinates form a communication group.

| Part | Where | State it keeps | Operations | Hard about it |
|---|---|---|---|---|
| Hypercube manager, collectives | `U/api/src/api/dpu_memory.c` 1034-2095, `pidcomm_lib/support/commlib.h` | shape, arguments per PE | `pidcomm_alltoall`, `_reduce_scatter`, `_all_reduce`, `_allgather`, `_gather`, `_scatter`, `_reduce`, `_broadcast` | three decisions about the shape, in three places, have to fit together |
| Relocation kernels | `pidcomm_lib/data_relocate_*` (8 programs) | a cache per tasklet, three barriers, MRAM | one run | in-place permutation by concurrent tasklets |
| Host transfer | `U/hw/src/rank/hw_dpu_rank.c` 840-5650, `U/hw/src/mappings/xeon_sp/pid_comm.c` | one iteration counter per thread | `hw_*_rns`, `trans_*_rg*` | 32 threads without a lock; index arithmetic in mixed radix |
| MRAM multiplexer | `U/ufi/src/ufi_config.c`, `ufi_runner.c`, `ufi_memory.c` | who owns each MRAM | switch | the host transfer never switches it |
| Rank thread jobs | `U/api/src/api/dpu_thread_job.c` | FIFO and free slots per rank, a queue per NUMA node | get, add, do, sync, callback, error | locks in two orders, error paths |
| Polling thread | `U/api/src/api/dpu_polling.c` | running flags, condition variables | poll, wake, stop | unlocked reads, lost wake-ups |
| DPU runtime | `upmem-2021.3.0_opt/src/dpu-rt/src/syslib` | wait queues, free lists | barrier, mutex, semaphore, handshake, allocators | one table serves every wait queue |
| Rank allocation, sets, loading | `U/api/src`, `U/hw/src/rank` | ranks, programs | alloc, free, load, copy | mostly I/O |

One call of `pidcomm_alltoall`, as an example of how the parts interact:

1. load a relocation kernel, send each PE its arguments, `dpu_launch` (gives the
   MRAM to the PEs, returns when all are done);
2. `dpu_push_xfer` of 8 bytes, whose only use is that it gives the MRAM back to
   the host;
3. `all_to_all`: 32 threads divide the iterations, and each iteration moves a
   number of blocks from one entangled group to another, rotating lanes;
4. a second 8-byte transfer, and a second kernel, from the buffer to
   `target_offset`.

What makes each part correct:

- *kernels*: a kernel returns; it moves every block to its slot and touches
  nothing else; in place, nothing is overwritten before it is read; no tasklet
  works in freed memory;
- *host transfer*: the threads together make every iteration once, and no thread
  writes what another reads or writes;
- *a collective*: every PE gets the right blocks of the right members in the
  right order, whatever the interleaving, and the call returns;
- *thread jobs*: jobs of a rank run in order, one at a time; slots are not lost;
  a synchronous call returns, with an error if there was one;
- *polling*: whoever waits for a launch is woken;
- *runtime*: mutual exclusion, no lost wake-up, blocks of the allocators disjoint.

## 2. The modules

| Module | What it is |
|---|---|
| `RelocateKernels` | the eight kernels as data: passes, barriers, slot arithmetic, and what a kernel is for (`Relocated`) |
| `Relocate` | one run of a kernel on one PE: tasklets, barriers, heap, caches, MRAM |
| `Hypercube` | shapes, groups, `num_comm_dpu`, `num_comm_rg` |
| `CollectiveLaunches` | which kernel each collective launches, with which arguments |
| `HostTransfer` | the iterations of the host threads and their bursts |
| `AllToAll` | the whole call: kernels, multiplexer, host threads; composes all of the above |
| `Exchange` | abstract: what AlltoAll promises, in one step |
| `Collectives` | one call of any of the other seven collectives; composes the same modules |
| `CollectiveResult` | abstract: what those seven promise, in one step |
| `TaskletSync` | barrier, semaphore, handshake and mutex of the DPU runtime, down to atomic bits, wait queues, stop and resume |
| `TaskletPromise` | abstract: which calls of that library may return, and that they do |
| `JobCalls` | the calls an application makes on sets of ranks, as data, and the jobs they give to a rank |
| `ThreadJob` | the job threads of the host API: slots, FIFOs, queues, workers, SYNC and callback jobs, errors |
| `RankFifo` | abstract: what the job threads promise of one rank |
| `RelocateKernelsProofs`, `RelocateProofs`, `RelocateDataProofs`, `HostTransferProofs` | lemmas and theorems about the kernels and the division of a transfer |
| `TaskletSyncProofs` | the same for the synchronisation library: types, sections, table; then the wait queues; then what it promises |
| `ThreadJobProofs`, `ThreadJobSyncProofs`, `ThreadJobSlotProofs` | the same for the job threads: where each FIFO is, and the refinement of `RankFifo`; what synchronous calls learn; where the slots are, who has the mutexes, the types |
| `MCRelocate`, `MCAllToAll`, `MCCollectives`, `MCThreadJob`, `MCTaskletSync` | instances for TLC |

### From code to `Relocate`

A tasklet of a kernel is a record `at[t]`: program counter, pass, and number of
copies made.  The eight programs are one loop nest with different parameters, so
a kernel is a sequence of passes, `Passes(launch)`, and a sequence of entry
barriers, `Entry(launch)`.

| Code | Action |
|---|---|
| `if(tasklet_id == 0) mem_reset()` | `Reset` |
| `barrier_wait` in front of the loops, with the `goto PASS` tests between them | `EntryBarrier` |
| `mem_alloc(2048)` | `Alloc` |
| `mram_read(original_addr, word_cache, ..)` | `Read` |
| `barrier_wait` after the read, and after the write | `LoopBarrier` |
| `mram_write(word_cache, target_addr, ..)` | `Write` |
| return | `Terminated` |

`barrier_wait` is one step: it runs under the lock of the barrier, and the last
tasklet resumes all the others.  `TaskletSync` justifies that: whatever happens in
the wait queues, a tasklet is let through when its round is complete and not
before, and one that has been resumed and one that has not run since look alike.

Abstracted: the element type (the kernels compute sizes in it but move chunks of
2048 bytes), so the unit of an address is a chunk; the last, shorter chunk of a
block, whose length the code computes once for read and write; the 16 - 8
tasklets that return at once.  A DMA transfer of a chunk is one step.

### From code to `AllToAll`

A step of a host thread, `Burst`, moves one block of the 8 PEs of an entangled
group to another group.  The iteration number determines source, destination and
offsets (`TransferList`, after the three thread functions and the three `trans_`
functions); the thread's share of the iterations is `StartPoint`, `IterCount`.
The lane permutations are what `_mm512_rol_epi64`, `_mm512_rol_epi32` and
`_mm512_shuffle_epi8` do to the eight byte lanes.

The variable `mux` is the multiplexer: `RelocateBefore` and `RelocateAfter` give
the MRAM to the PEs if they launch at all, `Claim` and `Join` (the two 8-byte
transfers) give it to the host.  A burst on an MRAM of the PE has no effect.

A kernel is one step, `Relocated`.  That is what `Relocate` justifies: the
kernel returns (`Termination`), and when it does the MRAM is `Relocated` of what
it was (`RelocationDone`); a launch is synchronous and PEs share no memory.  It
is justified only for launches that fit and are race free, so `CallOK` asks just that
of every launch of a call (`RelocateKernels!OneStep`), here and in `Collectives`, and TLC
evaluates it for the calls of each run.

Abstracted: byte interleaving and the bit permutation of MRAM offsets (an MRAM
is an array of blocks for both host and PE); 64-byte alignment; cache flushes;
the 1 MiB between MRAM address 0 and the heap.

`Exchange` has two variables, the call and what has been received, and one step.
`AllToAll!KeepsPromise` maps `received` to what is at `target_offset` once the
call has returned, and to "nothing yet" before, so the property says that the
whole concurrent computation looks like one correct exchange, and that it
happens.  Its liveness is stated as `<>(received # NotYet)`.

### From code to `Collectives`

`Collectives` has the phases of `AllToAll`, and its transfer is built from the
same decoding of iterations (`HostTransfer!EntangledGroup`, `StartPoint`,
`IterCount`, `Lane`).  There is one iteration for every entangled group; an
iteration has a group of its own (`Mine`) among the `Together` groups that
communicate (`Members`), and its number among them is its `Turn`.

| Code | Definition or action |
|---|---|
| kernels before and after the transfer | `RelocateBefore`, `RelocateAfter` (`LaunchesBefore`, `LaunchesAfter`) |
| 8-byte `dpu_push_xfer` | `Claim`, `Join`, `ClaimLast` |
| what a packet of an iteration reads and adds up in the registers (`REDUCE_SCATTER_CPU_*`, `RNS_SUM_*`, `REDUCE_*`, `SCATTER_COPY`, `GATHER_COPY`) | `Combines` |
| where it is written | `Stores` |
| one packet of one iteration of one thread | `Step` |
| `dpu_broadcast_to` | `Broadcast` |

A chunk of data is a record: `of`, the *set of places it has been combined from*,
and `by`, whether it is a copy, a sum or a maximum.  A reduction is a union, with the
rule that a term that is there twice, or has been reduced before, spoils it
(`Combined`); so what tells a right reduction from a wrong one, that each member
is in it once, with the same element, and by the operation asked for, is what the
model keeps, and numbers and data types are left out.  Only AllReduce has a
`reduce_type`, and only two of its functions are given it (`Operation`): on an x axis
shorter than 8 the others add.  The registers start at zero, which is no matter for
a sum, and makes a maximum that of the numbers and zero.  A buffer of the host is
eight more places, one for each lane.

AllGather has two things of its own on an x axis shorter than 8.  Its thread functions
add the offset of the turn to the source as they do to the target
(`SourceBlock`), although a source is one block.  And on x and y axes of 2 PEs each,
`thread_all_gather_22_rns` makes two transfers for an iteration, the one of
`thread_all_gather_24_rns` and then its own (`Transfers`); the second writes over what
the first has written if it has as many blocks.

A thread reads all that an iteration combines before it writes anything of the
packet, so a packet is one step; threads interleave between packets.

Gather and Scatter do not claim the MRAM, so they are called after a call that
has left it to the host; Gather, Scatter and Reduce have one thread function
each, which divides the x axis by 8; Gather reads three axes.  `CallOK` states
these conditions, and `OneStep` for the launches.  That leaves out AllReduce when x
is shorter than 8 and takes no part but others of an entangled group do, along y say:
`clockwise_short` and `modified_reverse_clockwise` then relocate in place without a
barrier, and are no single step (`relocate_unbarriered`).

`CollectiveResult` says for each operation what is where when it returns.  The
bundles in it are the sets of entangled groups that share a buffer of the host.

### From code to `TaskletSync`

A tasklet runs through a program of calls; `pc[t]` is where it is in the library.

| Code | Actions |
|---|---|
| `__acquire(lock, "0")`, at this instruction until the bit is free | `Acquire` |
| `barrier_wait`: count is not 1 / is 1 | `BarrierEnter` / `BarrierOpen` |
| its `while (first != last)`, and the last resume | `WakeNext`, `WakeLast` |
| `sem_take`, `sem_give` | `SemEnter` or `SemTake`; `SemGive`, `WakeTaker` |
| `handshake_notify`, `handshake_wait_for` | `HandshakeFirst` or `HandshakeSecond`, `WakePartner`; `HandshakeRefused`, `Refuse` |
| `mutex_lock`, `mutex_trylock`, `mutex_unlock` | `Locked`; `Locked` or `NotLocked`; `Release` |
| `__release` and return; `__release`, `__stop` | `Release`; `Suspend`, `Stop` |

What a tasklet does between `acquire` and its first `resume`, `release` or `stop`
is one step: all it touches is the object, under its lock, and entries of the table
that no other queue leads to.  The last is not taken on trust, since queues of
several objects are in the table at once: it is what `QueuesIntact` says.

`resume` waits until the other tasklet has stopped.  `barrier_wait` reads the
table entry of a tasklet after it has resumed it.  By then that tasklet could be in
another queue, with another lock.  It is not: the read is the next instruction but
one, and tasklets issue instructions in turn, so the resumed tasklet cannot
return, call and write its entry in between.  The model makes resume and read one
step (`WakeNext`).  With the read as a step of its own in an arbitrary schedule,
`CountsAgree` is violated: the library rests on the pipeline here.

`TaskletPromise` has no locks and no queues.  A call that has begun may return
when the calls made so far allow it: a barrier when its round has begun, a
semaphore when units remain, and so on.  `KeepsPromise` is a refinement in both
directions: a call returns in no other state, and one that may return does, so
no wake-up is lost between the release and the stop.

What a tasklet does after `mutex_trylock` is its own affair; in the programs it
skips the `mutex_unlock` that follows if it has not got the mutex (`ProgramOK`).

Not modelled: a count of a semaphore beyond a byte.

### From code to `ThreadJob`

`ThreadJob` is the path of every asynchronous or synchronous call of the SDK
through `dpu_thread_job.c`.  A thread of the application makes the calls of its
program, a sequence of `JobCalls` records; a worker that runs the function of a
callback makes the calls of its body.  `api[t]` is where a thread is in a call,
`work[w]` where a worker is in `dpu_thread_job_fct`.

| Code | Actions |
|---|---|
| `DPU_THREAD_JOB_GET_JOBS`, `get_jobs`, `get_job_unlocked`, the master job of `dpu_callback` | `Begin`, `GetSlots`; on an error `GetFails`, `Unget` |
| `DPU_THREAD_JOB_SET_JOBS` | `SetJobs` |
| `do_jobs` | `DoJobs`; then `AddJobs`, `AddQueue`, `Added` (`add_jobs`) or `InlineLock` ... `InlineEnd` |
| `wait_sync_job` and what follows it | `Woken` |
| `dpu_thread_job_fct` | `Take`, `Lock`, `Advance`, `Unlock`, `Exit` |
| `dpu_thread_compute_job` | `RunCopy`, `RunLaunch`, `Polled`, `RunSync`, and `Cb...` for a callback |
| `dpu_thread_update_status` | `Fail`, `Drop` |
| `dpu_thread_handle_global_block` | `GlobalQueue`, `GlobalAdvance`, `GlobalSkip`, `GlobalEnd` |
| release of the master job | `FreeMaster` |
| `dpu_thread_job_free` | `FreeSet`, `Joined` |

A mutex held over several steps is a variable (`jobsLock`, `queueLock`, and
`rankLock`, which is recursive and has a depth); a section that takes one mutex
and gives it back is one action.  The condition variable of the slots is
explicit, since its signal is conditional (`ReleaseSlot`) and `unget_jobs` does
not signal; a thread that is woken has to look again (`get`).  That of a queue is
broadcast at each insertion and is the guard of `Take`.  The mutex of a SYNC is
held by the caller from its initialisation until it waits, so the last count
waits for the caller to wait.

Slots are counted, not told apart.  `callback_tid_set` is read three times
without a lock, in `Begin`, `SetJobs` and `DoJobs`; where two answers together
make the code use a job it has not taken or has not set up, `undefined` is set and
nothing more is said of the run.  `outcome`, and `answer` and `lost` of a call,
are history.

Abstracted: what a job copies; the difference between a DPU and a rank as target
of a launch; booting and polling, one step each.  Not modelled: spurious wake-ups,
a synchronous single-call callback, the failure path of
`dpu_thread_job_create`.

`RankFifo` promises of each rank that jobs end one at a time in the order of
submission, that those behind a failed one are dropped, and that none ends
twice.  `InOrder` maps its FIFO to `jobs`, taken as empty while the jobs behind a
failed one are being dropped.

## 3. The runs

| Run | Expectation | Question |
|---|---|---|
| `relocate` | pass | do eight tasklets, interleaved in any way, relocate all blocks? |
| `relocate_unbarriered` | violation | is the launch that AllReduce makes along y with a short x axis safe? |
| `all_to_all` | pass | does AlltoAll implement `Exchange`? |
| `all_to_all_short_y` | violation | does it along y with a short x axis? |
| `collectives` | pass | do the other seven collectives implement `CollectiveResult`? |
| `reduce_overlap` | violation | is every reduction in the host's buffer when Reduce along a long x axis returns? |
| `tasklet_sync` | pass | does the synchronisation library implement `TaskletPromise`? |
| `thread_job` | pass | is each rank a FIFO, served once, that loses no slot, and does every call return? |
| `thread_job_last` | violation | can a blocking callback be the last job of its ranks? |
| `thread_job_error` | violation | does `dpu_sync` report the error of an asynchronous job? |
| `thread_job_blocking` | violation | does a blocking callback block the calls of other threads? |
| `thread_job_overlap` | violation | does an asynchronous call return when another thread enqueues too? |

`relocate` (`Chunks = 2`, `MramSize = 48`): `MCLaunches` takes its launches from
`CollectiveLaunches`, so they are launches the collectives really make.  Every
kernel occurs, barriers of 2, 4 and 8 and no barrier, one and two passes, in
place and not, one and two rounds per tasklet.  Two chunks per block are the
least at which the chunks of one block can be confused; two rounds the least at
which a fast tasklet can meet a slow one in the wrong round.

- `SourceIntact`: nothing is overwritten before it has been read;
- `RelocationDone`: after the return, memory is exactly `Relocated`;
- `CacheAllocated`: `mem_reset` frees no cache in use;
- `PhasesApart`: reading and writing halves of the loop never overlap;
- `Termination`: no tasklet is left in a barrier.

`all_to_all` (`Chunks = 1`, two threads): thirteen calls, chosen to use each of
the three thread functions and every lane permutation on a shape the library
handles, with one, two and sixteen entangled groups (two ranks), with target and
source in the same place and apart, and with either owner of the MRAM at the
start.  A second thread is what it takes to have a race; the arithmetic of the
division for any number of threads is proved (section 5).  A chunk per
block is enough here since a burst moves whole blocks.

- `NoBurstRace`: no thread is about to write what another one is about to read
  or write;
- `MeantForHolder`: at any moment, whatever is in the buffer of a PE is from a
  member of its group and is meant for it;
- `KeepsPromise`: refinement of `Exchange`.

`collectives` (`Chunks = 2`, two threads): 32 calls, chosen to use every thread
function of every operation and, but for the calls left out below, every permutation of
the registers, in groups inside an entangled group and across several, with targets on the
source and apart.
Two chunks per block are the least at which a packet can be written over another of
the same block.  A call starts with the MRAM on the PEs' side where the code
claims it.

- `NoStepRace`: no thread is about to write what another is about to read or
  write; AllReduce and AllGather write to all groups that communicate in every
  iteration;
- `ElementsAligned`: whatever has been reduced is a whole group's, each member
  once and the same element of each: the rotation by the kernel and by the registers
  meet;
- `NothingElseWritten`: no chunk of an MRAM changes outside the blocks that are given to
  the operation, and no buffer of the host unless the result goes there;
- `KeepsPromise`: refinement of `CollectiveResult`.

ReduceScatter, AllReduce and AllGather were also tried once each, with one thread, on
50 choices of axes to communicate along on eleven shapes of up to four entangled groups
(axes of 2, 4, 8 and 16 PEs, at most sixteen PEs in a group).  ReduceScatter is right on
all of them.  AllReduce of sums is right on the 37 that `CallOK` admits, and its transfer
is on the other 13 as well, whose kernel is not; with the maximum it is wrong on 13 of the
37, those with x shorter than 8 for which a function without `reduce_type` is chosen.  AllGather gives
the right result on 36 and a wrong one on 14, those with x shorter than 8 and groups that
span entangled groups, such as (4,4) `01` or (2,2,4) `001`; on four of the 36, (2,2,2) and (2,2,4) with `010` and
`110`, it writes beyond the buffer.  The run has none of these calls.  One of each kind
is in `MCCollectives` (`ShortGatherCalls`, `TwoByTwoGatherCalls`, `ShortMaxCalls`):
given as `Calls`, they violate `KeepsPromise`, `NothingElseWritten` and `ElementsAligned`.

`reduce_overlap` is one more call, Reduce along an x axis of 16.

`tasklet_sync` (four tasklets, six programs): barriers of two and four used again
at once and in turn; a semaphore as a lock and one as a signal; handshakes in both
orders, with one more waiter than can be served; a mutex held over another call, and tried;
queues of several objects in the table at once.  Four tasklets are the least for
queues of two on two objects, and a queue of three is the least with a middle.
Every interleaving is checked.

- `InsideAlone`: a critical section has one tasklet in it;
- `QueuesIntact`: a queue is a cycle through exactly the tasklets suspended in it;
- `CountsAgree`: the count of the object is the one its queue calls for;
- `KeepsPromise`: refinement of `TaskletPromise`; the half of it that has no fairness,
  `NeverEarly`, is proved as well.

Deadlock is checked: a program may end with tasklets that wait for calls nobody
makes (`Halted`), but with nobody in the middle of the library.

`thread_job` (two ranks on one queue, two workers, three slots per rank, seven
programs of one application thread, `MCThreadJob!MCPrograms`).  Two ranks are
the least at which a call has ranks before and behind the one that fails, and a
callback a rank that is not the last.  Two workers are the least at which
two of them could have the same rank.  Three slots are fewer than the programs
submit, so callers sleep, and enough for a callback whose function makes a
synchronous call.  In the programs copies and launches fail on either rank,
before, behind and inside callbacks; callbacks are blocking and not, single-call
and for each rank; bodies make calls inline and through the FIFO.

- `ScheduledOnce`: a rank with jobs is in its queue once, or with one worker, or
  parked by a blocking callback;
- `FirstJob`: the job in the queue, or that a worker runs, is the head of the FIFO;
- `SlotsAccounted`: every slot is free, in the FIFO, with a caller, or a master
  job, or was lost by a call that is known to lose it;
- `LocksAccounted`: the recursive mutex of a rank is as deep as the thread that works
  on the rank has locked it, by its levels as worker, callback and inline call, although
  a launch lets go of one or two of them and asks `callback_tid_set` twice how many;
- `SyncDone`: a synchronous call that returns `DPU_OK` has had its jobs run;
- `NoDanglingSync`: no SYNC job outlives the stack frame it points to;
- `CallbackAlone`: nobody else runs jobs of the ranks of a blocking callback;
- `InOrder`: each rank implements `RankFifo`;
- `CallsReturn`: every call returns.

The passing run leaves out what is known to go wrong, which the four violation
runs show: two threads in `add_jobs` on shared ranks, a blocking single-call
callback that is last in a FIFO; a launch in the function of one on the rank whose
worker runs it (section 4); and a failure ahead of such a callback, which
leaves its other ranks parked (hazard at `dpu_thread_job.c:325`).  Deadlock is
not checked here: programs end, and a worker without a rank rests; `CallsReturn`
says that nobody rests in a call.

### Fairness

`ThreadJob` assumes weak fairness of each thread: the operating system runs each
thread that can run, a launch ends, and the polling thread gets to see it.
Mutexes are waited for by threads that stay enabled once the mutex is free for
good; `CallsReturn` needs no more, as programs are finite.

`TaskletSync` assumes weak fairness of each tasklet: the pipeline issues
instructions of all tasklets in turn.  Calls contend for atomic bits, and weak
fairness suffices since programs are finite.

The other specifications assume `WF_vars(Next)`: some enabled step is eventually
taken.  Nothing is assumed of a particular tasklet or thread, since both the
number of copies and the number of bursts are bounded: what is needed is that a
PE does not stop while a tasklet is ready, which the round-robin pipeline
guarantees, and that the operating system runs some ready thread.

Deadlock checking is on in all runs but those of `ThreadJob`; `Terminated` and `Returned` are the only
final states of kernels and collectives, so a tasklet stuck in a barrier is a deadlock as well as a
violation of `Termination`.

## 4. What the runs found

1. *`relocate_unbarriered`.*  `pidcomm_all_reduce` launches
   `data_relocate_clockwise_short` in place.  If the x axis does not take part,
   the kernel's loop has no barrier and the tasklets overwrite each other's
   source.  TLC shows a run of two tasklets after which a block is lost.  These
   calls of AllReduce are not in `collectives`, which takes a kernel for one step.
2. *`all_to_all_short_y`.*  The kernel before the transfer is launched only if
   the x axis takes part.  With an x axis shorter than 8, the host's transfer and
   the kernel after it take it that blocks have been rotated in the other cases
   too.  With axes (4,2) and `"01"` PEs get blocks of the wrong members.

   Trying all shapes of up to four entangled groups with the same property gives:
   right for every x axis of at least 8; for (2,2,2) with `100`, `110`, `111`;
   (4,4) `11`; (2,4,2) `100`, `001`; (4,2,2) `001`, `111`; wrong for (2,2,2) with
   `010`, `001`, `101`, `011`; (4,2), (2,4), (4,4), (2,8) with `01`; (2,4,2)
   `101`, `010`; (4,2,2) `101`; (2,2,4) `010`, `101`.

3. *`thread_job_last`.*  `dpu_thread_handle_global_block` inserts the next job of
   every other rank in the queue, also when there is none.
4. *`thread_job_error`.*  An error between the moment `dpu_sync` gets its slot and
   the moment it adds its SYNC job is lost: `dpu_sync` returns `DPU_OK`.
5. *`thread_job_blocking`.*  `callback_tid` is not compared with the calling
   thread: a synchronous call of the application is run in the middle of a
   blocking callback, when its function's own launch lets go of the rank.
6. *`thread_job_overlap`.*  `add_jobs` takes the mutexes of ranks and queues in
   both orders; two threads that enqueue on shared ranks may wait for each other
   for ever.
7. *`reduce_overlap`.*  `xeon_sp_trans_reduce_rg` puts packet *i* of the *n*-th
   entangled group at `64*i + 64*n` of the host's buffer if the x axis takes part;
   the other case has `64*iter_length*n`.  With two groups and blocks of two packets
   reductions are written over.  With blocks of one packet (8 bytes), or one group,
   it is right.

Noted while modelling, without a run.  A launch in the function of a callback lets go of
two levels of the rank's mutex, since "Executing 'dpu_launch' inside a 'dpu_callback'
performs two lock of the rank" (`dpu_thread_job.c:153`).  In a blocking single-call
callback there are three on the rank whose worker runs the function: of the worker (378), of
the loop that locks every rank (257-261), of the inline job (530).  The level that
stays keeps the polling thread, which only tries the mutex (`dpu_polling.c:62`), from ever
seeing the end of the launch.

On an x axis shorter than 8 (section 3 has the shapes and the instances):

- AllGather reads beyond its source, from the second entangled group of a group on:
  `thread_all_gather_24_rns` and `thread_all_gather_22_rns` add
  `cur_iter_dst * K * dpu_byte_length` to the source offset (`hw_dpu_rank.c:5315-5333`,
  `5478-5519`), `thread_all_gather_rns` does not (`5166`);
- with x and y axes of 2 PEs, AllGather makes one transfer more than it needs
  (`hw_dpu_rank.c:5591-5592`); along y, but not z, that transfer has twice as many blocks as
  `communication_buffer_offset` has room for, so what is behind the buffer is written over;
- AllReduce with the maximum gives a sum: the functions at `pid_comm.c:1717-2018`, called
  at 3017, 3052, 3117 and 3152, take no `reduce_type`.

Also: Gather and Scatter neither claim the MRAM nor
ask that it be claimed; Gather ignores `comm` and reads three axes of any shape;
`thread_reduce_scatter_22_rns` and its siblings test `dim==1` in a loop that starts at
2, which is wrong if a fourth axis takes part; `pidcomm.h:95` numbers the reductions
from 1, the code from 0.

## 5. What is proved

The first five theorems are about `Relocate!Spec`, for every set of launches,
number of chunks and size of MRAM that the assumptions admit; then two about
the division of a transfer's iterations, for every total and number of threads;
six about `TaskletSync!Spec`, for every number of tasklets and every set of
programs; and twelve about `ThreadJob!Spec`, for every set of ranks, workers and
application threads, every layout of queues, number of slots and set of programs.

| Theorem | States |
|---|---|
| `RelocateProofs!TypeCorrect` | `Spec => []TypeOK` |
| `RelocateProofs!CachesStayAllocated` | `Spec => []CacheAllocated` |
| `RelocateProofs!HalvesApart` | `Spec => []PhasesApart` |
| `RelocateDataProofs!SourcesIntact` | `AllRaceFree(Launches)` implies `Spec => []SourceIntact` |
| `RelocateDataProofs!RelocationCorrect` | `AllRaceFree(Launches)` implies `Spec => []RelocationDone` |
| `HostTransferProofs!IterationsApart` | no iteration is made by two threads |
| `HostTransferProofs!IterationsCovered` | every iteration is made by some thread |
| `TaskletSyncProofs!TypeCorrect` | `Spec => []TypeOK` |
| `TaskletSyncProofs!OneInside` | `Spec => []InsideAlone` |
| `TaskletSyncProofs!EntriesInUse` | `Spec => []TableClosed` |
| `TaskletSyncProofs!QueuesStayIntact` | `Spec => []QueuesIntact` |
| `TaskletSyncProofs!CountsStayRight` | `Spec => []CountsAgree` |
| `TaskletSyncProofs!ReturnsInTime` | `Spec => NeverEarly`, the refinement of `TaskletPromise` without its fairness |
| `ThreadJobProofs!JobInvariant` | `Spec => []JobInv` |
| `ThreadJobProofs!FifosScheduledOnce` | `Spec => []ScheduledOnce` |
| `ThreadJobProofs!FirstJobsKept` | `Spec => []FirstJob` |
| `ThreadJobProofs!CallbacksAlone` | `Spec => []CallbackAlone` |
| `ThreadJobProofs!JobsInOrder` | `Spec => InOrder`, the refinement of `RankFifo` |
| `ThreadJobSyncProofs!SyncsStayInFrame` | `Spec => []NoDanglingSync` |
| `ThreadJobSyncProofs!SyncsTellTheTruth` | `Spec => []SyncDone` |
| `ThreadJobSlotProofs!SlotInvariant` | `Spec => []SlotInv` |
| `ThreadJobSlotProofs!SlotsAreAccounted` | `Spec => []SlotsAccounted` |
| `ThreadJobSlotProofs!LockInvariant` | `Spec => []LockInv` |
| `ThreadJobSlotProofs!LocksAreAccounted` | `Spec => []LocksAccounted` |
| `ThreadJobSlotProofs!JobTypesCorrect` | `Spec => []TypeOK` |

### Kernels

*Assumptions.*  `ChunksAssumption` (blocks are not empty).  `RelocateAssumption`:
each launch is well typed and each of its passes fits (`PassFits`): whole groups
of blocks, in a pass with barriers exactly as many workers as the barrier counts
and the same number of rounds for each, offsets inside the MRAM.  The data
theorems need `AllRaceFree` as well: source and target of a pass are apart, or
the same and held together by barriers.  `relocate_unbarriered` is a launch that
is not race free, and shows the assumption is needed.  TLC evaluates all of them
on the instances.  `OneStep`, which `AllToAll` and `Collectives` ask of each launch, is
the same for one launch: their kernels are what `RelocationCorrect` is about.

*Argument.*  None of the properties is inductive.  What has to be added is, first,
control: which tasklets can be in which barrier at which step of which pass.  A
barrier only opens when as many tasklets as it counts are in it, and the number of
tasklets that can be in the same pass equals that number, so those in a barrier
are all at the same step, and nobody is more than one barrier ahead.  This gives
`CacheAllocated` (nobody gets past the first barrier before `mem_reset`) and
`PhasesApart`.  Second, data: the MRAM at any moment is the one the pass started
from, except that the chunks each tasklet has written so far are in their slots.
`RelocateKernelsProofs` shows that `Slot` is a permutation of the blocks of a
group, that distinct steps write distinct chunks, and that a step's target is a
source of the same round only; with race freedom no write can hit what is still
to be read, and after the last step the description is `Moved` of the pass, and
for two passes the composition, that is, `Relocated`.

### Synchronisation library

*Assumption.*  `SyncAssumption`: programs are typed, handshakes are in one's own
name, the objects of different kinds are different, a barrier is initialised with 1
to 24, and as many tasklets use it as that, or none: fewer could never open it,
and with more a tasklet could go round twice while another is in the queue.  The
kernels meet it: each of their barriers is for the tasklets that come to it.
`MutexAssumption`: a tasklet unlocks a mutex only after it has got it.  The code does
not look: `mutex_unlock` clears the bit whoever calls it, so without this
assumption two tasklets can have one mutex.

*Types and sections.*  `TypeOK` is not inductive, since `BarrierOpen` and `WakeNext`
take the number of the next tasklet to resume from the table, where it might be
`Empty`.  What is added: a tasklet in the library has a call that has not returned
(`Pending`); whatever a queue, an entry or a barrier that opens leads to has an
entry in use (`TableClosed`), which no single step can take away although each queue
has its own lock; and who is in a section holds its bit (`SectionsHeld`), from which
`InsideAlone` follows.  The proof is by part and by action; `CallsStay`, that a step
changes no other tasklet but by resuming it, carries most cases.

*Queues.*  `QueuesIntact` and `CountsAgree` speak of objects whose lock is free; an
inductive invariant has to say what a queue is at every moment.  `Queues` does, by
naming it: there is an *n* and a function from 1..*n* to the tasklets, without
repetition, whose range is exactly the tasklets suspended on the object (less the
one `sem_give` is about to resume, which has left the queue already); `wait_queue`
is its last one, each entry of the table leads to the next one, and the last leads
to the first unless the barrier is opening, when the first is the one that the
opening tasklet has in hand.  The count follows: a barrier has as many to come as
its size less *n*, a semaphore below zero is *n* below.  The tasklets of two objects
are different since a tasklet is suspended on the object of its call, so although
the table is one array, a step on one queue leaves the entries of the others alone
(`Elsewhere`); this is the claim that lets the code do with a lock per object.
Further parts say that whoever is about to be resumed is suspended on the same
object (`Resumable`), and the same for handshakes (`Shaken`).

The properties are stated with iterated links from the last tasklet, and a number
of steps after which the chain has closed.  That the *k*-th link is the *k*-th
element of the function is by induction on *k*.  The library's induction theorems
cannot be used (they take an operator), but its theorem that a set of natural
numbers that is not empty has a least element can: `Smallest`, and from it
`EverySetOfNumbers`, that a set that has 0 and with each number the next has them
all.

*The promise.*  `TaskletPromise` speaks of nothing but how many calls of each kind
have begun and have returned, so that is what the state of the library has to be
tied to.  `PInv` does, beside the queues:

- `Rounds`: the users of a barrier have all gone through it equally often; while
  it opens, those in its queue once less than the others.  With the number of users
  equal to the size of the barrier, and as many in the queue as its count
  says, whoever finds a count of 1 is the last of them (`RoundComplete`), and
  everybody's call of the round has begun;
- `SemUnits`: the count of a semaphore is what it began with, plus what has been
  given, less what has been taken, where a call counts from the step in its
  critical section (`Applied`), long before it returns: so it is known that a suspended
  `sem_take` that is resumed has a unit;
- `CellTotals`, with `Chosen` and `Refusing`: notifications and waits return in
  pairs, and while the second of a pair is about to return one of the two
  is ahead by one;
- `Holding`, `MutexTotals`, `MutexPlaces`: a tasklet has got a mutex as often as given
  it back, once more if the bit is its own;
- `Emptied`, `Takers`: a barrier that has opened has an empty queue; only
  `sem_take` waits on a semaphore.

Counts are cardinalities of sets of pairs of a tasklet and the number of a call in its
program (`Number`); three lemmas say how they change when one tasklet makes one
call (`NumberNext`), when each of a set of tasklets does (`NumberMore`), and that they are at
least the sum over a set (`NumberAtLeast`).  `Returning` lists which calls return in a step: the
tasklet's own, or that of the one it resumes.  The last part takes the
steps one by one: each shows a call, a return, a refusal, a `trylock` in vain, or
nothing (`ShowsStep`).

### Job threads

*Assumption.*  `JobCallsAssumption`: a program gives each application thread a finite
sequence of calls, each on ranks that differ (ranks of a `dpu_set_t` do); functions of callbacks free no
ranks and make callbacks, if any, whose functions make no calls; job threads are not
threads of the application; each queue is served; there are at least two slots,
which a synchronous call needs.

*Invariant.*  A worker reads the first job of a FIFO under `jobsLock`, lets go of
the mutex and runs the job.  That it is still the first when the worker comes back
to remove it depends on where else the FIFO may be meanwhile, so
`ScheduledOnce`, `FirstJob` and `CallbackAlone` are inductive only together, and
with what callbacks do to the FIFOs of other ranks.  `JobInv` consists of

- `Good`: shapes; `Places` (a FIFO is in its own queue once, or with one worker, not
  both); `QueueHeads`, `WorkHeads` (entries and workers keep the head); `Calling`
  (what a worker in the middle of a callback knows of it);
- `Aside`: a FIFO with jobs is queued, served or parked (`GoesOn`); the ranks that
  have come to a blocking callback stay parked until the last has (`Gathering`); where a
  callback has been reached it is never begun again (`OnceOnly`), which needs that
  jobs in a FIFO are different (`Distinct`);
- `Gathered`, `Apart`: from then on the other ranks stay parked until
  `dpu_thread_handle_global_block` reaches them, and no other worker is in the same
  callback, so it is the only one to advance their FIFOs;
- `Locked`: the mutexes held over more than one step, in `update_status` and in
  `add_jobs` between the FIFO and the queue, keep others from the FIFO;
- `Frames`, `Names`, `PendingFresh`, `BodiesFresh`: no call is made twice, and the
  jobs of a call reach a rank once; without this, `Distinct` could not be kept, and the
  "no job ends twice" of `RankFifo` not be shown.

*Argument.*  The steps are sorted before anything is proved about them.  A step of the
API is `Calm`, or it `Appends` the jobs of a call to one FIFO (`ApiKinds`); a step
of a worker is one of eleven `Kinds` (`WorkKinds`).  Each kind does one of five things
to each rank (`WorkRanks`, `ApiRanks`): leaves it where it is, parks it, takes away
the head of its FIFO, moves it from a queue to a worker or back, or appends jobs.  This
is `RankStep`, and the parts of the invariant that are about one rank are kept by it
whoever takes the step; those about workers and threads go by kind.

For the refinement, `Appends` is `Submit` of `RankFifo`, removing a head is
`Complete`, `Fail` is `Fail` (from there the FIFO shown is empty), and the rest,
the dropping of the jobs behind a failed one included, shows nothing.

*Synchronous calls* (`ThreadJobSyncProofs`).  A SYNC job points to a
`dpu_thread_job_sync` on the stack of the caller: a counter of ranks, a flag for
failures, a condition variable.  Workers of several ranks count it down in
`do_sync_job`, from the ordinary path and from the one that drops jobs after a failure;
the last signals the caller, whose frame is gone soon after.  That the signal is one
step with the last count rests on no spurious wake-ups, which the model leaves out.
`SyncInv` is inductive beside `JobInv`:

- `Counting`: the counter is the number of ranks on which the SYNC job has not run
  (`Ran`: it was submitted, and is no longer in the FIFO, or is its head with the worker about
  to remove it).  Initially it is the number of ranks, which differ;
- `Told`, `Unsent`, `Answered`: a caller is woken at 0, returns without having been
  woken only if it has submitted no SYNC job, so after its return all have run;
- `Unreturned`, `BodiesUnreturned`: calls still to be made, those of callbacks included,
  have not returned, so nothing is submitted for a call that has;
- `Proper`, `Waiting`, `Behind`: a SYNC job is directly behind the job it is for, or that
  job has been done; jobs in a FIFO have still to end, unless they are being dropped;
- `RanRight`, `AnsweredRight`: so a SYNC job that has run without reporting a failure
  has run behind a job that is done, and a caller that saw 0 and no failure returns
  `DPU_OK` rightly.

The steps are sorted again: `FifoStep` says of each of five forms what it does to the
outcomes of jobs as well, and `WorkNews` that a step of a worker counts exactly one SYNC job
on one rank (`Counts`) or tells no caller anything.

*Slots* (`ThreadJobSlotProofs`).  The code passes slots on without a record of who
has them, so the sum of `SlotsAccounted` is over sets that exist in the proof only: `Held`,
a triple of thread, batch and number for each slot a thread has taken and not given
on, and `Masters`, the calls that have made a slot their master job.  `SlotInv`
is inductive beside `JobInv`:

- `SlotFrames`: where a thread is in a call says how many whole batches it has and how many
  slots of the next one, and which rank its master job is from;
- `MasterOf`: a call has a master job only if its kind needs one, and
  not before its thread submits;
- `Balance`: free slots, jobs in the FIFO, `Held` and `Masters` of a rank are
  at most `NrJobs`, and less only on a rank in the `lost` of some call.

`Held` and `Masters` change by a batch of slots of one thread and one rank at a time
(`HeldGains`, `HeldGives`); a step of a worker gives a slot of the head of a FIFO
back, to the same rank or, for a master job, to the one it came from (`WorkSlots`).
The invariant says nothing once `undefined` is set.

*Mutexes* (`ThreadJobSlotProofs`).  `rankLock` records an owner and a depth, the code
no reason for either.  `LocksAccounted` gives one: `Holds` counts the levels from where
threads are (a worker with a rank has one, its callback another from `cblock` on, an
inline call one more while it runs).  `LockInv` is inductive beside `JobInv`:

- `Marked`: `callback_tid_set` of a rank says whether some worker is in the function of
  a blocking callback of the rank, so that the two times a launch asks can be compared;
- `LocksNext`: the loop that locks every rank is at a rank of the callback;
- `Kept`: who has a level owns the mutex, and the depth is what `Holds` says, or one more in
  the case that the property allows: a call of another thread let go of one level before
  the callback began, and takes two while a launch has taken the callback's only level.

Each step changes the levels of one thread on one rank, or adds a level on a rank of
a callback whose mutex the worker is then alone with (`CallbackAlone`, through `JobInv`).
In the code this is what `pthread_mutex_t` does by itself; what the proof adds is that
no sequence of legal steps unlocks a level that another thread or the worker's own
job still counts on.

*Types.*  `TypeOK` bounds counters, and each bound is a consequence of another
invariant: a FIFO has at most `NrJobs` jobs and no slot is given back twice by `SlotInv`, the counter of
a `dpu_thread_job_sync` is below the number of ranks by `SyncInv`, a mutex is
at most three deep by `LockInv` of the next state.  `TypeInv` collects what remains to be
carried along.  The step that sets `undefined` needs a case of its own (`RankLast`): `LockInv`
says nothing after it.

### Only model-checked, and why

- Liveness (`Termination`, `CallsReturn`, the liveness in the refinements of
  `Exchange`, `CollectiveResult` and `TaskletPromise`): fairness and ENABLED are beyond
  the prover.  Of `KeepsPromise` of `TaskletSync` that leaves the fairness: that a call that
  may return does.
- `NoBurstRace`, `MeantForHolder` of `AllToAll`, `NoStepRace`, `ElementsAligned` of
  `Collectives`, their types and refinements: the places a thread writes are mixed-radix
  numbers with a radix per axis, through products over sequences; that they are apart
  needs nonlinear arithmetic with division, and induction on the axes.

## 6. What is left

Worth doing next, in this order:

1. *`Polling`*: the flags and condition variables of the polling thread; nobody
   waiting is forgotten.
2. *Allocators* of the runtime (the kernels use `mem_alloc` and `mem_reset` only):
   blocks stay disjoint.

Not modelled, and not planned: the old `_x`, `_y`, `_z` transfer functions,
which no `pidcomm_` function reaches; the byte interleaving of
`xeon_sp_translation.c` and the command sequences of the chip (hardware
protocol); ELF loading, logging, profiling, the Java and Python bindings; the
arithmetic and string library of the DPU.  Most files below
`upmem-2021.3.0_opt` are headers of the compiler and of the C library that the SDK
ships; they are no part of the system.
